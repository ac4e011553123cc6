------------------------------- MODULE AppLog -------------------------------
(***************************************************************************)
(* The log file of a program and its uploads.  A program appends to its    *)
(* log file; every 20 seconds a loop of its own opens the file, asks for   *)
(* its size and uploads that many bytes of it as a new object.  The four   *)
(* programs run the same code, each with a file and a bucket.              *)
(*                                                                         *)
(* The file is in the working directory of the container, and the compose  *)
(* file mounts no volume there: it survives the process, not the           *)
(* container.                                                              *)
(***************************************************************************)
CONSTANTS
    Lines,      \* bound: the lines that are followed
    NoUpload

ASSUME AppLogAssumption == \A part \in SUBSET Lines : part # NoUpload

VARIABLES
    running,    \* the process is up
    file,       \* the lines in its log file
    reading,    \* of the upload that is under way: the part it was told to read
    newest,     \* the lines in the newest object
    archived,   \* the lines in all the objects, whose names tell the second
    gone        \* history: the lines of files that went with their container

logVars == <<running, file, reading, newest, archived, gone>>

LogInit ==
    /\ running = TRUE
    /\ file = {}
    /\ reading = NoUpload
    /\ newest = {}
    /\ archived = {}
    /\ gone = {}

(* LogMessage: a line at the end of the file.                              *)
LogMessage ==
    /\ \/ \E n \in Lines \ (file \union gone) : file' = file \union {n}
       \/ Lines \subseteq file \union gone /\ file' = file
    /\ UNCHANGED <<running, reading, newest, archived, gone>>

(* Mutant: a line is still in a buffer of the program.                     *)
StatBuffered ==
    /\ running
    /\ reading = NoUpload
    /\ \E n \in Lines : reading' = file \ {n}
    /\ UNCHANGED <<running, file, newest, archived, gone>>

(* A tick: UploadLogDataToMinIO asks for the size of the file.             *)
Stat ==
    /\ running
    /\ reading = NoUpload
    /\ reading' = file
    /\ UNCHANGED <<running, file, newest, archived, gone>>

(* PutObject makes a new object of as much of the file as Stat has said,   *)
(* from its beginning: what was appended since is left to the next tick.   *)
PutObject ==
    /\ reading # NoUpload
    /\ newest' = reading
    /\ archived' = archived \union reading
    /\ reading' = NoUpload
    /\ UNCHANGED <<running, file, gone>>

(* PutObject fails and was not executed: that is logged.                   *)
PutFails ==
    /\ reading # NoUpload
    /\ reading' = NoUpload
    /\ UNCHANGED <<running, file, newest, archived, gone>>

(* A PutObject whose reply is lost does the same as one that succeeds.     *)
PushAppLogToMinIO == Stat \/ PutObject \/ PutFails

(* The process dies: an upload under way is gone.                          *)
Die ==
    /\ running
    /\ running' = FALSE
    /\ reading' = NoUpload
    /\ UNCHANGED <<file, newest, archived, gone>>

(* Mutant: the file is not opened for appending.                           *)
TruncateLog == file' = {}

(* Initialize opens the log file to append to it, or creates it.           *)
OpenLog == UNCHANGED file

(* The process is started again.                                           *)
Start ==
    /\ ~running
    /\ running' = TRUE
    /\ OpenLog
    /\ UNCHANGED <<reading, newest, archived, gone>>

(* The container of a dead process is removed, for instance to be built    *)
(* anew.                                                                   *)
RemoveContainer ==
    /\ ~running
    /\ file' = {}
    /\ gone' = gone \union file
    /\ UNCHANGED <<running, reading, newest, archived>>

(* MinIO, asked again and again, accepts an upload once.                   *)
LogFairness == SF_logVars(PutObject)

-----------------------------------------------------------------------------
LogTypeOK ==
    /\ running \in BOOLEAN
    /\ file \in SUBSET Lines
    /\ reading \in {NoUpload} \union SUBSET Lines
    /\ newest \in SUBSET Lines
    /\ archived \in SUBSET Lines
    /\ gone \in SUBSET Lines

(* Whatever fails, dies and is started again, the newest object has all    *)
(* that older ones have, but for the lines that went with a container: an  *)
(* upload never brings back an earlier state of the file, and a start      *)
(* leaves in it what it finds.                                             *)
NewestHasAll == archived \ gone \subseteq newest

(* What makes it inductive: the objects come from the file, and an upload  *)
(* under way, which only a living process has, reads no less than them.    *)
ReadsAllArchived ==
    /\ archived \subseteq file \union gone
    /\ reading # NoUpload =>
        running /\ archived \ gone \subseteq reading /\ reading \subseteq file

LogInv == LogTypeOK /\ ReadsAllArchived /\ NewestHasAll

(* If uploads begin again and again, as they do when the process stays up  *)
(* or is always started again, every line arrives in MinIO, unless its     *)
(* container is removed before: though uploads fail and the process dies   *)
(* again and again.                                                        *)
EveryLineUploaded ==
    []<>(reading # NoUpload) =>
        \A n \in Lines : n \in file ~> n \in archived \union gone
=============================================================================
