------------------------------- MODULE Paging -------------------------------
(***************************************************************************)
(* The pages that feed-api serves: PaginateArticles, computed with the     *)
(* integers of a machine, which wrap around, and the handlers that call it *)
(* for a client, beside a curator that sets the key between the requests.  *)
(*                                                                         *)
(* The client scrolls: it asks for page 1, and for the following page as   *)
(* long as a page is not empty.  It may also ask for any page at once.     *)
(***************************************************************************)
EXTENDS Integers, Sequences

CONSTANTS
    Articles,
    MaxInt,      \* math.MaxInt: 2^63 - 1
    MaxLength,   \* bound: the articles of a list
    Panic

ASSUME PagingAssumption ==
    /\ MaxInt \in Nat \ {0}
    /\ MaxLength \in Nat
    /\ 2 * MaxLength <= MaxInt
    /\ Panic \notin Seq(Articles)

VARIABLES
    list,       \* the articles of a list in the news Redis
    pageSize,   \* of the client's requests
    page,       \* the page it was served last
    served,     \* what it was served, or Panic
    calm,       \* history: the key was not set, nor a page skipped, since page 1
    seen        \* history: if so, all it was served since

vars == <<list, pageSize, page, served, calm, seen>>

Lists == UNION {[1 .. n -> Articles] : n \in 0 .. MaxLength}

(* What strconv.Atoi accepts and the handlers let pass.                    *)
Requestable == 1 .. MaxInt

(* The sum or product of two ints.                                         *)
Wrap(n) == ((n + MaxInt + 1) % (2 * (MaxInt + 1))) - (MaxInt + 1)

Least(m, n) == IF m < n THEN m ELSE n

(* Mutant: pages are counted from 0.                                       *)
StartFromZero(p, size) == Wrap(p * size)

StartIndex(p, size) == Wrap(Wrap(p - 1) * size)

(* Mutant: the last index is taken to be part of the slice.                *)
EndInclusive(start, size) == Wrap(start + size + 1)

EndIndex(start, size) == Wrap(start + size)

(* The articles with the indexes low to high - 1, counted from 0.  Go's    *)
(* slice expression panics when low is negative or above high; high is at  *)
(* most the length here.                                                   *)
Slice(articles, low, high) ==
    IF 0 <= low /\ low <= high THEN SubSeq(articles, low + 1, high) ELSE Panic

(* Behind the end there is an empty page.                                  *)
PaginateArticles(articles, p, size) ==
    LET start == StartIndex(p, size)
    IN  IF start >= Len(articles) THEN <<>>
        ELSE Slice(articles, start, Least(EndIndex(start, size), Len(articles)))

-----------------------------------------------------------------------------
Init ==
    /\ list \in Lists
    /\ pageSize = 1
    /\ page = 1
    /\ served = <<>>
    /\ calm = FALSE
    /\ seen = <<>>

(* A handler reads the key, decodes the list and serves page p of it.      *)
Serve(p, size) ==
    /\ page' = p
    /\ pageSize' = size
    /\ served' = PaginateArticles(list, p, size)
    /\ UNCHANGED list

(* HeadlinesHandler, which knows page 1 only; NewsFeedHandler and          *)
(* DiscoverHandler for page 1.                                             *)
FirstPage ==
    /\ \E size \in Requestable : Serve(1, size)
    /\ calm' = TRUE
    /\ seen' = served'

(* NewsFeedHandler and DiscoverHandler for the page that follows.          *)
FollowingPage ==
    /\ served \notin {<<>>, Panic}
    /\ page < MaxInt
    /\ Serve(page + 1, pageSize)
    /\ seen' = IF calm THEN seen \o served' ELSE <<>>
    /\ UNCHANGED calm

(* The same for any page.                                                  *)
AnyPage ==
    /\ \E p, size \in Requestable : Serve(p, size)
    /\ calm' = FALSE
    /\ seen' = <<>>

(* The curator sets the key.                                               *)
Publish ==
    /\ list' \in Lists
    /\ calm' = FALSE
    /\ seen' = <<>>
    /\ UNCHANGED <<pageSize, page, served>>

Next == FirstPage \/ FollowingPage \/ AnyPage \/ Publish

Spec == Init /\ [][Next]_vars

-----------------------------------------------------------------------------
TypeOK ==
    /\ list \in Lists
    /\ pageSize \in 1 .. MaxInt
    /\ page \in 1 .. MaxInt
    /\ served \in Seq(Articles) \union {Panic}
    /\ calm \in BOOLEAN
    /\ seen \in Seq(Articles)

(* A client that scrolls through a list has seen, of all articles up to    *)
(* the end of its page, each once and in their order.  No page size makes  *)
(* it meet an overflow, the largest one included.                          *)
ScrolledSoFar ==
    calm => seen = SubSeq(list, 1, Least(page * pageSize, Len(list)))

(* Whatever page is asked for, and whatever overflows, the handler panics  *)
(* or serves consecutive articles of the list, no more than a page.        *)
PartServed ==
    [][\A p, size \in Requestable :
         Serve(p, size) /\ served' # Panic =>
            \E low \in 0 .. Len(list), n \in 0 .. size :
                low + n <= Len(list) /\ served' = SubSeq(list, low + 1, low + n)]_vars
=============================================================================
