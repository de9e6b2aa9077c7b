------------------------------ MODULE Pagination ------------------------------
(***************************************************************************)
(* One walk over a collection the server hands out in numbered pages:      *)
(*   "stream"   Page::into_stream (src/src/types/pagination.rs);           *)
(*   "collect"  collect_all_pages over Page::next_page                     *)
(*              (src/src/blocking/iter.rs);                                *)
(*   "peers"    Session::peers (src/src/session.rs), a loop of its own.    *)
(* While the walk goes on others add items to the collection and remove    *)
(* some, which moves the items of later pages.  Items are numbered in the  *)
(* order in which they were added, and a list has them in this order or,   *)
(* newest first, in the reverse one.                                       *)
(*                                                                         *)
(* A stream starts from one of the list operations, which differ in how    *)
(* they put the caller's filters into the body of the requests:            *)
(*   "workspace" Honcho::peers_with_filters and sessions_with_filters,     *)
(*   "peer"      Peer::sessions_with_options,                              *)
(*   "session"   Session::messages_with_options,                           *)
(*   "scope"     ConclusionScope::list.                                    *)
(* A filter is a key: "level" stands for any that the caller may pass, and *)
(* "scope" for those that a conclusion scope manages itself.               *)
(***************************************************************************)
EXTENDS Naturals, Sequences, FiniteSets, SequencesExt

CONSTANTS
  Walks,        \* which of the three
  Listings,     \* the list operations of a stream
  PageSize,     \* items on a page
  MaxPageSize,  \* MAX_PAGE_SIZE
  MaxPages,     \* MAX_COLLECT_PAGES
  MaxItems,     \* bound: items ever added
  MaxRemoved,   \* bound: items removed during the walk
  Levelled,     \* the items that pass the filter "level"
  Scoped        \* the items that pass the filter "scope"

ASSUME ConstantsAssumption ==
  /\ Walks \subseteq {"stream", "collect", "peers"}
  /\ Listings \subseteq {"workspace", "peer", "session", "scope"}
  /\ MaxPageSize \in Nat /\ PageSize \in 1..MaxPageSize
  /\ MaxPages \in Nat \ {0}
  /\ MaxItems \in Nat /\ MaxRemoved \in Nat

VARIABLES
  walk,      \* which walk it is
  reverse,   \* newest first?
  honest,    \* does the server report the page asked for and the page count?
  listing,   \* the list operation
  keys,      \* the filters the caller passed
  from,      \* the page it wants first
  size,      \* the page size it wants
  items,     \* the collection
  added,     \* items added so far
  removed,   \* items removed since the walk began
  pc,        \* "start", "asking", "yielding", or how it ended
  asked,     \* the page last asked for
  body,      \* the body of that request
  page,      \* PageResponse::page of the last answer
  pages,     \* PageResponse::pages of the last answer
  queue,     \* the page; of the stream, the items not yielded yet
  out,       \* the items the caller has got, or will get on success
  fetches,   \* requests sent
  (* History, read by properties only. *)
  first,     \* what was left to list when the first page was served
  since      \* how many items had been added by then

choice == <<walk, reverse, honest, listing, keys, from, size>>
server_vars == <<items, added, removed>>
history == <<first, since>>
vars == <<choice, server_vars, pc, asked, body, page, pages, queue, out, fetches, history>>

(* A body: its filters, and whether they are where the server looks.  *)
Wrapped(ks) == [filters |-> ks, bare |-> {}]
Bare(ks) == [filters |-> {}, bare |-> ks]
NoBody == Wrapped({})
Bodies == [filters : SUBSET {"level", "scope"}, bare : SUBSET {"level", "scope"}]

Init ==
  /\ walk \in Walks
  /\ reverse \in (IF walk = "peers" THEN {FALSE} ELSE BOOLEAN)
  /\ IF walk = "stream"
       THEN /\ listing \in Listings
            /\ keys \in SUBSET {"level", "scope"}
            /\ "scope" \in keys => listing = "scope"
            /\ from \in 0..2
            /\ size \in {0, PageSize, MaxPageSize + 1}
       ELSE listing = "workspace" /\ keys = {} /\ from = 1 /\ size = PageSize
  /\ \E n \in 0..MaxItems : items = 1..n /\ added = n
  /\ honest \in BOOLEAN
  /\ removed = 0
  /\ pc = "start"
  /\ asked = 0
  /\ body = NoBody
  /\ page = 0
  /\ pages = 0
  /\ queue = <<>>
  /\ out = <<>>
  /\ fetches = 0
  /\ first = {}
  /\ since = 0

-----------------------------------------------------------------------------
(* The server: the items that pass a set of filters, those of a page, and  *)
(* how many pages there are.  It knows the member "filters" of a body and  *)
(* none other (tests/schemas/openapi.json, MessageGet).                    *)
Passes(i, ks) == ("level" \in ks => i \in Levelled) /\ ("scope" \in ks => i \in Scoped)
Listed == {i \in items : Passes(i, body.filters)}

Before(i, j) == IF reverse THEN i > j ELSE i < j
Rank(S, i) == Cardinality({j \in S : Before(j, i)})
Beyond(S, n) == {i \in S : Rank(S, i) >= n}

PageItems(p) == Beyond(Listed, (p - 1) * PageSize) \ Beyond(Listed, p * PageSize)
PageCount == (Cardinality(Listed) + PageSize - 1) \div PageSize

(* A set of items in the order of the list: there is one such sequence. *)
InListOrder(S) ==
  {s \in [1..Cardinality(S) -> S] : \A i, j \in DOMAIN s : i < j => Before(s[i], s[j])}

AskWith(p, b) ==
  /\ pc' = "asking"
  /\ asked' = p
  /\ body' = b
  /\ fetches' = fetches + 1

(* The fetcher sends what the first request sent. *)
Ask(p) == AskWith(p, body)

(* The bodies the list operations send. *)
WorkspaceBody == Wrapped(keys)
PeerBody == IF keys = {} THEN NoBody ELSE Wrapped(keys)
SessionBody == Bare(keys)
ScopeBody == Wrapped(keys \union {"scope"})
FirstBody ==
  CASE listing = "workspace" -> WorkspaceBody
    [] listing = "peer"      -> PeerBody
    [] listing = "session"   -> SessionBody
    [] listing = "scope"     -> ScopeBody

(* reject_reserved_filters and validate_pagination. *)
Reserved == {"scope"}
Clash == listing = "scope" /\ keys \intersect Reserved # {}
ValidPagination == from >= 1 /\ size \in 1..MaxPageSize

(* The first page: paginate_post, or the first turn of the loop of peers. *)
Begin ==
  /\ pc = "start"
  /\ ~Clash /\ ValidPagination
  /\ AskWith(from, FirstBody)
  /\ UNCHANGED <<choice, server_vars, page, pages, queue, out, history>>

Refuse ==
  /\ pc = "start"
  /\ Clash \/ ~ValidPagination
  /\ pc' = "refused"
  /\ UNCHANGED <<choice, server_vars, asked, body, page, pages, queue, out, fetches, history>>

(* An answer of the server, with the page number and the page count it     *)
(* reports; into_stream yields the items later, the others have them now.  *)
Answer(p, n) ==
  /\ pc = "asking"
  /\ pc' = "yielding"
  /\ page' = p
  /\ pages' = n
  /\ \E got \in InListOrder(PageItems(asked)) :
       /\ queue' = got
       /\ out' = IF walk = "stream" THEN out ELSE out \o got
  /\ IF fetches = 1
       THEN /\ first' = Beyond(Listed, (from - 1) * PageSize)
            /\ since' = added
       ELSE UNCHANGED history
  /\ UNCHANGED <<choice, server_vars, asked, body, fetches>>

(* A fetch fails: the walk ends with the error. *)
FetchFails ==
  /\ pc = "asking"
  /\ pc' = "err"
  /\ UNCHANGED <<choice, server_vars, asked, body, page, pages, queue, out, fetches, history>>

Yield ==
  /\ pc = "yielding"
  /\ walk = "stream"
  /\ queue # <<>>
  /\ out' = Append(out, Head(queue))
  /\ queue' = Tail(queue)
  /\ UNCHANGED <<choice, server_vars, pc, asked, body, page, pages, fetches, history>>

Finish(how) ==
  /\ pc' = how
  /\ UNCHANGED <<asked, body, fetches>>

(* The page after the one that was reported is none after the one that was *)
(* asked for.  Only the loop over the later pages looks at this: after the *)
(* first page into_stream goes on with whatever follows the reported one.  *)
NoProgress == fetches > 1 /\ page + 1 <= asked

(* Mutant: a page number that does not grow is neither asked for nor the   *)
(* end.                                                                    *)
StreamNextStuck ==
  /\ pc = "yielding"
  /\ walk = "stream"
  /\ queue = <<>>
  /\ IF page >= pages THEN Finish("ok") ELSE ~NoProgress /\ Ask(page + 1)
  /\ UNCHANGED <<choice, server_vars, page, pages, queue, out, history>>

(* Mutant: only the first request has the filters. *)
StreamNextBare ==
  /\ pc = "yielding"
  /\ walk = "stream"
  /\ queue = <<>>
  /\ IF page >= pages \/ NoProgress THEN Finish("ok") ELSE AskWith(page + 1, NoBody)
  /\ UNCHANGED <<choice, server_vars, page, pages, queue, out, history>>

(* Mutant: the last page is left out. *)
StreamNextShort ==
  /\ pc = "yielding"
  /\ walk = "stream"
  /\ queue = <<>>
  /\ IF page + 1 >= pages THEN Finish("ok") ELSE Ask(page + 1)
  /\ UNCHANGED <<choice, server_vars, page, pages, queue, out, history>>

(* into_stream, once a page is yielded: it goes on after the page that was *)
(* reported, and stops if that is no progress.  A server that reports a    *)
(* page before the one asked for makes it ask for the first page again,    *)
(* and yield its items twice.                                              *)
StreamNext ==
  /\ pc = "yielding"
  /\ walk = "stream"
  /\ queue = <<>>
  /\ IF page >= pages \/ NoProgress THEN Finish("ok") ELSE Ask(page + 1)
  /\ UNCHANGED <<choice, server_vars, page, pages, queue, out, history>>

(* Mutant: the cap is looked at after the fetch. *)
CollectNextLate ==
  /\ pc = "yielding"
  /\ walk = "collect"
  /\ IF page >= pages THEN Finish("ok")
     ELSE IF fetches > MaxPages THEN Finish("capped") ELSE Ask(page + 1)
  /\ UNCHANGED <<choice, server_vars, page, pages, queue, out, history>>

(* collect_all_pages: the cap comes before the fetch. *)
CollectNext ==
  /\ pc = "yielding"
  /\ walk = "collect"
  /\ IF page >= pages THEN Finish("ok")
     ELSE IF fetches >= MaxPages THEN Finish("capped") ELSE Ask(page + 1)
  /\ UNCHANGED <<choice, server_vars, page, pages, queue, out, history>>

(* Mutant: the page is not advanced. *)
PeersNextAgain ==
  /\ pc = "yielding"
  /\ walk = "peers"
  /\ IF queue = <<>> \/ asked >= pages THEN Finish("ok") ELSE Ask(asked)
  /\ UNCHANGED <<choice, server_vars, page, pages, queue, out, history>>

(* Mutant: the page after the last is asked for too. *)
PeersNextPast ==
  /\ pc = "yielding"
  /\ walk = "peers"
  /\ IF queue = <<>> \/ asked > pages THEN Finish("ok") ELSE Ask(asked + 1)
  /\ UNCHANGED <<choice, server_vars, page, pages, queue, out, history>>

(* Session::peers counts the pages itself and stops at an empty one. *)
PeersNext ==
  /\ pc = "yielding"
  /\ walk = "peers"
  /\ IF queue = <<>> \/ asked >= pages THEN Finish("ok") ELSE Ask(asked + 1)
  /\ UNCHANGED <<choice, server_vars, page, pages, queue, out, history>>

-----------------------------------------------------------------------------
(* The others: items are added at the end, and removed anywhere. *)
AddItem ==
  /\ added < MaxItems
  /\ added' = added + 1
  /\ items' = items \union {added + 1}
  /\ UNCHANGED <<choice, removed, pc, asked, body, page, pages, queue, out, fetches, history>>

RemoveItem ==
  /\ pc # "start"
  /\ removed < MaxRemoved
  /\ removed' = removed + 1
  /\ \E i \in items : items' = items \ {i}
  /\ UNCHANGED <<choice, added, pc, asked, body, page, pages, queue, out, fetches, history>>

(* A server that is not honest reports page 1, or one page too many. *)
Reports ==
  IF honest THEN {<<asked, PageCount>>}
  ELSE {asked, 1} \X {PageCount, PageCount + 1}

Fetched == FetchFails \/ \E r \in Reports : Answer(r[1], r[2])
Onward == Begin \/ Refuse \/ Yield \/ StreamNext \/ CollectNext \/ PeersNext

Next == Onward \/ Fetched \/ AddItem \/ RemoveItem

Spec == Init /\ [][Next]_vars

(* The caller polls to the end, and every request is answered or fails. *)
FairSpec == Spec /\ WF_vars(Onward) /\ WF_vars(Fetched)

-----------------------------------------------------------------------------
(* Every variable has its type, the page asked for is a page the server    *)
(* said it has, or the first, and a refused walk asks for nothing.         *)
TypeOK ==
  /\ walk \in Walks
  /\ reverse \in BOOLEAN /\ honest \in BOOLEAN
  /\ listing \in Listings \union {"workspace"} /\ keys \subseteq {"level", "scope"}
  /\ items \subseteq 1..added /\ added \in 0..MaxItems /\ removed \in 0..MaxRemoved
  /\ pc \in {"start", "asking", "yielding", "ok", "err", "capped", "refused"}
  /\ asked \in Nat /\ page \in Nat /\ pages \in Nat /\ fetches \in Nat
  /\ body \in Bodies
  /\ queue \in Seq(1..added) /\ Len(queue) <= PageSize
  /\ out \in Seq(1..added)
  /\ first \subseteq 1..since /\ since \in 0..added
  /\ fetches > 1 => asked <= pages \/ pc # "asking"
  /\ fetches = 0 <=> pc \in {"start", "refused"}

Increasing(s) == \A i, j \in DOMAIN s : i < j => s[i] < s[j]

(* Whatever is added or removed while the walk goes on: oldest first, no   *)
(* item comes twice and none before an older one; newest first, an item    *)
(* comes again at most as often as others were added since the first page. *)
InOrder ==
  honest =>
    /\ ~reverse => Increasing(out)
    /\ reverse => Len(out) <= Cardinality(ToSet(out)) + added - since

(* A list keeps to the caller's filters on all of its pages, and one of    *)
(* conclusions to its scope too, which the caller's filters cannot widen   *)
(* (conclusion.rs:700-705).                                                *)
ListedOnlyWhatWasAsked ==
  listing # "session" =>
    \A i \in ToSet(out) :
      Passes(i, keys \union (IF listing = "scope" THEN {"scope"} ELSE {}))

(* "The messages_with_options method allows paginated listing with         *)
(* filters" (API.md:359).                                                  *)
MessagesFiltered == listing = "session" => \A i \in ToSet(out) : Passes(i, keys)

(* A walk that ended well has given every item that was there from the     *)
(* first page to the end, but for one per item removed meanwhile.          *)
MissedBounded ==
  honest /\ pc = "ok" =>
    Cardinality((first \intersect items) \ ToSet(out)) <= removed

(* "The cap is checked before each network fetch" (iter.rs:99-102): no     *)
(* page beyond the cap is asked for, and the cap refuses only a walk with  *)
(* more pages than that.                                                   *)
CapRespected ==
  /\ walk = "collect" => fetches <= MaxPages
  /\ pc = "capped" => fetches = MaxPages /\ page < pages

(* A walk ends, also if the server reports pages that are not there or a   *)
(* page number that does not grow (pagination.rs:352-358, session.rs:865). *)
Terminates == <>(pc \in {"ok", "err", "capped", "refused"})
=============================================================================
