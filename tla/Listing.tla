------------------------------ MODULE Listing ------------------------------
(***************************************************************************)
(* GET / of the CRUD base: BaseController.find with QueryParser,           *)
(* Pagination and buildModelQueryObject.                                   *)
(*                                                                         *)
(* A client asks for a list, and follows the nextPage link of each answer. *)
(* The find and the count of a page are two awaited calls; documents are   *)
(* inserted, updated and removed by other requests at any time.            *)
(*                                                                         *)
(* A document has a name, which stands for the fields that clients sort    *)
(* and filter by, and createdAt, which the process reads from its clock    *)
(* before the save reaches the database: insertions need not be in its     *)
(* order, and two documents may have the same.  A filter stands for the    *)
(* query's other fields and for its search, the collection for the         *)
(* documents that are not deleted.                                         *)
(***************************************************************************)
EXTENDS Integers, Sequences, FiniteSets

CONSTANTS Names, Times,
          Queries,      \* the queries clients start with
          ItemsPerPage, \* the size of a page the query gives none for
          MaxDocs,      \* bound: documents ever inserted
          MaxPage,      \* bound: pages followed
          NaN,          \* what parseInt makes of a text that is no number
          None          \* undefined

Ids == 1 .. MaxDocs

VARIABLES
  docs,   \* the collection, by _id
  lastId, \* the last _id given
  pc,     \* what the client is waiting for
  query,  \* the query of the request being served, or just answered
  found,  \* the documents of its page
  next,   \* the page of the nextPage link
  asked,  \* history: the query the walk started with
  start,  \* history: the documents that matched it then
  met,    \* history: the documents the client has met since
  left    \* history: a document has left the list since

vars == <<docs, lastId, pc, query, found, next, asked, start, met, left>>

walkVars == <<pc, query, found, next, asked, start, met>>

Document == [name : Names, createdAt : Times]

(* A column of a sort.  text: its direction is a string, as in             *)
(* ?sort[name]=asc, and not a number, as in ?sort=name.  "other" stands    *)
(* for every other string, such as "1" or "ascending", and for every other *)
(* value than 1 and -1.                                                    *)
Key == [column : {"name", "createdAt"}, dir : {"asc", "desc", "other"}, text : BOOLEAN]

NoSort == [kind |-> "none", keys |-> <<>>]
Scalar == [kind |-> "scalar", keys |-> <<>>] \* a JSON number, boolean or null

Sort == [kind : {"keys"}, keys : Seq(Key)] \cup {NoSort, Scalar}

(* page and perPage are what parseInt makes of any text a client sends. *)
Query == [sort : Sort, filter : Names \cup {None}, page : Int \cup {None, NaN},
          perPage : Int \cup {None, NaN}, all : BOOLEAN]

ASSUME BoundAssumption == MaxDocs \in Nat /\ MaxPage \in Nat /\ ItemsPerPage \in Nat
ASSUME DocumentAssumption == Names \subseteq Nat /\ Times \subseteq Nat
ASSUME QueriesAssumption == Queries \subseteq Query
ASSUME NoneAssumption == /\ None \notin Names \cup Int \cup {NaN} \cup Document \cup Query
                         /\ NaN \notin Int

-----------------------------------------------------------------------------
(* The sort getter, and what buildModelQueryObject makes of it.            *)

Newest == [column |-> "createdAt", dir |-> "desc", text |-> FALSE]
Oldest == [column |-> "createdAt", dir |-> "asc", text |-> FALSE]

(* "asc" becomes DESC, and whatever else a client has sent ASC. *)
Turned(dir) == IF dir = "asc" THEN "desc" ELSE "asc"

(* A read of the getter turns the directions that are strings, and keeps   *)
(* the result as the sort that the next read starts from.                  *)
Read(keys) == [i \in DOMAIN keys |->
                 IF keys[i].text THEN [keys[i] EXCEPT !.dir = Turned(@)] ELSE keys[i]]

(* Mutant of Returned: the sort is read once. *)
ReturnedOnce(sort) == IF sort.kind = "none" THEN <<Oldest>> ELSE Read(sort.keys)

(* The getter is read for the test that there is a sort, and again for it. *)
Returned(sort) == IF sort.kind = "none" THEN <<Oldest>> ELSE Read(Read(sort.keys))

NamesCreatedAt(keys) == \E i \in DOMAIN keys : keys[i].column = "createdAt"

(* Object.assign(.., { createdAt: -1 }) *)
WithCreatedAt(keys) ==
  IF NamesCreatedAt(keys)
  THEN [i \in DOMAIN keys |-> IF keys[i].column = "createdAt" THEN Newest ELSE keys[i]]
  ELSE Append(keys, Newest)

OrderOf(sort) == WithCreatedAt(Returned(sort))

-----------------------------------------------------------------------------
(* A page of the list.                                                     *)

Before(key, d, e) == IF key.dir = "asc" THEN d[key.column] < e[key.column]
                                        ELSE d[key.column] > e[key.column]

(* Sorted by keys, d may come before e: what would put e first comes after *)
(* what puts d first.  MongoDB gives equal documents in any order.         *)
MayPrecede(keys, d, e) ==
  \A i \in DOMAIN keys :
    Before(keys[i], e, d) => \E j \in 1 .. (i - 1) : Before(keys[j], d, e)

Matching(q) == {i \in Ids : docs[i] # None /\ q.filter \in {None, docs[i].name}}

(* The whole lists the database may find for q. *)
Lists(q) ==
  {list \in [1 .. Cardinality(Matching(q)) -> Matching(q)] :
     /\ \A i \in Matching(q) : \E k \in DOMAIN list : list[k] = i
     /\ \A k, l \in DOMAIN list :
          k < l => /\ list[k] # list[l]
                   /\ MayPrecede(OrderOf(q.sort), docs[list[k]], docs[list[l]])}

(* A perPage or page of 0 is a string, "0", and so given. *)
Size(q)    == IF q.perPage = None THEN ItemsPerPage ELSE q.perPage
Current(q) == IF q.page = None THEN 1 ELSE q.page

Numbers(q) == Size(q) \in Int /\ Current(q) \in Int

(* Mutant of Skip: page 2 skips nothing. *)
SkipLate(q) == IF Numbers(q) /\ Current(q) > 2 THEN (Current(q) - 1) * Size(q) ELSE 0

Skip(q) == IF Numbers(q) /\ Current(q) > 1 THEN (Current(q) - 1) * Size(q) ELSE 0

(* The documents MongoDB gives at most, 0 for no limit: it takes a limit   *)
(* below 0 for the one above, and none from NaN.                           *)
Limit(q) == CASE Size(q) \notin Int -> 0
              [] Size(q) \in Nat    -> Size(q)
              [] OTHER              -> -Size(q)

(* Where page q of a list of n documents starts and ends: all the list for *)
(* all, and without a limit.                                               *)
From(q) == IF q.all THEN 0 ELSE Skip(q)

To(q, n) == IF q.all \/ Limit(q) = 0 \/ From(q) + Limit(q) > n THEN n ELSE From(q) + Limit(q)

(* The getter throws on a scalar, which has no split; mongoose refuses     *)
(* directions it does not know, and MongoDB to skip less than nothing.     *)
Refused(q) == \/ q.sort.kind = "scalar"
              \/ \E i \in DOMAIN OrderOf(q.sort) : OrderOf(q.sort)[i].dir = "other"
              \/ From(q) < 0

(* Mutant of MorePages: it asks whether this is not the last page. *)
MorePagesNegated(q, count) == ~(Numbers(q) /\ count <= Size(q) * Current(q))

(* No comparison with NaN holds. *)
MorePages(q, count) == Numbers(q) /\ count > Size(q) * Current(q)

(* Mutant of Following: the link leads to the page it is on. *)
FollowingSame(q) == Current(q)

Following(q) == IF Current(q) = NaN THEN NaN ELSE Current(q) + 1

(* Mutant of Link: the link gives no perPage. *)
LinkWithoutSize(q, page) == [sort |-> NoSort, filter |-> None, page |-> page,
                             perPage |-> None, all |-> FALSE]

(* The query of a nextPage link has a perPage and a page, and nothing else. *)
Link(q, page) == [sort |-> NoSort, filter |-> None, page |-> page,
                  perPage |-> Size(q), all |-> FALSE]

-----------------------------------------------------------------------------
Idle == /\ pc = "idle" /\ query = None /\ asked = None
        /\ found = <<>> /\ next = None
        /\ start = {} /\ met = {} /\ left = FALSE

Init == Idle /\ docs = [i \in Ids |-> None] /\ lastId = 0

(* A client asks for a list. *)
Request ==
  /\ pc = "idle"
  /\ \E q \in Queries : query' = q /\ asked' = q /\ start' = Matching(q)
  /\ pc' = "find"
  /\ UNCHANGED <<docs, lastId, found, next, met, left>>

(* The find: skip and limit unless all is asked for, and the sort. *)
FindPage ==
  /\ pc = "find" /\ ~Refused(query)
  /\ \E list \in Lists(query) :
       LET from == From(query)
           to   == To(query, Len(list))
       IN  /\ found' = [k \in 1 .. (to - from) |-> docs[list[from + k]]]
           /\ met' = met \cup {list[k] : k \in (from + 1) .. to}
  /\ pc' = "count"
  /\ UNCHANGED <<docs, lastId, query, next, asked, start, left>>

(* The count of the documents that match, and the answer: pagination links *)
(* to a next page where there are more.                                    *)
Count ==
  /\ pc = "count"
  /\ next' = IF ~query.all /\ MorePages(query, Cardinality(Matching(query)))
             THEN Following(query) ELSE None
  /\ pc' = "answered"
  /\ UNCHANGED <<docs, lastId, query, found, asked, start, met, left>>

(* The client follows the link. *)
Follow ==
  /\ pc = "answered" /\ next # None /\ next <= MaxPage
  /\ query' = Link(query, next)
  /\ pc' = "find" /\ found' = <<>> /\ next' = None
  /\ UNCHANGED <<docs, lastId, asked, start, met, left>>

GiveUp == /\ pc' = "idle" /\ query' = None /\ asked' = None
          /\ found' = <<>> /\ next' = None
          /\ start' = {} /\ met' = {} /\ left' = FALSE
          /\ UNCHANGED <<docs, lastId>>

(* The find is refused: the client is told of an error. *)
Reject == pc = "find" /\ Refused(query) /\ GiveUp

(* A call fails, or the process dies. *)
Fail == pc \in {"find", "count"} /\ GiveUp

(* The client stops at any page. *)
Leave == pc = "answered" /\ GiveUp

Insert ==
  /\ lastId < MaxDocs
  /\ lastId' = lastId + 1
  /\ \E d \in Document : docs' = [docs EXCEPT ![lastId + 1] = d]
  /\ UNCHANGED <<walkVars, left>>

(* An update may take a document out of a filtered list. *)
Update ==
  /\ \E i \in Ids, n \in Names :
       /\ docs[i] # None
       /\ docs' = [docs EXCEPT ![i].name = n]
  /\ left' = (left \/ (pc # "idle" /\ asked.filter # None))
  /\ UNCHANGED <<walkVars, lastId>>

Remove ==
  /\ \E i \in Ids : docs[i] # None /\ docs' = [docs EXCEPT ![i] = None]
  /\ left' = (pc # "idle")
  /\ UNCHANGED <<walkVars, lastId>>

Serve == FindPage \/ Reject \/ Count

Next == Request \/ Serve \/ Follow \/ Fail \/ Leave \/ Insert \/ Update \/ Remove

Spec == Init /\ [][Next]_vars

(* MongoDB answers or fails, and the client follows its links. *)
FairSpec == Spec /\ WF_vars(Serve) /\ WF_vars(Follow)

-----------------------------------------------------------------------------
(* Properties.                                                             *)

(* The types.  Whatever a client sends as page and perPage, a link leads   *)
(* to a page that is a number; after page -1 that is page 0, which is      *)
(* served as page 1 is (getResponse and Pagination.next).                  *)
TypeOK ==
  /\ docs \in [Ids -> Document \cup {None}]
  /\ lastId \in 0 .. MaxDocs
  /\ pc \in {"idle", "find", "count", "answered"}
  /\ query \in Query \cup {None} /\ asked \in Query \cup {None}
  /\ pc # "idle" => query # None /\ asked # None
  /\ found \in Seq(Document)
  /\ next \in Int \cup {None}
  /\ start \subseteq Ids /\ met \subseteq Ids
  /\ left \in BOOLEAN

(* Columns and directions that the comment on the sort getter names. *)
Documented(keys) == \A i \in DOMAIN keys : keys[i].dir # "other"

(* What the comment on the sort getter promises (query-parser.ts:38-43):   *)
(* the columns in the directions the query gives, and then the newest      *)
(* first, although each read of the getter changes the directions.  It     *)
(* names only asc and desc; any other string, "1" or "ascending" too, is   *)
(* ASC after the first read and comes out descending (buildModelQueryObject*)
(* and the sort getter).                                                   *)
SortedAsAsked ==
  /\ pc \in {"count", "answered"}
  /\ Documented(query.sort.keys) /\ ~NamesCreatedAt(query.sort.keys)
  => \A k, l \in DOMAIN found :
       k < l => MayPrecede(Append(query.sort.keys, Newest), found[k], found[l])

(* A list from its first page on, of pages of a size that is a number. *)
FromStart(q) ==
  q.all \/ (Size(q) \in Nat /\ Current(q) \in Int /\ Current(q) <= 1)

(* A walk over the whole collection, by its links. *)
Plain(q) == q.sort = NoSort /\ q.filter = None /\ ~q.all

Distinct ==
  \A i, j \in {k \in Ids : docs[k] # None} :
    docs[i].createdAt = docs[j].createdAt => i = j

(* A client that reads a list to its end, from its first page, has met all *)
(* the documents that were there when it started, however many are         *)
(* inserted between the pages, or between the find and the count of a page *)
(* (find, morePages, skip).  It does if no document leaves the list while  *)
(* it reads, as one that leaves moves others to earlier pages; and if the  *)
(* list is one page, or has no sort and no filter, which links do not      *)
(* keep, and no two documents have the same createdAt.                     *)
WalkMissesNothing ==
  /\ pc = "answered" /\ next = None /\ ~left
  /\ FromStart(asked)
  /\ query = asked \/ (Plain(asked) /\ Distinct)
  => start \subseteq met

(* If nothing is inserted and nothing leaves, no two documents have the    *)
(* same createdAt, and the list has no sort and no filter and pages of at  *)
(* least one document, each page of a walk from page 1 has only documents  *)
(* the client has not met (skip, next).  Page 0 is page 1, and links to it.*)
WalkRepeatsNothing ==
  [][/\ pc = "find" /\ pc' = "count"
     /\ Plain(asked) /\ Current(asked) = 1 /\ Size(asked) \in Nat \ {0}
     /\ ~left /\ start = Matching(asked) /\ Distinct
     => Cardinality(met') = Cardinality(met) + Len(found')]_vars

(* Following the links comes to a page with no next one, unless pages are  *)
(* of size 0, which always have one (morePages).                           *)
WalkEnds ==
  pc = "find" /\ Size(query) # 0 ~> pc = "idle" \/ (pc = "answered" /\ next = None)
=============================================================================
