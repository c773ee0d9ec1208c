--------------------------- MODULE ListingProofs ---------------------------
(***************************************************************************)
(* That lists are sorted as asked although reads of the getter change the  *)
(* sort, and that a client which reads a list to its end misses nothing.   *)
(*                                                                         *)
(* Why nothing is missed: by createdAt, a document's place in the list is  *)
(* the number of newer documents, its rank.  Insertions only make ranks    *)
(* grow, so a document not yet met has, after each page, a rank past the   *)
(* pages served (Behind), and then the count is past them too: there is a  *)
(* next page.                                                              *)
(***************************************************************************)
EXTENDS Listing, FunctionTheorems, FiniteSetTheorems, TLAPS

-----------------------------------------------------------------------------
(* Pages.                                                                  *)

(* What a query's page and size are. *)
LEMMA PageType ==
  ASSUME NEW q \in Query
  PROVE  /\ Size(q) \in Int \cup {NaN} /\ Current(q) \in Int \cup {NaN}
         /\ Skip(q) \in Int /\ From(q) \in Int /\ Limit(q) \in Nat
         /\ Size(q) \in Nat => Limit(q) = Size(q) /\ Skip(q) \in Nat
<1>1. Size(q) \in Int \cup {NaN} /\ Current(q) \in Int \cup {NaN}
  BY BoundAssumption DEF Query, Size, Current
<1>2. Limit(q) \in Nat /\ (Size(q) \in Nat => Limit(q) = Size(q))
  BY <1>1 DEF Limit
<1>3. ASSUME NEW c \in Int, NEW z \in Int
      PROVE  (c - 1) * z \in Int /\ (c > 1 /\ z \in Nat => (c - 1) * z \in Nat)
  OBVIOUS
<1>4. Skip(q) \in Int /\ (Size(q) \in Nat => Skip(q) \in Nat)
  BY <1>3 DEF Skip, Numbers
<1> QED BY <1>1, <1>2, <1>4 DEF From

(* Where a page ends. *)
LEMMA PageEnd ==
  ASSUME NEW q \in Query, ~Refused(q), NEW n \in Nat
  PROVE  From(q) \in Nat /\ To(q, n) \in Nat /\ To(q, n) <= n
BY PageType DEF To, Refused

(* The link's query is one of a client. *)
LEMMA LinkType ==
  ASSUME NEW q \in Query, NEW page \in Int
  PROVE  /\ Link(q, page) \in Query
         /\ Current(Link(q, page)) = page /\ Size(Link(q, page)) = Size(q)
BY PageType, NoneAssumption DEF Query, Link, Size, Current, Sort, NoSort

(* Sets of ids, and how many there are. *)
LEMMA IdsFinite ==
  ASSUME NEW T \in SUBSET Ids
  PROVE  IsFiniteSet(T) /\ Cardinality(T) \in Nat
<1>1. IsFiniteSet(Ids)
  BY FS_Interval, BoundAssumption DEF Ids
<1> QED BY <1>1, FS_Subset, FS_CardinalityType

LEMMA MatchingType ==
  ASSUME NEW q
  PROVE  /\ Matching(q) \subseteq Ids /\ IsFiniteSet(Matching(q))
         /\ Cardinality(Matching(q)) \in Nat
<1>1. Matching(q) \in SUBSET Ids
  BY DEF Matching
<1> QED BY <1>1, IdsFinite

-----------------------------------------------------------------------------
(* Types.                                                                  *)

LEMMA TypeInit == Init => TypeOK
<1> SUFFICES ASSUME Init PROVE TypeOK
  OBVIOUS
<1>1. docs \in [Ids -> Document \cup {None}] /\ lastId \in 0 .. MaxDocs
  BY BoundAssumption DEF Init
<1>2. found \in Seq(Document)
  BY DEF Init, Idle
<1>3. /\ start \subseteq Ids /\ met \subseteq Ids /\ left \in BOOLEAN
      /\ pc = "idle" /\ query = None /\ asked = None /\ next = None
  BY DEF Init, Idle
<1> QED BY <1>1, <1>2, <1>3 DEF TypeOK

LEMMA GiveUpType == TypeOK /\ GiveUp => TypeOK'
<1> SUFFICES ASSUME TypeOK, GiveUp PROVE TypeOK'
  OBVIOUS
<1>1. docs' \in [Ids -> Document \cup {None}] /\ lastId' \in 0 .. MaxDocs
  BY DEF GiveUp, TypeOK
<1>2. found' \in Seq(Document)
  BY DEF GiveUp
<1>3. /\ start' \subseteq Ids /\ met' \subseteq Ids /\ left' \in BOOLEAN
      /\ pc' = "idle" /\ query' = None /\ asked' = None /\ next' = None
  BY DEF GiveUp
<1> QED BY <1>1, <1>2, <1>3 DEF TypeOK

LEMMA TypeStep == TypeOK /\ [Next]_vars => TypeOK'
<1> SUFFICES ASSUME TypeOK, [Next]_vars PROVE TypeOK'
  OBVIOUS
<1> USE DEF TypeOK
<1>1. CASE Request
  BY <1>1, MatchingType, QueriesAssumption, NoneAssumption DEF Request
<1>2. CASE FindPage
  <2>1. query \in Query
    BY <1>2 DEF FindPage
  <2>2. PICK list \in Lists(query) :
          LET from == From(query)
              to   == To(query, Len(list))
          IN  /\ found' = [k \in 1 .. (to - from) |-> docs[list[from + k]]]
              /\ met' = met \cup {list[k] : k \in (from + 1) .. to}
    BY <1>2 DEF FindPage
  <2> DEFINE n == Cardinality(Matching(query))
  <2>3. list \in [1 .. n -> Matching(query)] /\ n \in Nat
    BY MatchingType DEF Lists
  <2>4. Len(list) = n
    BY <2>3
  <2>5. From(query) \in Nat /\ To(query, n) \in Nat /\ To(query, n) <= n
    BY <1>2, <2>1, <2>3, PageEnd DEF FindPage
  <2>6. \A k \in 1 .. n : list[k] \in Ids /\ docs[list[k]] \in Document
    BY <2>3 DEF Matching
  <2>7. \A k \in 1 .. (To(query, n) - From(query)) : From(query) + k \in 1 .. n
    BY <2>3, <2>5
  <2>8. found' \in Seq(Document)
    <3>1. \A k \in 1 .. (To(query, n) - From(query)) : docs[list[From(query) + k]] \in Document
      BY <2>6, <2>7
    <3>2. found' = [k \in 1 .. (To(query, n) - From(query)) |-> docs[list[From(query) + k]]]
      BY <2>2, <2>4
    <3>3. CASE To(query, n) - From(query) \in Nat
      BY <3>1, <3>2, <3>3
    <3>4. CASE To(query, n) - From(query) \notin Nat
      BY <2>5, <3>2, <3>4
    <3> QED BY <3>3, <3>4
  <2>9. met' \subseteq Ids
    BY <2>2, <2>4, <2>5, <2>6
  <2> QED BY <1>2, <2>8, <2>9 DEF FindPage
<1>3. CASE Reject
  BY <1>3, GiveUpType DEF Reject
<1>4. CASE Count
  <2>1. query \in Query
    BY <1>4 DEF Count
  <2>2. next' \in Int \cup {None}
    BY <1>4, <2>1, NoneAssumption DEF Count, MorePages, Numbers, Following
  <2> QED BY <1>4, <2>2 DEF Count
<1>5. CASE Follow
  <2>1. query \in Query /\ next \in Int
    BY <1>5 DEF Follow
  <2>2. query' \in Query
    BY <1>5, <2>1, LinkType DEF Follow
  <2> QED BY <1>5, <2>2, NoneAssumption DEF Follow
<1>6. CASE Fail
  BY <1>6, GiveUpType DEF Fail
<1>7. CASE Leave
  BY <1>7, GiveUpType DEF Leave
<1>8. CASE Insert
  BY <1>8, BoundAssumption DEF Insert, walkVars, Ids
<1>9. CASE Update
  BY <1>9 DEF Update, walkVars, Document
<1>10. CASE Remove
  BY <1>10 DEF Remove, walkVars
<1>11. CASE UNCHANGED vars
  BY <1>11 DEF vars
<1> QED BY <1>1, <1>2, <1>3, <1>4, <1>5, <1>6, <1>7, <1>8, <1>9, <1>10, <1>11 DEF Next, Serve

(* Documents, queries and pages keep their types, and every link leads to  *)
(* a page that is a number, for any collection and whatever the clients    *)
(* send as page and perPage (find, getResponse).                           *)
THEOREM ListTypeCorrect == Spec => []TypeOK
BY TypeInit, TypeStep, PTL DEF Spec

-----------------------------------------------------------------------------
(* The order.                                                              *)

(* A second read of the getter restores what the first turned, for asc and *)
(* desc.                                                                   *)
LEMMA ReadTwice ==
  ASSUME NEW keys \in Seq(Key), Documented(keys)
  PROVE  Read(Read(keys)) = keys
<1> DEFINE turned(key) == [key EXCEPT !.dir = Turned(@)]
<1>1. \A i \in DOMAIN keys : keys[i] \in Key /\ keys[i].dir # "other"
  BY DEF Documented
<1>2. ASSUME NEW key \in Key, key.dir # "other"
      PROVE  turned(turned(key)) = key /\ turned(key).text = key.text
  BY <1>2 DEF Key, Turned
<1>3. DOMAIN Read(keys) = DOMAIN keys
  BY DEF Read
<1> HIDE DEF turned
<1>4. \A i \in DOMAIN keys : Read(keys)[i] = IF keys[i].text THEN turned(keys[i]) ELSE keys[i]
  BY DEF Read, turned
<1>5. \A i \in DOMAIN keys :
        Read(Read(keys))[i] = IF Read(keys)[i].text THEN turned(Read(keys)[i]) ELSE Read(keys)[i]
  BY <1>3 DEF Read, turned
<1>6. \A i \in DOMAIN keys : Read(Read(keys))[i] = keys[i]
  BY <1>1, <1>2, <1>4, <1>5
<1>7. Read(Read(keys)) = [i \in DOMAIN keys |-> Read(Read(keys))[i]]
  BY <1>3 DEF Read
<1>8. keys = [i \in DOMAIN keys |-> keys[i]]
  OBVIOUS
<1> QED BY <1>6, <1>7, <1>8

LEMMA OrderAsked ==
  ASSUME NEW sort \in Sort, sort.kind # "scalar", Documented(sort.keys), ~NamesCreatedAt(sort.keys)
  PROVE  OrderOf(sort) = Append(sort.keys, Newest)
<1>1. CASE sort = NoSort
  <2>1. Returned(sort) = <<Oldest>>
    BY <1>1 DEF Returned, NoSort
  <2>2. <<Oldest>>[1].column = "createdAt" /\ DOMAIN <<Oldest>> = {1}
    BY DEF Oldest
  <2>3. WithCreatedAt(<<Oldest>>) = [i \in {1} |-> Newest]
    BY <2>2 DEF WithCreatedAt, NamesCreatedAt
  <2>4. [i \in {1} |-> Newest] = <<Newest>>
    OBVIOUS
  <2> QED BY <1>1, <2>1, <2>3, <2>4 DEF OrderOf, NoSort
<1>2. CASE sort.kind = "keys" /\ sort.keys \in Seq(Key)
  <2>1. Returned(sort) = sort.keys
    BY <1>2, ReadTwice DEF Returned
  <2> QED BY <2>1 DEF OrderOf, WithCreatedAt
<1> QED BY <1>1, <1>2 DEF Sort, Scalar

SortInv == TypeOK /\ SortedAsAsked

LEMMA SortStep == SortInv /\ [Next]_vars => SortInv'
<1> SUFFICES ASSUME TypeOK, SortedAsAsked, [Next]_vars PROVE SortedAsAsked'
  BY TypeStep DEF SortInv
<1>1. CASE FindPage
  <2> SUFFICES ASSUME Documented(query.sort.keys), ~NamesCreatedAt(query.sort.keys),
                      NEW k \in DOMAIN found', NEW l \in DOMAIN found', k < l
               PROVE  MayPrecede(Append(query.sort.keys, Newest), found'[k], found'[l])
    BY <1>1 DEF SortedAsAsked, FindPage
  <2>1. query \in Query
    BY <1>1 DEF FindPage, TypeOK
  <2>2. PICK list \in Lists(query) :
          found' = [i \in 1 .. (To(query, Len(list)) - From(query)) |->
                      docs[list[From(query) + i]]]
    BY <1>1 DEF FindPage
  <2> DEFINE n == Cardinality(Matching(query))
             a == From(query)
  <2>3. /\ list \in [1 .. n -> Matching(query)] /\ n \in Nat
        /\ \A i, j \in DOMAIN list :
             i < j => MayPrecede(OrderOf(query.sort), docs[list[i]], docs[list[j]])
    BY MatchingType DEF Lists
  <2>4. a \in Nat /\ To(query, n) \in Nat /\ To(query, n) <= n /\ Len(list) = n
    BY <1>1, <2>1, <2>3, PageEnd DEF FindPage
  <2>5. /\ a + k \in 1 .. n /\ a + l \in 1 .. n /\ a + k < a + l
        /\ found'[k] = docs[list[a + k]] /\ found'[l] = docs[list[a + l]]
    BY <2>2, <2>4
  <2>6. MayPrecede(OrderOf(query.sort), found'[k], found'[l])
    BY <2>3, <2>5
  <2>7. OrderOf(query.sort) = Append(query.sort.keys, Newest)
    BY <1>1, <2>1, OrderAsked DEF FindPage, Refused, Query
  <2> QED BY <2>6, <2>7
<1>2. CASE Count
  BY <1>2 DEF Count, SortedAsAsked
<1>3. CASE Request \/ Follow
  BY <1>3 DEF Request, Follow, SortedAsAsked
<1>4. CASE Reject \/ Fail \/ Leave
  BY <1>4 DEF Reject, Fail, Leave, GiveUp, SortedAsAsked
<1>5. CASE Insert \/ Update \/ Remove
  BY <1>5 DEF Insert, Update, Remove, walkVars, SortedAsAsked
<1>6. CASE UNCHANGED vars
  BY <1>6 DEF vars, SortedAsAsked
<1> QED BY <1>1, <1>2, <1>3, <1>4, <1>5, <1>6 DEF Next, Serve

(* A page is in the order its query asks for, and then the newest first,   *)
(* for any columns but createdAt, each ascending or descending as the      *)
(* getter's comment has it: a number, asc or desc (buildModelQueryObject,  *)
(* the sort getter).                                                       *)
THEOREM ListSorted == Spec => []SortedAsAsked
<1>1. Init => SortInv
  BY TypeInit DEF Init, Idle, SortInv, SortedAsAsked
<1>2. SortInv => SortedAsAsked
  BY DEF SortInv
<1> QED BY <1>1, <1>2, SortStep, PTL DEF Spec

-----------------------------------------------------------------------------
(* Walks.                                                                  *)

Live     == {k \in Ids : docs[k] # None}
Newer(i) == {k \in Live : docs[k].createdAt > docs[i].createdAt}
Rank(i)  == Cardinality(Newer(i))

(* The place of the first document after page q. *)
Ends(q) == Size(q) * Current(q)

(* The documents still to be met are on the pages still to come. *)
Behind == \A i \in start \ met :
            Rank(i) >= IF pc = "find" THEN Skip(query) ELSE Ends(query)

Walk ==
  /\ start \subseteq Matching(asked)
  /\ Plain(asked) => Plain(query) /\ Size(query) = Size(asked) /\ Current(query) \in Int
  /\ Plain(asked) /\ Distinct => Behind
  /\ query = asked /\ pc # "find" =>
       start \subseteq met \/ (~query.all /\ MorePages(query, Cardinality(Matching(query))))
  /\ /\ pc = "answered" /\ next = None
     /\ query = asked \/ (Plain(asked) /\ Distinct)
     => start \subseteq met

WalkInv ==
  /\ TypeOK
  /\ \A i \in Ids : i > lastId => docs[i] = None
  /\ pc = "answered" /\ next # None => Numbers(query) /\ next = Current(query) + 1
  /\ pc # "idle" /\ ~left /\ FromStart(asked) => Walk

LEMMA LiveType ==
  /\ IsFiniteSet(Live) /\ Cardinality(Live) \in Nat
  /\ \A i : Newer(i) \subseteq Live /\ IsFiniteSet(Newer(i)) /\ Rank(i) \in Nat
<1>1. Live \in SUBSET Ids /\ \A i : Newer(i) \in SUBSET Ids
  BY DEF Live, Newer
<1> QED BY <1>1, IdsFinite DEF Rank, Newer

(* A document's rank is below the count. *)
LEMMA RankBelow ==
  ASSUME TypeOK, NEW i \in Live
  PROVE  Rank(i) < Cardinality(Live)
<1>1. docs[i].createdAt \in Nat
  BY DocumentAssumption DEF TypeOK, Live, Document
<1>2. i \notin Newer(i)
  BY <1>1 DEF Newer
<1>3. Newer(i) \in SUBSET Live /\ Newer(i) # Live
  BY <1>2 DEF Newer
<1>4. Cardinality(Newer(i)) <= Cardinality(Live) /\ Cardinality(Live) # Cardinality(Newer(i))
  BY <1>3, LiveType, FS_Subset
<1> QED BY <1>4, LiveType DEF Rank

(* For a query without sort and filter, all documents match, and the one   *)
(* at place k has k - 1 newer ones.                                        *)
LEMMA MatchingAll ==
  ASSUME NEW q, q.filter = None
  PROVE  Matching(q) = Live
BY DEF Matching, Live

LEMMA NewestFirst ==
  ASSUME NEW q, q.sort = NoSort, NEW d, NEW e, MayPrecede(OrderOf(q.sort), d, e),
         d.createdAt \in Nat, e.createdAt \in Nat
  PROVE  d.createdAt >= e.createdAt
<1>1. OrderOf(q.sort) = <<Newest>>
  <2>1. ~NamesCreatedAt(NoSort.keys) /\ NoSort.kind # "scalar" /\ NoSort \in Sort
    BY DEF NamesCreatedAt, NoSort, Sort
  <2> Documented(NoSort.keys)
    BY DEF Documented, NoSort
  <2>2. OrderOf(NoSort) = Append(NoSort.keys, Newest)
    BY <2>1, OrderAsked
  <2> QED BY <2>2 DEF NoSort
<1>2. DOMAIN <<Newest>> = {1} /\ <<Newest>>[1] = Newest
  OBVIOUS
<1>3. ~Before(Newest, e, d)
  BY <1>1, <1>2 DEF MayPrecede
<1> QED BY <1>3 DEF Before, Newest

LEMMA ListRank ==
  ASSUME TypeOK, Distinct, NEW q \in Query, Plain(q), NEW list \in Lists(q),
         NEW k \in DOMAIN list
  PROVE  Rank(list[k]) = k - 1
<1> DEFINE n == Cardinality(Live)
           time(i) == docs[list[i]].createdAt
<1>1. n \in Nat /\ Matching(q) = Live
  BY LiveType, MatchingAll DEF Plain
<1>2. /\ list \in [1 .. n -> Live] /\ DOMAIN list = 1 .. n
      /\ \A i \in Live : \E j \in 1 .. n : list[j] = i
      /\ \A i, j \in 1 .. n :
           i < j => /\ list[i] # list[j]
                    /\ MayPrecede(OrderOf(q.sort), docs[list[i]], docs[list[j]])
  BY <1>1 DEF Lists
<1>3. \A i \in 1 .. n : time(i) \in Nat
  BY <1>2, DocumentAssumption DEF TypeOK, Live, Document
<1>4. \A i, j \in 1 .. n : i < j => time(i) > time(j)
  <2> SUFFICES ASSUME NEW i \in 1 .. n, NEW j \in 1 .. n, i < j PROVE time(i) > time(j)
    OBVIOUS
  <2>1. time(i) >= time(j)
    BY <1>2, <1>3, NewestFirst DEF Plain
  <2>2. time(i) # time(j)
    BY <1>2 DEF Distinct, Live
  <2> QED BY <1>3, <2>1, <2>2
<1>5. Newer(list[k]) = {list[i] : i \in 1 .. (k - 1)}
  <2>1. ASSUME NEW i \in Newer(list[k]) PROVE \E j \in 1 .. (k - 1) : list[j] = i
    <3>1. PICK j \in 1 .. n : list[j] = i
      BY <1>2 DEF Newer
    <3>2. time(j) > time(k)
      BY <3>1 DEF Newer
    <3>3. j < k
      BY <1>2, <1>3, <1>4, <3>2
    <3> QED BY <1>2, <3>1, <3>3
  <2>2. ASSUME NEW j \in 1 .. (k - 1) PROVE list[j] \in Newer(list[k])
    <3>1. j \in 1 .. n /\ j < k
      BY <1>1, <1>2
    <3> QED BY <1>2, <1>4, <3>1 DEF Newer
  <2> QED BY <2>1, <2>2
<1> DEFINE f == [i \in 1 .. (k - 1) |-> list[i]]
<1>6. f \in Bijection(1 .. (k - 1), Newer(list[k]))
  <2>1. f \in [1 .. (k - 1) -> Newer(list[k])]
    BY <1>5
  <2>2. \A i, j \in 1 .. (k - 1) : f[i] = f[j] => i = j
    BY <1>1, <1>2
  <2>3. \A i \in Newer(list[k]) : \E j \in 1 .. (k - 1) : f[j] = i
    BY <1>5
  <2> QED BY <2>1, <2>2, <2>3, Fun_IsBij
<1>7. IsFiniteSet(1 .. (k - 1)) /\ Cardinality(1 .. (k - 1)) = k - 1
  <2>1. k \in Nat \ {0} /\ k - 1 \in Nat
    BY <1>1, <1>2
  <2>2. 1 > k - 1 => k - 1 = 0
    BY <2>1
  <2> QED BY <2>1, <2>2, FS_Interval
<1>8. ExistsBijection(1 .. (k - 1), Newer(list[k]))
  BY <1>6, Fun_ExistsBij
<1> QED BY <1>7, <1>8, FS_Bijection DEF Rank

(* A page of a plain list from its start on: what is not on it comes after *)
(* it.                                                                     *)
LEMMA EndsType ==
  ASSUME NEW q \in Query, Size(q) \in Nat, Current(q) \in Int
  PROVE  /\ Ends(q) \in Int /\ Skip(q) + Size(q) >= Ends(q)
         /\ Current(q) <= 1 => Skip(q) = 0 /\ Size(q) >= Ends(q)
<1> DEFINE c == Current(q)
           z == Size(q)
<1>1. c \in Int /\ z \in Nat
  OBVIOUS
<1> HIDE DEF c, z
<1>2. z * c \in Int /\ (c <= 1 => z >= z * c)
  <2>1. c <= 1 => z * (1 - c) >= 0
    BY <1>1
  <2>2. z * (1 - c) = z - z * c /\ z * c \in Int
    BY <1>1
  <2> QED BY <1>1, <2>1, <2>2
<1>3. c > 1 => (c - 1) * z + z = z * c
  BY <1>1
<1> QED BY <1>1, <1>2, <1>3 DEF Ends, Skip, Numbers, c, z

LEMMA WalkInit == Init => WalkInv
BY TypeInit DEF Init, Idle, WalkInv

LEMMA WalkRequest == WalkInv /\ Request => WalkInv'
<1> SUFFICES ASSUME WalkInv, Request PROVE WalkInv'
  OBVIOUS
<1>1. TypeOK /\ TypeOK'
  BY TypeStep DEF WalkInv, Next
<1>2. /\ pc' = "find" /\ query' \in Query /\ query' = asked'
      /\ start' = Matching(asked)' /\ docs' = docs /\ lastId' = lastId
  BY <1>1, QueriesAssumption DEF Request, Matching
<1>3. ASSUME FromStart(asked)', Plain(asked)' PROVE Behind'
  <2>1. Skip(query') = 0
    BY <1>2, <1>3, EndsType DEF FromStart, Plain
  <2>2. \A i : Rank(i)' \in Nat
    BY LiveType, <1>2 DEF Rank, Newer, Live
  <2> QED BY <1>2, <2>1, <2>2 DEF Behind
<1>4. FromStart(asked)' => Walk'
  BY <1>2, <1>3 DEF Walk, FromStart, Plain
<1> QED BY <1>1, <1>2, <1>4 DEF WalkInv

LEMMA WalkFindPage == WalkInv /\ FindPage => WalkInv'
<1> SUFFICES ASSUME WalkInv, FindPage PROVE WalkInv'
  OBVIOUS
<1>1. TypeOK /\ TypeOK'
  BY TypeStep DEF WalkInv, Next, Serve
<1>2. PICK list \in Lists(query) :
        met' = met \cup {list[k] : k \in (From(query) + 1) .. To(query, Len(list))}
  BY DEF FindPage
<1> DEFINE n == Cardinality(Matching(query))
           a == From(query)
           b == To(query, n)
<1>3. /\ list \in [1 .. n -> Matching(query)] /\ n \in Nat /\ Len(list) = n
      /\ \A i \in Matching(query) : \E k \in 1 .. n : list[k] = i
  BY MatchingType DEF Lists
<1>4. /\ query \in Query /\ pc = "find" /\ pc' = "count"
      /\ UNCHANGED <<docs, lastId, query, next, asked, start, left>>
  BY <1>1 DEF FindPage, TypeOK
<1>5. a \in Nat /\ b \in Nat /\ b <= n /\ (b = n \/ (b = a + Limit(query) /\ ~query.all))
  BY <1>3, <1>4, PageType, PageEnd DEF To, FindPage
<1>6. \A i \in Matching(query) \ met' : \E k \in 1 .. n : list[k] = i /\ (k <= a \/ k > b)
  <2> SUFFICES ASSUME NEW i \in Matching(query), i \notin met'
               PROVE  \E k \in 1 .. n : list[k] = i /\ (k <= a \/ k > b)
    OBVIOUS
  <2>1. PICK k \in 1 .. n : list[k] = i
    BY <1>3
  <2>2. k \notin (a + 1) .. b
    BY <1>2, <1>3, <2>1
  <2> QED BY <1>3, <1>5, <2>1, <2>2
<1>7. ASSUME ~left, FromStart(asked) PROVE Walk'
  <2>1. Walk
    BY <1>4, <1>7 DEF WalkInv
  <2>2. ASSUME Plain(asked), Distinct PROVE Behind'
    <3>1. Plain(query) /\ Behind /\ start \subseteq Matching(query)
      BY <2>1, <2>2, MatchingAll DEF Walk, Plain
    <3>2. a = Skip(query) /\ Size(query) \in Nat /\ Current(query) \in Int
          /\ Limit(query) = Size(query)
      BY <1>4, <1>7, <2>1, <2>2, <3>1, PageType DEF Plain, From, FromStart, Walk
    <3>3. ASSUME NEW i \in start, i \notin met' PROVE Rank(i) >= Ends(query)
      <4>1. PICK k \in 1 .. n : list[k] = i /\ (k <= a \/ k > b)
        BY <1>6, <3>1, <3>3
      <4>2. Rank(i) = k - 1
        BY <1>1, <1>3, <1>4, <2>2, <3>1, <4>1, ListRank
      <4>3. Rank(i) >= a
        BY <1>2, <1>4, <3>1, <3>2, <3>3 DEF Behind
      <4>4. k > a + Size(query)
        BY <1>3, <1>5, <3>2, <4>1, <4>2, <4>3
      <4>5. Ends(query) \in Int /\ a + Size(query) >= Ends(query)
        BY <1>4, <3>2, EndsType
      <4> QED BY <1>3, <1>5, <3>2, <4>2, <4>4, <4>5
    <3>4. \A i : Rank(i)' = Rank(i)
      BY <1>4 DEF Rank, Newer, Live
    <3>5. Ends(query') = Ends(query)
      BY <1>4
    <3> QED BY <1>4, <3>3, <3>4, <3>5 DEF Behind
  <2>3. ASSUME query = asked
        PROVE  start \subseteq met' \/ (~query.all /\ MorePages(query, n))
    <3>1. start \subseteq Matching(query)
      BY <2>1, <2>3 DEF Walk
    <3>2. a = 0
      BY <1>4, <1>7, <2>3, EndsType DEF FromStart, From
    <3>3. CASE b = n
      BY <1>3, <1>5, <1>6, <3>1, <3>2, <3>3
    <3>4. CASE b # n
      <4>1. ~query.all /\ n > Limit(query)
        BY <1>3, <1>4, <1>5, <3>2, <3>4, PageType
      <4>2. /\ Size(query) >= Ends(query) /\ Ends(query) \in Int /\ Size(query) \in Nat
            /\ Limit(query) = Size(query) /\ Current(query) \in Int
        BY <1>4, <1>7, <2>3, <4>1, EndsType, PageType DEF FromStart
      <4> QED BY <1>3, <4>1, <4>2 DEF MorePages, Numbers, Ends
    <3> QED BY <3>3, <3>4
  <2>4. Matching(query)' = Matching(query) /\ Matching(asked)' = Matching(asked)
        /\ Distinct' = Distinct
    BY <1>4 DEF Matching, Distinct
  <2> QED BY <1>4, <2>1, <2>2, <2>3, <2>4 DEF Walk
<1> QED BY <1>1, <1>4, <1>7 DEF WalkInv

LEMMA WalkCount == WalkInv /\ Count => WalkInv'
<1> SUFFICES ASSUME WalkInv, Count PROVE WalkInv'
  OBVIOUS
<1> DEFINE n == Cardinality(Matching(query))
<1>1. TypeOK /\ TypeOK'
  BY TypeStep DEF WalkInv, Next, Serve
<1>2. /\ query \in Query /\ pc = "count" /\ pc' = "answered"
      /\ UNCHANGED <<docs, lastId, query, asked, start, met, left>>
      /\ next' = IF ~query.all /\ MorePages(query, n) THEN Following(query) ELSE None
  BY <1>1 DEF Count, TypeOK
<1>3. MorePages(query, n) => /\ Numbers(query) /\ Following(query) = Current(query) + 1
                             /\ Following(query) # None
  BY NoneAssumption DEF MorePages, Numbers, Following
<1>4. next' # None => Numbers(query') /\ next' = Current(query') + 1
  BY <1>2, <1>3
<1>5. ASSUME ~left, FromStart(asked) PROVE Walk'
  <2>1. Walk
    BY <1>2, <1>5 DEF WalkInv
  <2>2. /\ \A i : Rank(i)' = Rank(i)
        /\ Matching(query)' = Matching(query) /\ Matching(asked)' = Matching(asked)
        /\ Distinct' = Distinct
    BY <1>2 DEF Rank, Newer, Live, Matching, Distinct
  <2>3. Plain(asked) /\ Distinct => Behind'
    BY <1>2, <2>1, <2>2 DEF Walk, Behind
  <2>4. ASSUME Plain(asked), Distinct, next' = None PROVE start \subseteq met
    <3> SUFFICES ASSUME NEW i \in start \ met PROVE FALSE
      OBVIOUS
    <3>1. Rank(i) >= Ends(query) /\ i \in Live /\ n = Cardinality(Live) /\ ~query.all
      BY <1>2, <2>1, <2>4, MatchingAll DEF Walk, Behind, Plain
    <3>2. Size(query) \in Nat /\ Current(query) \in Int
      BY <1>2, <1>5, <2>1, <2>4 DEF Walk, FromStart, Plain
    <3>3. n > Ends(query)
      BY <1>1, <1>2, <3>1, <3>2, RankBelow, LiveType, EndsType
    <3> QED BY <1>2, <1>3, <2>4, <3>1, <3>2, <3>3 DEF MorePages, Numbers, Ends
  <2>5. query = asked /\ next' = None => start \subseteq met
    BY <1>2, <1>3, <2>1 DEF Walk
  <2> QED BY <1>2, <2>1, <2>2, <2>3, <2>4, <2>5 DEF Walk
<1> QED BY <1>1, <1>2, <1>4, <1>5 DEF WalkInv

(* The next page starts where this one ends. *)
LEMMA SkipNext ==
  ASSUME NEW p, NEW q, Size(q) \in Int, Current(q) \in Int,
         Size(p) = Size(q), Current(p) = Current(q) + 1
  PROVE  Skip(p) = IF Current(q) > 0 THEN Ends(q) ELSE 0
<1> DEFINE c == Current(q)
           z == Size(q)
<1>1. Skip(p) = IF c + 1 > 1 THEN (c + 1 - 1) * z ELSE 0
  BY DEF Skip, Numbers
<1>2. Ends(q) = z * c
  BY DEF Ends
<1>3. c \in Int /\ z \in Int
  OBVIOUS
<1> HIDE DEF c, z
<1>4. c + 1 - 1 = c /\ c * z = z * c /\ (c + 1 > 1 <=> c > 0)
  BY <1>3
<1> QED BY <1>1, <1>2, <1>4 DEF c

LEMMA WalkFollow == WalkInv /\ Follow => WalkInv'
<1> SUFFICES ASSUME WalkInv, Follow PROVE WalkInv'
  OBVIOUS
<1>1. TypeOK /\ TypeOK'
  BY TypeStep DEF WalkInv, Next
<1>2. /\ query \in Query /\ pc = "answered" /\ pc' = "find" /\ next \in Int
      /\ next = Current(query) + 1 /\ query' = Link(query, next)
      /\ Size(query) \in Int /\ Current(query) \in Int
      /\ Size(query') = Size(query) /\ Current(query') = next
      /\ UNCHANGED <<docs, lastId, asked, start, met, left>>
  BY <1>1, LinkType DEF Follow, TypeOK, WalkInv, Numbers
<1>3. ASSUME ~left, FromStart(asked) PROVE Walk'
  <2>1. Walk
    BY <1>2, <1>3 DEF WalkInv
  <2>2. /\ \A i : Rank(i)' = Rank(i)
        /\ Matching(asked)' = Matching(asked) /\ Distinct' = Distinct
    BY <1>2 DEF Rank, Newer, Live, Matching, Distinct
  <2>3. Skip(query') = 0 \/ Skip(query') = Ends(query)
    BY <1>2, SkipNext
  <2>4. ASSUME Plain(asked), Distinct PROVE Behind'
    <3>1. \A i \in start \ met : Rank(i) >= Ends(query)
      BY <1>2, <2>1, <2>4 DEF Walk, Behind
    <3>2. \A i : Rank(i) \in Nat
      BY LiveType
    <3>3. \A i \in start \ met : Rank(i) >= Skip(query')
      BY <2>3, <3>1, <3>2
    <3> QED BY <1>2, <2>2, <3>3 DEF Behind
  <2>5. Plain(asked)' => Plain(query)' /\ Size(query') = Size(asked') /\ Current(query') \in Int
    BY <1>2, <2>1 DEF Plain, Link, Walk
  <2> QED BY <1>2, <2>1, <2>2, <2>4, <2>5 DEF Walk
<1> QED BY <1>1, <1>2, <1>3 DEF WalkInv

LEMMA WalkInsert == WalkInv /\ Insert => WalkInv'
<1> SUFFICES ASSUME WalkInv, Insert PROVE WalkInv'
  OBVIOUS
<1>1. TypeOK /\ TypeOK'
  BY TypeStep DEF WalkInv, Next
<1>2. PICK d \in Document : docs' = [docs EXCEPT ![lastId + 1] = d]
  BY DEF Insert
<1>3. /\ docs \in [Ids -> Document \cup {None}] /\ lastId + 1 \in Ids
      /\ docs[lastId + 1] = None /\ lastId' = lastId + 1
      /\ UNCHANGED <<pc, query, found, next, asked, start, met, left>>
  BY <1>1, BoundAssumption DEF Insert, walkVars, TypeOK, WalkInv, Ids
<1>4. /\ Live \subseteq Live' /\ \A i \in Live : docs'[i] = docs[i]
      /\ \A i \in Ids : i > lastId' => docs'[i] = None
  BY <1>1, <1>2, <1>3 DEF Live, WalkInv, TypeOK, Ids
<1>5. ASSUME pc # "idle", ~left, FromStart(asked) PROVE Walk'
  <2>1. Walk /\ query \in Query
    BY <1>1, <1>5 DEF WalkInv, TypeOK
  <2>2. Matching(query) \subseteq Matching(query)' /\ Matching(asked) \subseteq Matching(asked)'
    BY <1>3, <1>4 DEF Matching, Live
  <2>3. Distinct' => Distinct
    BY <1>4 DEF Distinct, Live
  <2>4. \A i \in Live : Rank(i) <= Rank(i)'
    <3> SUFFICES ASSUME NEW i \in Live PROVE Rank(i) <= Rank(i)'
      OBVIOUS
    <3>1. Newer(i) \in SUBSET Newer(i)'
      BY <1>4 DEF Newer
    <3>2. IsFiniteSet(Newer(i)')
      <4>1. Newer(i)' \in SUBSET Ids
        BY DEF Newer, Live
      <4> QED BY <4>1, IdsFinite
    <3> QED BY <3>1, <3>2, FS_Subset DEF Rank
  <2>5. ASSUME Plain(asked), Distinct' PROVE Behind'
    <3>1. Behind /\ start \subseteq Live
      BY <2>1, <2>3, <2>5, MatchingAll DEF Walk, Plain
    <3>2. Ends(query) \in Int /\ Skip(query) \in Int
      BY <1>3, <1>5, <2>1, <2>5, EndsType, PageType DEF Walk, FromStart, Plain
    <3>3. \A i \in Live : Rank(i) \in Nat /\ Rank(i)' \in Nat
      <4>1. \A i : IsFiniteSet(Newer(i)') 
        <5>1. \A i : Newer(i)' \in SUBSET Ids
          BY DEF Newer, Live
        <5> QED BY <5>1, IdsFinite
      <4> QED BY <4>1, LiveType, FS_CardinalityType DEF Rank
    <3> QED BY <1>3, <2>4, <3>1, <3>2, <3>3 DEF Behind
  <2>6. MorePages(query, Cardinality(Matching(query)))
        => MorePages(query, Cardinality(Matching(query)'))
    <3>1. IsFiniteSet(Matching(query)')
      <4>1. Matching(query)' \in SUBSET Ids
        BY DEF Matching
      <4> QED BY <4>1, IdsFinite
    <3>2. Cardinality(Matching(query)) <= Cardinality(Matching(query)')
      BY <2>2, <3>1, FS_Subset
    <3>3. Cardinality(Matching(query)) \in Nat /\ Cardinality(Matching(query)') \in Nat
      BY <3>1, MatchingType, FS_CardinalityType
    <3>4. Numbers(query) => Ends(query) \in Int
      BY DEF Numbers, Ends
    <3> QED BY <3>2, <3>3, <3>4 DEF MorePages, Ends
  <2> QED BY <1>3, <2>1, <2>2, <2>3, <2>5, <2>6 DEF Walk
<1> QED BY <1>1, <1>3, <1>4, <1>5 DEF WalkInv

(* An update changes neither which documents there are nor their places. *)
LEMMA UpdateKeeps ==
  ASSUME TypeOK, Update
  PROVE  /\ \A i \in Ids : docs'[i] = None <=> docs[i] = None
         /\ \A i \in Ids : docs[i] # None => docs'[i].createdAt = docs[i].createdAt
<1>1. PICK i \in Ids, m \in Names :
        docs[i] # None /\ docs' = [docs EXCEPT ![i].name = m]
  BY DEF Update
<1>2. docs \in [Ids -> Document \cup {None}] /\ docs[i] \in Document
  BY <1>1 DEF TypeOK
<1>3. [docs[i] EXCEPT !.name = m] \in Document
      /\ [docs[i] EXCEPT !.name = m].createdAt = docs[i].createdAt
  BY <1>2 DEF Document
<1> QED BY <1>1, <1>2, <1>3, NoneAssumption

LEMMA WalkUpdate == WalkInv /\ Update => WalkInv'
<1> SUFFICES ASSUME WalkInv, Update PROVE WalkInv'
  OBVIOUS
<1>1. TypeOK /\ TypeOK'
  BY TypeStep DEF WalkInv, Next
<1>2. /\ UNCHANGED <<lastId, pc, query, found, next, asked, start, met>>
      /\ ~left' => ~left /\ (pc # "idle" => asked.filter = None)
  BY DEF Update, walkVars
<1>3. /\ \A i \in Ids : docs'[i] = None <=> docs[i] = None
      /\ \A i \in Ids : docs[i] # None => docs'[i].createdAt = docs[i].createdAt
  BY <1>1, UpdateKeeps
<1>4. Live' = Live /\ \A i \in Live : Rank(i)' = Rank(i)
  BY <1>3 DEF Live, Rank, Newer
<1>5. Distinct' = Distinct
  BY <1>3 DEF Distinct
<1>6. ASSUME pc # "idle", ~left, FromStart(asked), asked.filter = None PROVE Walk'
  <2>1. Walk
    BY <1>6 DEF WalkInv
  <2>2. /\ Matching(asked) = Live /\ Matching(asked)' = Live
        /\ query = asked => Matching(query) = Live /\ Matching(query)' = Live
    BY <1>2, <1>4, <1>6 DEF Matching, Live
  <2>3. Plain(asked) /\ Distinct => Behind'
    BY <1>2, <1>4, <2>1, <2>2 DEF Walk, Behind
  <2> QED BY <1>2, <1>5, <2>1, <2>2, <2>3 DEF Walk
<1> QED BY <1>1, <1>2, <1>3, <1>6 DEF WalkInv

LEMMA WalkStep == WalkInv /\ [Next]_vars => WalkInv'
<1> SUFFICES ASSUME WalkInv, [Next]_vars PROVE WalkInv'
  OBVIOUS
<1>1. TypeOK /\ TypeOK'
  BY TypeStep DEF WalkInv
<1>2. CASE GiveUp
  BY <1>1, <1>2 DEF GiveUp, WalkInv
<1>3. CASE Remove
  BY <1>1, <1>3 DEF Remove, walkVars, WalkInv, TypeOK
<1>4. CASE UNCHANGED vars
  <2>1. UNCHANGED <<Walk>>
    BY <1>4 DEF vars, Walk, Behind, Rank, Newer, Live, Matching, Distinct
  <2> QED BY <1>1, <1>4, <2>1 DEF vars, WalkInv
<1> QED
  BY <1>2, <1>3, <1>4, WalkRequest, WalkFindPage, WalkCount, WalkFollow, WalkInsert,
     WalkUpdate DEF Next, Serve, Reject, Fail, Leave

(* If no document leaves the list while a client reads it from its first   *)
(* page to its end, the client has met every document that was there when  *)
(* it started, whatever is inserted meanwhile: of a list of one page       *)
(* always, of more pages if it has no sort and no filter and no two        *)
(* documents have the same createdAt (find, morePages, skip).              *)
THEOREM ListMissesNothing == Spec => []WalkMissesNothing
<1>1. WalkInv => WalkMissesNothing
  BY DEF WalkInv, Walk, WalkMissesNothing
<1> QED BY <1>1, WalkInit, WalkStep, PTL DEF Spec

-----------------------------------------------------------------------------
(* A walk on which nothing was inserted: what the client has met is ahead  *)
(* of the pages still to come.                                             *)

Quiet == /\ pc # "idle" /\ ~left
         /\ Plain(asked) /\ Current(asked) = 1 /\ Size(asked) \in Nat \ {0}
         /\ start = Matching(asked) /\ Distinct

Ahead == \A i \in met :
           i \in Live /\ Rank(i) < IF pc = "find" THEN Skip(query) ELSE Ends(query)

RepeatInv == /\ WalkInv
             /\ pc = "idle" => met = {}
             /\ Quiet => Current(query) >= 1 /\ Ahead

(* Where a page ends, of pages that are not empty. *)
LEMMA PageSpan ==
  ASSUME NEW q \in Query, Size(q) \in Nat, Current(q) \in Int, Current(q) >= 1
  PROVE  Skip(q) + Size(q) = Ends(q) /\ Skip(q) \in Nat
<1> DEFINE c == Current(q)
           z == Size(q)
<1>1. c \in Int /\ z \in Nat /\ c >= 1
  OBVIOUS
<1> HIDE DEF c, z
<1>2. (c - 1) * z + z = z * c /\ (c - 1) * z \in Nat /\ (c = 1 => z = z * c)
  BY <1>1
<1> QED BY <1>1, <1>2 DEF Ends, Skip, Numbers, c, z

LEMMA RepeatFindPage ==
  ASSUME RepeatInv, FindPage
  PROVE  /\ RepeatInv'
         /\ Quiet => Cardinality(met') = Cardinality(met) + Len(found')
<1>1. WalkInv /\ WalkInv' /\ TypeOK
  BY WalkFindPage DEF RepeatInv, WalkInv
<1>2. PICK list \in Lists(query) :
        LET from == From(query)
            to   == To(query, Len(list))
        IN  /\ found' = [k \in 1 .. (to - from) |-> docs[list[from + k]]]
            /\ met' = met \cup {list[k] : k \in (from + 1) .. to}
  BY DEF FindPage
<1>3. /\ query \in Query /\ pc = "find" /\ pc' = "count"
      /\ UNCHANGED <<docs, lastId, query, next, asked, start, left>>
  BY <1>1 DEF FindPage, TypeOK
<1>4. /\ Quiet' = Quiet
      /\ \A i : Rank(i)' = Rank(i)
      /\ Live' = Live
  BY <1>3 DEF Quiet, Matching, Distinct, Rank, Newer, Live
<1>5. ASSUME Quiet
      PROVE  /\ Current(query) >= 1 /\ Ahead'
             /\ Cardinality(met') = Cardinality(met) + Len(found')
  <2> DEFINE n == Cardinality(Live)
             a == Skip(query)
             b == To(query, n)
             P == {list[k] : k \in (a + 1) .. b}
  <2>1. /\ Plain(query) /\ Matching(query) = Live
        /\ Size(query) \in Nat \ {0} /\ Current(query) \in Int
    <3>1. FromStart(asked)
      BY <1>5 DEF Quiet, FromStart
    <3> QED BY <1>1, <1>5, <3>1, MatchingAll DEF WalkInv, Walk, Quiet, Plain
  <2>2. From(query) = a
    BY <2>1 DEF From, Plain
  <2>3. /\ list \in [1 .. n -> Live] /\ n \in Nat /\ Len(list) = n
        /\ \A i, j \in 1 .. n : i < j => list[i] # list[j]
    BY <2>1, LiveType DEF Lists
  <2>4. /\ a \in Nat /\ b \in Nat /\ b <= n /\ (b = n \/ b = a + Size(query))
        /\ b <= a + Size(query)
        /\ Current(query) >= 1 /\ Ahead /\ Ends(query) = a + Size(query)
        /\ Size(query) \in Nat
    <3>1. ~Refused(query) /\ Limit(query) = Size(query)
      BY <1>3, <2>1, PageType DEF FindPage
    <3> QED BY <1>3, <1>5, <2>1, <2>2, <2>3, <3>1, PageType, PageEnd, PageSpan
            DEF RepeatInv, To, Quiet, Plain
  <2>5. \A k \in (a + 1) .. b :
          k \in 1 .. n /\ list[k] \in Live /\ Rank(list[k]) = k - 1
    BY <1>1, <1>3, <1>5, <2>1, <2>3, <2>4, ListRank DEF Quiet
  <2>6. Ahead'
    <3>1. \A i \in met : i \in Live /\ Rank(i) < Ends(query)
      BY <1>1, <1>3, <2>4, LiveType DEF Ahead
    <3>2. \A i \in P : i \in Live /\ Rank(i) < Ends(query)
      BY <2>4, <2>5
    <3>3. met' = met \cup P
      BY <1>2, <2>2, <2>3
    <3> QED BY <1>3, <1>4, <3>1, <3>2, <3>3 DEF Ahead
  <2>7. met \cap P = {}
    BY <1>3, <2>4, <2>5, LiveType DEF Ahead
  <2>8. IsFiniteSet(P) /\ Cardinality(P) = Len(found')
    <3>1. found' = [k \in 1 .. (b - a) |-> docs[list[a + k]]]
      BY <1>2, <2>2, <2>3
    <3>2. CASE b <= a
      <4>1. (a + 1) .. b = {} /\ 1 .. (b - a) = {}
        BY <2>4, <3>2
      <4>2. P = {} /\ found' = <<>>
        BY <3>1, <4>1
      <4> QED BY <4>2, FS_EmptySet
    <3>3. CASE b > a
      <4> DEFINE f == [k \in (a + 1) .. b |-> list[k]]
      <4>1. f \in Bijection((a + 1) .. b, P)
        <5>1. f \in [(a + 1) .. b -> P] /\ \A i \in P : \E k \in (a + 1) .. b : f[k] = i
          OBVIOUS
        <5>2. \A i, j \in (a + 1) .. b : f[i] = f[j] => i = j
          BY <2>3, <2>4
        <5> QED BY <5>1, <5>2, Fun_IsBij
      <4>2. IsFiniteSet((a + 1) .. b) /\ Cardinality((a + 1) .. b) = b - a
        <5>1. a + 1 \in Int /\ b \in Int /\ ~(a + 1 > b) /\ b - (a + 1) + 1 = b - a
          BY <2>4, <3>3
        <5> QED BY <5>1, FS_Interval
      <4>3. ExistsBijection((a + 1) .. b, P)
        BY <4>1, Fun_ExistsBij
      <4>4. IsFiniteSet(P) /\ Cardinality(P) = b - a
        BY <4>2, <4>3, FS_Bijection
      <4>5. b - a \in Nat
        BY <2>4, <3>3
      <4>6. Len(found') = b - a
        BY <3>1, <4>5
      <4> QED BY <4>4, <4>6
    <3> QED BY <2>4, <3>2, <3>3
  <2>9. Cardinality(met') = Cardinality(met) + Len(found')
    <3>1. IsFiniteSet(met) /\ Cardinality(met) \in Nat
      BY <1>1, IdsFinite DEF TypeOK
    <3>2. met' = met \cup P
      BY <1>2, <2>2, <2>3
    <3>3. Cardinality(P) \in Nat
      BY <2>8, FS_CardinalityType
    <3> HIDE DEF P
    <3>4. Cardinality(met \cup P) = Cardinality(met) + Cardinality(P) - Cardinality(met \cap P)
      BY <2>8, <3>1, FS_Union
    <3>5. Cardinality(met \cap P) = 0
      BY <2>7, FS_EmptySet
    <3> QED BY <2>8, <3>1, <3>2, <3>3, <3>4, <3>5
  <2> QED BY <2>4, <2>6, <2>9
<1> QED BY <1>1, <1>3, <1>4, <1>5 DEF RepeatInv

LEMMA RepeatStep == RepeatInv /\ [Next]_vars => RepeatInv'
<1> SUFFICES ASSUME RepeatInv, [Next]_vars PROVE RepeatInv'
  OBVIOUS
<1>1. WalkInv /\ WalkInv' /\ TypeOK /\ TypeOK'
  BY WalkStep DEF RepeatInv, WalkInv
<1>2. CASE Request
  <2>1. met' = {}
    BY <1>2 DEF Request, RepeatInv
  <2>2. Quiet' => Current(query') >= 1
    BY <1>2 DEF Request, Quiet
  <2> QED BY <1>1, <2>1, <2>2 DEF RepeatInv, Ahead
<1>3. CASE FindPage
  BY <1>3, RepeatFindPage
<1>4. CASE Count
  <2>1. pc = "count" /\ pc' = "answered"
        /\ UNCHANGED <<docs, lastId, query, asked, start, met, left>>
    BY <1>4 DEF Count
  <2>2. Quiet' = Quiet /\ Live' = Live /\ \A i : Rank(i)' = Rank(i)
    BY <2>1 DEF Quiet, Matching, Distinct, Rank, Newer, Live
  <2>3. Ahead' = Ahead
    BY <2>1, <2>2 DEF Ahead
  <2> QED BY <1>1, <2>1, <2>2, <2>3 DEF RepeatInv
<1>5. CASE Follow
  <2>1. /\ query \in Query /\ pc = "answered" /\ pc' = "find" /\ next \in Int
        /\ next = Current(query) + 1 /\ query' = Link(query, next)
        /\ Size(query) \in Int /\ Current(query) \in Int
        /\ UNCHANGED <<docs, lastId, asked, start, met, left>>
    BY <1>1, <1>5 DEF Follow, TypeOK, WalkInv, Numbers
  <2>2. Live' = Live /\ \A i : Rank(i)' = Rank(i)
    BY <2>1 DEF Rank, Newer, Live
  <2>3. Size(query') = Size(query) /\ Current(query') = Current(query) + 1
    BY <2>1, LinkType
  <2>4. Quiet' => Quiet
    BY <2>1 DEF Quiet, Matching, Distinct
  <2>5. Current(query) >= 1 => Skip(query') = Ends(query)
    BY <2>1, <2>3, SkipNext
  <2>6. Quiet => Current(query) >= 1 /\ Ahead
    BY DEF RepeatInv
  <2>7. Quiet' => Ahead'
    BY <2>1, <2>2, <2>4, <2>5, <2>6 DEF Ahead
  <2>8. Quiet' => Current(query') >= 1
    BY <2>1, <2>3, <2>4, <2>6
  <2> QED BY <1>1, <2>1, <2>7, <2>8 DEF RepeatInv
<1>6. CASE GiveUp
  BY <1>1, <1>6 DEF GiveUp, RepeatInv, Quiet
<1>7. CASE Insert
  <2>1. UNCHANGED <<pc, met, start, asked, left>>
    BY <1>7 DEF Insert, walkVars
  <2>2. ~Quiet'
    <3> SUFFICES ASSUME Quiet' PROVE FALSE
      OBVIOUS
    <3>1. start \subseteq Live /\ start = Live'
      <4>1. pc # "idle" /\ ~left /\ FromStart(asked) /\ asked.filter = None
        BY <2>1 DEF Quiet, Plain, FromStart
      <4>2. start \subseteq Matching(asked) /\ start = Matching(asked)'
        BY <1>1, <2>1, <4>1 DEF WalkInv, Walk, Quiet
      <4> QED BY <2>1, <4>1, <4>2 DEF Matching, Live
    <3>2. lastId + 1 \in Ids /\ docs[lastId + 1] = None /\ docs'[lastId + 1] # None
      <4>1. PICK d \in Document : docs' = [docs EXCEPT ![lastId + 1] = d]
        BY <1>7 DEF Insert
      <4>2. lastId + 1 \in Ids
        BY <1>1, <1>7, BoundAssumption DEF Insert, TypeOK, Ids
      <4>3. docs'[lastId + 1] = d /\ d # None
        BY <1>1, <4>1, <4>2, NoneAssumption DEF TypeOK
      <4>4. docs[lastId + 1] = None
        BY <1>1, <4>2 DEF WalkInv, TypeOK
      <4> QED BY <4>2, <4>3, <4>4
    <3> QED BY <3>1, <3>2 DEF Live
  <2> QED BY <1>1, <2>1, <2>2 DEF RepeatInv
<1>8. CASE Update
  <2>1. /\ UNCHANGED <<lastId, pc, query, found, next, asked, start, met>>
        /\ ~left' => ~left
    BY <1>8 DEF Update, walkVars
  <2>2. /\ \A i \in Ids : docs'[i] = None <=> docs[i] = None
        /\ \A i \in Ids : docs[i] # None => docs'[i].createdAt = docs[i].createdAt
    BY <1>1, <1>8, UpdateKeeps
  <2>3. Live' = Live /\ (\A i \in Live : Rank(i)' = Rank(i)) /\ Distinct' = Distinct
    BY <2>2 DEF Live, Rank, Newer, Distinct
  <2>4. Quiet' => Quiet
    BY <2>1, <2>3 DEF Quiet, Plain, Matching, Live
  <2>5. Quiet => Current(query) >= 1 /\ Ahead
    BY DEF RepeatInv
  <2>6. Quiet' => Ahead'
    BY <2>1, <2>3, <2>4, <2>5 DEF Ahead
  <2> QED BY <1>1, <2>1, <2>4, <2>5, <2>6 DEF RepeatInv
<1>9. CASE Remove
  BY <1>1, <1>9 DEF Remove, walkVars, RepeatInv, Quiet
<1>10. CASE UNCHANGED vars
  <2>1. Quiet' = Quiet /\ Ahead' = Ahead
    BY <1>10 DEF vars, Quiet, Matching, Distinct, Ahead, Rank, Newer, Live
  <2> QED BY <1>1, <1>10, <2>1 DEF vars, RepeatInv
<1> QED
  BY <1>2, <1>3, <1>4, <1>5, <1>6, <1>7, <1>8, <1>9, <1>10 DEF Next, Serve, Reject, Fail, Leave

(* If nothing is inserted and nothing leaves, no page of a walk has a      *)
(* document that the client has already met, for any collection and any    *)
(* size of the pages but 0 (skip, next).                                   *)
THEOREM ListRepeatsNothing == Spec => WalkRepeatsNothing
<1>1. Init => RepeatInv
  BY WalkInit DEF Init, Idle, RepeatInv, Quiet
<1>2. RepeatInv /\ [Next]_vars =>
        [/\ pc = "find" /\ pc' = "count"
         /\ Plain(asked) /\ Current(asked) = 1 /\ Size(asked) \in Nat \ {0}
         /\ ~left /\ start = Matching(asked) /\ Distinct
         => Cardinality(met') = Cardinality(met) + Len(found')]_vars
  <2> SUFFICES ASSUME RepeatInv, Next, pc = "find", pc' = "count", Quiet
               PROVE  Cardinality(met') = Cardinality(met) + Len(found')
    BY DEF Quiet
  <2>1. FindPage
    BY DEF Next, Serve, Request, Reject, Count, Follow, Fail, Leave, GiveUp, Insert, Update,
           Remove, walkVars
  <2> QED BY <2>1, RepeatFindPage
<1> QED BY <1>1, <1>2, RepeatStep, PTL DEF Spec, WalkRepeatsNothing
=============================================================================
