---------------------------- MODULE ViewerProofs ----------------------------
(* What the viewer shows, for all signals, views, moves of the display and
   orders in which the replies come: nothing but what the intervals of the log
   say (NothingFalse), and all of what was stored when the rows were built, once
   the reply to the request of a row has come (AllShown).

   The first rests on what mod_logreader answers being true of the table at any
   time, also out of what was asked for (AnswerSays): a reply to an older request
   is drawn on the cells of another view.  For the second, RequestsInv says that
   a request with the number of a group asks for the group's own cells, and that its
   answer is of no earlier state of the table than the group; FullInv, that from
   its reply on, each of the group's cells has what was stored by then, with whatever
   is drawn on it later.                                                     *)
EXTENDS Viewer, LogReaderProofs, FiniteSetTheorems, TLAPS

(* The values there may be in an answer, and in a picture. *)
AnswerValues == {Null, TooFast} \cup {course[k].value : k \in DOMAIN course}
CellValues == AnswerValues \cup {Blank}
Block ==
    [since : Nat, last : Nat, mark : BOOLEAN, labelled : BOOLEAN,
     picture : [Cells(blockStart, blockLength) -> CellValues],
     asOf : 0..stored, own : {"waiting", "drawn", "failed"}, onTop : BOOLEAN]

ViewInv ==
    /\ course \in Courses /\ stored \in Begun..Len(course)
    /\ displayLength \in Lengths /\ displayStart \in Int
    /\ blockStart \in Int /\ blockLength = 3 * displayLength
    /\ blockStart <= displayStart /\ displayStart + displayLength <= blockStart + blockLength

BlocksInv ==
    /\ built \in [Signals -> 0..MaxBuilds]
    /\ DOMAIN blocks \subseteq Signals
    /\ \A s \in DOMAIN blocks : blocks[s] \in Block /\ blocks[s].last = built[s]

Replies == {<<>>} \cup {<<k>> : k \in 0..stored}
Sent(s, n, start, length, reply) ==
    [signal |-> s, number |-> n, args |-> Query(s, start, length), reply |-> reply]
SentBy(q, s, n, start, l, reply) ==
    /\ q = Sent(s, n, start, 3 * l, reply) /\ n \in 1..built[s]
    /\ s \in DOMAIN blocks /\ n = blocks[s].last =>
          /\ start = blockStart /\ 3 * l = blockLength
          /\ reply # <<>> => blocks[s].asOf <= Head(reply)
RequestsInv == \A q \in requests :
    \E s \in Signals : \E n \in Nat : \E start \in Int : \E l \in Lengths : \E reply \in Replies :
        SentBy(q, s, n, start, l, reply)

TrueAt(s, t, seen) ==
    \/ seen = Blank
    \/ \E r \in SeenAt(s, t) : seen = r.value
    \/ seen = TooFast /\ \E r \in SeenAt(s, t) : TooShort(r)
TrueInv == \A s \in DOMAIN blocks : \A t \in Cells(blockStart, blockLength) :
    TrueAt(s, t, blocks[s].picture[t])

Resolved(r, length) == IF r.end - r.start < MinDuration(length) THEN TooFast ELSE r.value
Full(s, b) == \A t \in Cells(blockStart, blockLength) : \A r \in SeenAt(s, t) \cap Values(b.asOf) :
    b.picture[t] # Blank /\ (b.onTop => b.picture[t] = Resolved(r, blockLength))
FullInv == \A s \in DOMAIN blocks : blocks[s].own = "drawn" => Full(s, blocks[s])

IInv == ViewInv /\ BlocksInv /\ RequestsInv /\ TrueInv /\ FullInv

-----------------------------------------------------------------------------
LEMMA CellType == ASSUME NEW start \in Int, NEW length, NEW t \in Cells(start, length) PROVE t \in Int
BY DEF Cells

(* The first n intervals, and those of a signal among them. *)
Table(n, s) == {r \in Values(n) : r.id = s}

LEMMA FirstFinite == ASSUME NEW n \in Nat, NEW f PROVE IsFiniteSet({f[k] : k \in 1..n})
<1> DEFINE S == {f[k] : k \in 1..n}
           g == [k \in 1..n |-> f[k]]
<1>1. IsFiniteSet(1..n)
  BY FS_Interval
<1>2. g \in Surjection(1..n, S)
  BY DEF Surjection
<1> HIDE DEF S, g
<1>3. IsFiniteSet(S)
  BY <1>1, <1>2, FS_Surjection
<1> QED
  BY <1>3 DEF S

LEMMA TableApart ==
    ASSUME course \in Courses, NEW n \in 0..Len(course), NEW s
    PROVE  /\ Apart(Table(n, s))
           /\ \A r \in Table(n, s) : r.value \in AnswerValues /\ r.value \notin {Null, TooFast, Blank}
<1>1. Len(course) \in Nat /\ DOMAIN course = 1..Len(course)
  BY CoursesAssumption
<1>2. IsFiniteSet(Values(n))
  BY <1>1, FirstFinite DEF Values
<1>3. IsFiniteSet(Table(n, s))
  <2>1. Table(n, s) \subseteq Values(n)
    BY DEF Table
  <2> QED
    BY <1>2, <2>1, FS_Subset
<1>4. ASSUME NEW r \in Table(n, s) PROVE r.id = s /\ \E k \in DOMAIN course : r = course[k]
  <2>1. r \in Values(n) /\ r.id = s
    BY DEF Table
  <2>2. PICK k \in 1..n : r = course[k]
    BY <2>1 DEF Values
  <2> QED
    BY <1>1, <2>1, <2>2
<1>5. \A r \in Table(n, s) : /\ r.start \in Nat /\ r.end \in Int /\ r.start <= r.end
                             /\ r.value \in AnswerValues /\ r.value \notin {Null, TooFast, Blank}
  <2> SUFFICES ASSUME NEW r \in Table(n, s)
               PROVE  /\ r.start \in Nat /\ r.end \in Int /\ r.start <= r.end
                      /\ r.value \in AnswerValues /\ r.value \notin {Null, TooFast, Blank}
    OBVIOUS
  <2>1. PICK k \in DOMAIN course : r = course[k]
    BY <1>4
  <2> QED
    BY <2>1, CoursesAssumption DEF AnswerValues
<1>6. ASSUME NEW r \in Table(n, s), NEW q \in Table(n, s), r # q
      PROVE  r.start # q.start /\ (r.end <= q.start \/ q.end <= r.start)
  <2>1. PICK j \in DOMAIN course : r = course[j]
    BY <1>4
  <2>2. PICK k \in DOMAIN course : q = course[k]
    BY <1>4
  <2>3. course[j].id = course[k].id /\ course[j] # course[k]
    BY <1>4, <1>6, <2>1, <2>2
  <2> QED
    BY <2>1, <2>2, <2>3, CoursesAssumption
<1> QED
  BY <1>3, <1>5, <1>6 DEF Apart

(* TextGraphBlock.build_block: where a value begins and ends.  With the changes
   in order, what is drawn is what they show. *)
LEMMA DrawnCell ==
    ASSUME NEW V, NEW out \in Seq(Changes(V)), Rising(out), NEW picture, NEW t \in DOMAIN picture, t \in Int
    PROVE  /\ Drawn(picture, out)[t] = IF ShownAt(t, out) = Null THEN picture[t] ELSE ShownAt(t, out)
           /\ ShownAt(t, out) \in V \cup {Null}
<1> DEFINE n == Len(out)
           past == {k \in DOMAIN out : out[k].time <= t}
           m == Max(past)
           cover == Covering(out, t)
<1>1. n \in Nat /\ DOMAIN out = 1..n
  OBVIOUS
<1>2. \A k \in 1..n : out[k].time \in Int /\ out[k].value \in V
  <2> SUFFICES ASSUME NEW k \in 1..n PROVE out[k].time \in Int /\ out[k].value \in V
    OBVIOUS
  <2>1. out[k] \in Changes(V)
    BY <1>1
  <2> QED
    BY <2>1 DEF Changes
<1>3. Drawn(picture, out)[t] = IF cover = {} THEN picture[t] ELSE out[Max(cover)].value
  BY DEF Drawn
<1>4. ShownAt(t, out) = IF past = {} THEN Null ELSE out[m].value
  BY DEF ShownAt
<1>5. \A k : k \in cover <=> /\ k \in 1..n /\ out[k].value # Null /\ out[k].time <= t
                             /\ k < n => t < out[k + 1].time
  BY <1>1 DEF Covering, Known
<1>6. \A k : k \in past <=> k \in 1..n /\ out[k].time <= t
  BY <1>1
<1> HIDE DEF n, cover, past
<1>7. CASE past = {}
  <2>1. cover = {}
    BY <1>5, <1>6, <1>7
  <2> QED
    BY <1>3, <1>4, <1>7, <2>1
<1>8. CASE past # {}
  <2>1. past \subseteq 1..n
    BY <1>6
  <2>2. m \in past /\ \A k \in past : k <= m
    BY <1>1, <1>8, <2>1, GreatestOf
  <2> HIDE DEF m
  <2>3. m \in 1..n /\ out[m].time <= t
    BY <1>6, <2>2
  <2>4. m < n => t < out[m + 1].time
    <3> SUFFICES ASSUME m < n PROVE t < out[m + 1].time
      OBVIOUS
    <3>1. m + 1 \in 1..n /\ m + 1 \notin past
      BY <1>1, <2>2, <2>3
    <3> QED
      BY <1>2, <1>6, <3>1
  <2>5. \A k \in cover : k = m
    <3> SUFFICES ASSUME NEW k \in cover, k # m PROVE FALSE
      OBVIOUS
    <3>1. k \in past /\ k \in 1..n
      BY <1>5, <1>6
    <3>2. k < m /\ k < n /\ k + 1 \in 1..n /\ k + 1 <= m
      BY <1>1, <2>2, <2>3, <3>1
    <3>3. out[k + 1].time <= out[m].time
      BY <1>1, <2>3, <3>2 DEF Rising
    <3>4. t < out[k + 1].time
      BY <1>5, <3>2
    <3> QED
      BY <1>2, <2>3, <3>2, <3>3, <3>4
  <2>6. CASE out[m].value = Null
    <3>1. cover = {}
      BY <1>5, <2>5, <2>6
    <3> QED
      BY <1>3, <1>4, <1>8, <2>6, <3>1
  <2>7. CASE out[m].value # Null
    <3>1. cover = {m}
      BY <1>5, <2>3, <2>4, <2>5, <2>7
    <3>2. Max(cover) = m
      BY <2>3, <3>1, <1>1 DEF Max
    <3> QED
      BY <1>2, <1>3, <1>4, <1>8, <2>3, <2>7, <3>1, <3>2
  <2> QED
    BY <1>2, <1>3, <1>4, <1>8, <2>3, <2>6, <2>7
<1> QED
  BY <1>7, <1>8

(* The reply to a request, from the table as it was when it was served. *)
LEMMA ReplySays ==
    ASSUME course \in Courses, stored \in 0..Len(course), NEW n \in 0..stored,
           NEW s, NEW start \in Int, NEW l \in Lengths, NEW t \in Int
    PROVE  LET out == Answer(Table(n, s), Window(Query(s, start, 3 * l)))
               shown == ShownAt(t, out)
           IN  /\ out \in Seq(Changes(AnswerValues)) /\ Rising(out)
               /\ shown # Null => shown # Blank /\ TrueAt(s, t, shown)
               /\ t \in Cells(start, 3 * l) => \A r \in SeenAt(s, t) \cap Values(n) :
                     shown # Null /\ shown = Resolved(r, 3 * l)
<1> DEFINE table == Table(n, s)
           request == Window(Query(s, start, 3 * l))
           out == Answer(table, request)
           shown == ShownAt(t, out)
<1>1. /\ request.start = start /\ request.end = start + 3 * l
      /\ request.min = MinDuration(3 * l)
  BY DEF Window, Query, Given
<1>2. l \in Nat /\ 3 * l \in Nat /\ request.start \in Int /\ request.end \in Int
  BY <1>1, ViewerAssumption
<1>3. n \in 0..Len(course) /\ Len(course) \in Nat
  BY CoursesAssumption
<1>4. Apart(table) /\ \A r \in table : r.value \in AnswerValues /\ r.value \notin {Null, TooFast, Blank}
  BY <1>3, TableApart
<1>5. Null \in AnswerValues /\ TooFast \in AnswerValues
  BY DEF AnswerValues
<1>6. table \subseteq Table(stored, s)
  BY <1>3 DEF Table, Values
<1>7. \A r \in table : r.start <= t /\ t < r.end => r \in SeenAt(s, t)
  BY <1>6 DEF SeenAt, Table
<1>8. \A r : ValueOf(r, request) = Resolved(r, 3 * l)
  BY <1>1 DEF ValueOf, IsShort, Resolved
<1> HIDE DEF table, request, out
<1>9. /\ out \in Seq(Changes(AnswerValues)) /\ Rising(out)
      /\ \/ shown = Null
         \/ \E r \in table : r.start <= t /\ t < r.end /\ shown = ValueOf(r, request)
      /\ Asks(t, request) => shown \in KnownAt(t, table, request)
  BY <1>2, <1>4, <1>5, AnswerSays DEF out
<1> HIDE DEF shown
<1>10. ASSUME shown # Null PROVE shown # Blank /\ TrueAt(s, t, shown)
  <2>1. PICK r \in table : r.start <= t /\ t < r.end /\ shown = ValueOf(r, request)
    BY <1>9, <1>10
  <2>2. r \in SeenAt(s, t)
    BY <1>7, <2>1
  <2>3. CASE r.end - r.start < MinDuration(3 * l)
    <3>1. shown = TooFast /\ TooShort(r)
      BY <1>8, <2>1, <2>3 DEF Resolved, TooShort
    <3> QED
      BY <2>2, <3>1 DEF TrueAt, TooFast, Blank
  <2>4. CASE ~(r.end - r.start < MinDuration(3 * l))
    <3>1. shown = r.value
      BY <1>8, <2>1, <2>4 DEF Resolved
    <3> QED
      BY <1>4, <2>2, <3>1 DEF TrueAt
  <2> QED
    BY <2>3, <2>4
<1>11. ASSUME t \in Cells(start, 3 * l), NEW r \in SeenAt(s, t) \cap Values(n)
       PROVE  shown # Null /\ shown = Resolved(r, 3 * l)
  <2>1. r \in table /\ r.start <= t /\ t < r.end
    BY DEF SeenAt, Table, table
  <2>2. Asks(t, request)
    BY <1>1, <1>2, <1>11 DEF Asks, Cells
  <2>3. PICK q \in table : q.start <= t /\ t < q.end /\ shown = ValueOf(q, request)
    BY <1>9, <2>1, <2>2 DEF KnownAt, ValueOf
  <2>4. q = r
    <3> SUFFICES ASSUME q # r PROVE FALSE
      OBVIOUS
    <3>1. q.end <= r.start \/ r.end <= q.start
      BY <1>4, <2>1 DEF Apart
    <3>2. q.start \in Nat /\ q.end \in Int /\ r.start \in Nat /\ r.end \in Int
      BY <1>4, <2>1 DEF Apart
    <3> QED
      BY <2>1, <2>3, <3>1, <3>2
  <2>5. shown = Resolved(r, 3 * l)
    BY <1>8, <2>3, <2>4
  <2>6. Resolved(r, 3 * l) # Null
    BY <1>4, <2>1 DEF Resolved, Null, TooFast
  <2> QED
    BY <2>5, <2>6
<1> QED
  BY <1>9, <1>10, <1>11 DEF shown, out, table, request

-----------------------------------------------------------------------------
(* More is stored, and nothing else is done to the blocks and requests. *)
LEMMA Numbers ==
    ASSUME ViewInv
    PROVE  /\ Len(course) \in Nat /\ stored \in 0..Len(course) /\ stored \in Nat
           /\ displayLength \in Nat /\ displayLength > 0 /\ displayLength % 2 = 0
           /\ blockLength \in Nat /\ MaxBuilds \in Nat
BY CoursesAssumption, ViewerAssumption DEF ViewInv

LEMMA SeenMore ==
    ASSUME ViewInv, ViewInv', UNCHANGED course, stored <= stored'
    PROVE  /\ \A s, t : SeenAt(s, t) \subseteq SeenAt(s, t)'
           /\ \A s, t, seen : TrueAt(s, t, seen) => TrueAt(s, t, seen)'
<1>0. stored \in Int /\ stored' \in Int
  BY Numbers DEF ViewInv
<1>1. Values(stored) \subseteq Values(stored')
  BY <1>0 DEF Values
<1>2. \A s, t : SeenAt(s, t) \subseteq SeenAt(s, t)'
  BY <1>1 DEF SeenAt, Values
<1> QED
  BY <1>2 DEF TrueAt

(* What was stored by the time of a group is seen as before. *)
LEMMA SeenBefore ==
    ASSUME ViewInv, UNCHANGED course, NEW n \in 0..stored, NEW s, NEW t
    PROVE  SeenAt(s, t)' \cap Values(n) \subseteq SeenAt(s, t)
<1>1. Values(n) \subseteq Values(stored)
  BY Numbers DEF Values
<1> QED
  BY <1>1 DEF SeenAt

(* A step that leaves the blocks, the requests and the view alone. *)
LEMMA SameBlocks ==
    ASSUME IInv, ViewInv', UNCHANGED <<course, blockStart, blockLength, blocks, built>>, stored <= stored',
           requests' \subseteq requests
    PROVE  IInv'
<1> USE DEF IInv
<1>1. stored \in Nat /\ stored' \in Nat
  BY Numbers DEF ViewInv
<1>2. \A b \in Block : b \in Block'
  BY <1>1 DEF Block, AnswerValues, CellValues
<1>3. BlocksInv'
  BY <1>2 DEF BlocksInv
<1>4. RequestsInv'
  <2>1. Replies \subseteq Replies'
    BY <1>1 DEF Replies
  <2> SUFFICES ASSUME NEW q \in requests
               PROVE  \E s \in Signals : \E n \in Nat : \E start \in Int : \E l \in Lengths :
                         \E reply \in Replies' : SentBy(q, s, n, start, l, reply)'
    BY DEF RequestsInv
  <2>2. PICK s \in Signals, n \in Nat, start \in Int, l \in Lengths, reply \in Replies :
            SentBy(q, s, n, start, l, reply)
    BY DEF RequestsInv
  <2>3. SentBy(q, s, n, start, l, reply)'
    BY <2>2 DEF SentBy
  <2> QED
    BY <2>1, <2>2, <2>3
<1>5. TrueInv'
  BY SeenMore DEF TrueInv
<1>6. FullInv'
  <2> SUFFICES ASSUME NEW s \in DOMAIN blocks, blocks[s].own = "drawn" PROVE Full(s, blocks[s])'
    BY DEF FullInv
  <2>1. Full(s, blocks[s]) /\ blocks[s].asOf \in 0..stored
    BY DEF FullInv, BlocksInv, Block
  <2>2. \A t : SeenAt(s, t)' \cap Values(blocks[s].asOf) \subseteq SeenAt(s, t)
    BY <2>1, SeenBefore
  <2> QED
    BY <2>1, <2>2 DEF Full, Values
<1> QED
  BY <1>3, <1>4, <1>5, <1>6

(* New groups, for the signals D, and their requests. *)
Builds(D) ==
    /\ UNCHANGED log
    /\ D \subseteq Signals /\ DOMAIN blocks' = D
    /\ built' \in [Signals -> 0..MaxBuilds]
    /\ \A s \in Signals : built[s] <= built'[s]
    /\ \A s \in D : built[s] < built'[s]
    /\ \A s \in D : \E since \in Nat : blocks'[s] = Group(since, built'[s], blockStart', blockLength')
    /\ \A q \in requests' \ requests : \E s \in D : \E n \in 1..built'[s] :
          q = Request(s, n, blockStart', blockLength')

LEMMA BuildsStep ==
    ASSUME IInv, ViewInv', NEW D, Builds(D)
    PROVE  IInv'
<1> USE DEF IInv, Builds
<1>1. course' = course /\ stored' = stored /\ stored \in Nat
  BY Numbers DEF log
<1>2. /\ blockStart' \in Int /\ displayLength' \in Lengths /\ blockLength' = 3 * displayLength'
      /\ MaxBuilds \in Nat
  BY Numbers DEF ViewInv
<1>3. ASSUME NEW s \in D
      PROVE  /\ blocks'[s] \in Block' /\ blocks'[s].last = built'[s]
             /\ blocks'[s].own = "waiting" /\ blocks'[s].asOf = stored
             /\ \A t \in Cells(blockStart', blockLength') : blocks'[s].picture[t] = Blank
  <2>1. PICK since \in Nat : blocks'[s] = Group(since, built'[s], blockStart', blockLength')
    OBVIOUS
  <2>2. built'[s] \in Nat
    BY <1>2
  <2>3. Blank \in CellValues'
    BY DEF CellValues
  <2> QED
    BY <1>1, <2>1, <2>2, <2>3 DEF Group, Block
<1>4. BlocksInv'
  BY <1>3 DEF BlocksInv
<1>5. RequestsInv'
  <2> SUFFICES ASSUME NEW q \in requests'
               PROVE  \E s \in Signals : \E n \in Nat : \E start \in Int : \E l \in Lengths :
                         \E reply \in Replies' : SentBy(q, s, n, start, l, reply)'
    BY DEF RequestsInv
  <2>0. Replies' = Replies
    BY <1>1 DEF Replies
  <2>1. CASE q \in requests
    <3>1. PICK s \in Signals, n \in Nat, start \in Int, l \in Lengths, reply \in Replies :
              SentBy(q, s, n, start, l, reply)
      BY <2>1 DEF RequestsInv
    <3>2. built[s] \in Nat /\ built'[s] \in Nat /\ built[s] <= built'[s] /\ (s \in D => built[s] < built'[s])
      BY <1>2 DEF BlocksInv
    <3>3. n \in 1..built'[s] /\ (s \in D => n # built'[s])
      BY <3>1, <3>2 DEF SentBy
    <3>4. SentBy(q, s, n, start, l, reply)'
      BY <1>3, <3>1, <3>3 DEF SentBy, Sent, Query
    <3> QED
      BY <2>0, <3>3, <3>4
  <2>2. CASE q \notin requests
    <3>0. PICK s \in D : \E n \in 1..built'[s] : q = Request(s, n, blockStart', blockLength')
      BY <2>2
    <3>1. PICK n \in 1..built'[s] : q = Request(s, n, blockStart', blockLength')
      BY <3>0
    <3>2. PICK start \in Int, l \in Lengths : start = blockStart' /\ l = displayLength'
      BY <1>2
    <3>3. q = Sent(s, n, start, 3 * l, <<>>) /\ <<>> \in Replies
      BY <1>2, <3>1, <3>2 DEF Request, Sent, Replies
    <3>4. Sent(s, n, start, 3 * l, <<>>)' = Sent(s, n, start, 3 * l, <<>>)
      BY DEF Sent, Query
    <3>5. SentBy(q, s, n, start, l, <<>>)'
      BY <1>2, <3>1, <3>2, <3>3, <3>4 DEF SentBy
    <3>6. built'[s] \in Nat /\ n \in Nat
      BY <1>2
    <3> QED
      BY <2>0, <3>3, <3>5, <3>6
  <2> QED
    BY <2>1, <2>2
<1>6. TrueInv'
  BY <1>3 DEF TrueInv, TrueAt
<1>7. FullInv'
  BY <1>3 DEF FullInv
<1> QED
  BY <1>4, <1>5, <1>6, <1>7

(* TimeCanvas.update: all blocks are built again. *)
LEMMA UpdateBuilds ==
    ASSUME IInv, UNCHANGED log, NEW start, NEW length, Update(start, length)
    PROVE  Builds(DOMAIN blocks)
<1> USE DEF IInv
<1>1. /\ DOMAIN blocks \subseteq Signals /\ DOMAIN blocks' = DOMAIN blocks
      /\ \A s \in DOMAIN blocks : built[s] < MaxBuilds
      /\ blockStart' = start /\ blockLength' = length
  BY DEF Update, BlocksInv
<1>2. \A s \in Signals : built[s] \in Nat /\ built[s] <= MaxBuilds
  BY Numbers DEF BlocksInv
<1>3. /\ DOMAIN built' = Signals
      /\ \A s \in Signals : built'[s] = IF s \in DOMAIN blocks THEN built[s] + 1 ELSE built[s]
  BY DEF Update
<1>4. built' \in [Signals -> 0..MaxBuilds]
  <2>1. \A s \in Signals : built'[s] \in 0..MaxBuilds
    BY <1>1, <1>2, <1>3, Numbers
  <2>2. built' = [s \in Signals |-> IF s \in DOMAIN blocks THEN built[s] + 1 ELSE built[s]]
    BY DEF Update
  <2> QED
    BY <1>3, <2>1, <2>2
<1>5. ASSUME NEW s \in DOMAIN blocks
      PROVE  \E since \in Nat : blocks'[s] = Group(since, built'[s], blockStart', blockLength')
  <2>1. blocks'[s] = Group(blocks[s].since, built[s] + 1, start, length)
    BY DEF Update
  <2>2. blocks[s].since \in Nat
    BY DEF BlocksInv, Block
  <2> QED
    BY <1>1, <1>3, <2>1, <2>2
<1>6. ASSUME NEW q \in requests' \ requests
      PROVE  \E s \in DOMAIN blocks : \E n \in 1..built'[s] : q = Request(s, n, blockStart', blockLength')
  <2>1. PICK s \in DOMAIN blocks : q = Request(s, built[s] + 1, start, length)
    BY DEF Update
  <2>2. built[s] + 1 \in 1..built'[s]
    BY <1>1, <1>2, <1>3
  <2> QED
    BY <1>1, <2>1, <2>2
<1>7. \A s \in Signals : built[s] <= built'[s] /\ (s \in DOMAIN blocks => built[s] < built'[s])
  BY <1>2, <1>3
<1> QED
  BY <1>1, <1>4, <1>5, <1>6, <1>7 DEF Builds

(* TimeCanvas.moveTo, zoomTo. *)
LEMMA MoveStep == ASSUME IInv, NEW start, MoveTo(start) PROVE IInv'
<1> USE DEF IInv
<1>1. /\ UNCHANGED log /\ UNCHANGED displayLength /\ displayStart' = start /\ start \in Int
      /\ displayLength \in Nat /\ displayLength > 0 /\ blockStart \in Int /\ blockLength = 3 * displayLength
  BY Numbers, ViewerAssumption DEF MoveTo, ViewInv
<1>2. CASE Within(start)
  <2>1. UNCHANGED <<blockStart, blockLength, blocks, built, requests>>
    BY <1>2 DEF MoveTo
  <2>2. ViewInv'
    BY <1>1, <1>2, <2>1 DEF ViewInv, Within, log
  <2> QED
    BY <1>1, <2>1, <2>2, Numbers, SameBlocks DEF log
<1>3. CASE ~Within(start)
  <2>1. Update(start + (displayLength - blockLength) \div 2, blockLength)
    BY <1>3 DEF MoveTo
  <2>2. (displayLength - blockLength) \div 2 = -displayLength
    BY <1>1
  <2>3. blockStart' = start - displayLength /\ blockLength' = blockLength
    BY <1>1, <2>1, <2>2 DEF Update
  <2>4. ViewInv'
    BY <1>1, <2>3 DEF ViewInv, log
  <2> QED
    BY <1>1, <2>1, <2>4, UpdateBuilds, BuildsStep
<1> QED
  BY <1>2, <1>3

LEMMA ZoomStep == ASSUME IInv, Zoom PROVE IInv'
<1> USE DEF IInv
<1>1. PICK length \in Lengths :
        /\ displayStart' = Middle - length \div 2 /\ displayLength' = length
        /\ Update(Middle - (3 * length) \div 2, 3 * length)
        /\ UNCHANGED log
  BY DEF Zoom
<1>2. length \in Nat /\ length > 0 /\ length % 2 = 0
  BY ViewerAssumption
<1> DEFINE h == length \div 2
           m == Middle
<1>3. h \in Nat /\ length = 2 * h /\ (3 * length) \div 2 = 3 * h
  BY <1>2
<1>4. m \in Int
  BY Numbers DEF Middle, ViewInv
<1> HIDE DEF h, m
<1>5. displayStart' = m - h /\ blockStart' = m - 3 * h /\ blockLength' = 3 * length
  BY <1>1, <1>3 DEF Update, m, h
<1>6. ViewInv'
  BY <1>1, <1>2, <1>3, <1>4, <1>5 DEF ViewInv, log
<1> QED
  BY <1>1, <1>6, UpdateBuilds, BuildsStep

(* update_signals: blocks for the signals chosen. *)
LEMMA ChosenSignals ==
    ASSUME ViewInv, NEW q \in Chosen
    PROVE  /\ Len(q) \in Nat /\ ToSet(q) \subseteq Signals
           /\ \A s \in ToSet(q) : Position(q, s) \in 1..Len(q)
<1>1. PICK S \in SUBSET Listed : q \in SetToSeqs(S)
  BY DEF Chosen, SetToAllKPermutations
<1>2. IsFiniteSet(Listed)
  <2> DEFINE id == [k \in 1..Begun |-> course[k].id]
  <2>1. Listed = {id[k] : k \in 1..Begun}
    BY DEF Listed
  <2> HIDE DEF id
  <2> QED
    BY <2>1, ViewerAssumption, FirstFinite
<1>3. Cardinality(S) \in Nat
  BY <1>1, <1>2, FS_Subset, FS_CardinalityType
<1>4. q \in [1..Cardinality(S) -> S]
  BY <1>1 DEF SetToSeqs
<1>5. DOMAIN q = 1..Len(q) /\ Len(q) \in Nat /\ \A k \in DOMAIN q : q[k] \in S
  BY <1>3, <1>4
<1>6. Listed \subseteq Signals
  <2> SUFFICES ASSUME NEW k \in 1..Begun PROVE course[k].id \in Signals
    BY DEF Listed
  <2>1. k \in DOMAIN course
    BY CoursesAssumption, ViewerAssumption DEF ViewInv
  <2> QED
    BY <2>1, CoursesAssumption DEF ViewInv
<1>7. ToSet(q) \subseteq Signals
  BY <1>1, <1>5, <1>6 DEF ToSet
<1>8. ASSUME NEW s \in ToSet(q) PROVE Position(q, s) \in 1..Len(q)
  <2>1. \E k \in DOMAIN q : q[k] = s
    BY DEF ToSet
  <2> QED
    BY <1>5, <2>1 DEF Position
<1> QED
  BY <1>5, <1>7, <1>8

LEMMA UpdateSignalsStep == ASSUME IInv, UpdateSignals PROVE IInv'
<1> USE DEF IInv
<1> DEFINE Newest(q, s) == built[s] + Times(q, Position(q, s))
<1>1. PICK q \in Chosen :
        /\ \A s \in ToSet(q) : Newest(q, s) <= MaxBuilds
        /\ blocks' = [s \in ToSet(q) |-> Group(built[s] + 1, Newest(q, s), blockStart, blockLength)]
        /\ requests' = requests \cup
               UNION {{Request(s, n, blockStart, blockLength) : n \in (built[s] + 1)..Newest(q, s)} : s \in ToSet(q)}
        /\ built' = [s \in Signals |-> IF s \in ToSet(q) THEN Newest(q, s) ELSE built[s]]
        /\ UNCHANGED <<log, window>>
  BY DEF UpdateSignals
<1>2. /\ Len(q) \in Nat /\ ToSet(q) \subseteq Signals
      /\ \A s \in ToSet(q) : Position(q, s) \in 1..Len(q)
  BY ChosenSignals
<1>3. \A s \in Signals : built[s] \in Nat /\ built[s] <= MaxBuilds /\ MaxBuilds \in Nat
  BY Numbers DEF BlocksInv
<1>4. ASSUME NEW s \in ToSet(q) PROVE Newest(q, s) \in 0..MaxBuilds /\ built[s] < Newest(q, s)
  <2> DEFINE k == Position(q, s)
  <2>1. k \in 1..Len(q) /\ built[s] \in Nat /\ MaxBuilds \in Nat /\ Newest(q, s) <= MaxBuilds
    BY <1>1, <1>2, <1>3
  <2> HIDE DEF k
  <2>2. Times(q, k) \in Nat /\ Times(q, k) > 0
    BY <1>2, <2>1 DEF Times
  <2> QED
    BY <2>1, <2>2 DEF k
<1> HIDE DEF Newest
<1>5. blockStart' = blockStart /\ blockLength' = blockLength /\ ViewInv'
  BY <1>1 DEF window, log, ViewInv
<1>6. built' \in [Signals -> 0..MaxBuilds] /\ \A s \in ToSet(q) : built'[s] = Newest(q, s)
  <2>1. \A s \in Signals : (IF s \in ToSet(q) THEN Newest(q, s) ELSE built[s]) \in 0..MaxBuilds
    BY <1>3, <1>4
  <2> QED
    BY <1>1, <1>2, <2>1
<1>7. ASSUME NEW s \in ToSet(q)
      PROVE  \E since \in Nat : blocks'[s] = Group(since, built'[s], blockStart', blockLength')
  <2>1. blocks'[s] = Group(built[s] + 1, Newest(q, s), blockStart, blockLength)
    BY <1>1
  <2>2. built[s] + 1 \in Nat
    BY <1>2, <1>3
  <2> QED
    BY <1>5, <1>6, <2>1, <2>2
<1>8. ASSUME NEW r \in requests' \ requests
      PROVE  \E s \in ToSet(q) : \E n \in 1..built'[s] : r = Request(s, n, blockStart', blockLength')
  <2>0. PICK s \in ToSet(q) : \E n \in (built[s] + 1)..Newest(q, s) : r = Request(s, n, blockStart, blockLength)
    BY <1>1
  <2>1. PICK n \in (built[s] + 1)..Newest(q, s) : r = Request(s, n, blockStart, blockLength)
    BY <2>0
  <2>2. n \in 1..built'[s]
    BY <1>2, <1>3, <1>4, <1>6
  <2> QED
    BY <1>5, <2>1, <2>2
<1>9. \A s \in Signals : built[s] <= built'[s] /\ (s \in ToSet(q) => built[s] < built'[s])
  BY <1>1, <1>3, <1>4, <1>6
<1>10. Builds(ToSet(q))
  BY <1>1, <1>2, <1>6, <1>7, <1>8, <1>9 DEF Builds
<1> QED
  BY <1>5, <1>10, BuildsStep

-----------------------------------------------------------------------------
(* mod_logreader serves a request from the table as it is. *)
LEMMA ServeStep == ASSUME IInv, Serve PROVE IInv'
<1> USE DEF IInv
<1>1. PICK p \in requests :
        /\ requests' = (requests \ {p}) \cup {[p EXCEPT !.reply = <<stored>>]}
        /\ UNCHANGED <<log, window, blocks, built>>
  BY DEF Serve
<1>2. /\ course' = course /\ stored' = stored /\ blockStart' = blockStart /\ blockLength' = blockLength
      /\ UNCHANGED <<displayStart, displayLength, blocks, built>> /\ stored \in Nat
  BY <1>1, Numbers DEF log, window
<1>3. ViewInv' /\ TrueInv' /\ FullInv'
  BY <1>2 DEF ViewInv, TrueInv, TrueAt, SeenAt, Values, FullInv, Full
<1>4. BlocksInv'
  BY <1>2 DEF BlocksInv, Block, AnswerValues, CellValues
<1>5. Replies' = Replies
  BY <1>2 DEF Replies
<1>6. RequestsInv'
  <2> SUFFICES ASSUME NEW q \in requests'
               PROVE  \E s \in Signals : \E n \in Nat : \E start \in Int : \E l \in Lengths :
                         \E reply \in Replies : SentBy(q, s, n, start, l, reply)'
    BY <1>2, <1>5 DEF RequestsInv
  <2>1. CASE q \in requests
    <3>1. PICK s \in Signals, n \in Nat, start \in Int, l \in Lengths, reply \in Replies :
              SentBy(q, s, n, start, l, reply)
      BY <2>1 DEF RequestsInv
    <3>2. SentBy(q, s, n, start, l, reply)'
      BY <1>2, <3>1 DEF SentBy
    <3> QED
      BY <3>2
  <2>2. CASE q = [p EXCEPT !.reply = <<stored>>]
    <3>1. PICK s \in Signals, n \in Nat, start \in Int, l \in Lengths, reply \in Replies :
              SentBy(p, s, n, start, l, reply)
      BY DEF RequestsInv
    <3>2. PICK served \in Replies : served = <<stored>> /\ Head(served) = stored
      <4> DEFINE now == <<stored>>
      <4>1. now \in Replies
        BY <1>2 DEF Replies
      <4>2. Head(now) = stored
        OBVIOUS
      <4> HIDE DEF now
      <4> QED
        BY <4>1, <4>2 DEF now
    <3>3. q = Sent(s, n, start, 3 * l, served)
      BY <2>2, <3>1, <3>2 DEF SentBy, Sent
    <3>4. s \in DOMAIN blocks => blocks[s].asOf <= stored
      BY <1>2 DEF BlocksInv, Block
    <3>5. SentBy(q, s, n, start, l, served)'
      <4>1. Sent(s, n, start, 3 * l, served)' = Sent(s, n, start, 3 * l, served)
        BY DEF Sent, Query
      <4> QED
        BY <1>2, <3>1, <3>2, <3>3, <3>4, <4>1 DEF SentBy
    <3> QED
      BY <3>2, <3>5
  <2> QED
    BY <1>1, <2>1, <2>2
<1> QED
  BY <1>3, <1>4, <1>6

-----------------------------------------------------------------------------
(* What a reply does to a block: what is drawn, and what is known of it. *)
LEMMA AnsweredBlock ==
    ASSUME ViewInv, NEW b \in Block, NEW q, NEW data, q.signal \in DOMAIN data,
           Drawn(b.picture, data[q.signal]) \in [Cells(blockStart, blockLength) -> CellValues]
    PROVE  LET c == TakeReply(b, q, data)
           IN  /\ c \in Block /\ c.last = b.last /\ c.asOf = b.asOf
               /\ c.picture = Drawn(b.picture, data[q.signal])
               /\ c.onTop = (q.number = b.last)
               /\ c.own = IF q.number = b.last THEN "drawn" ELSE b.own
<1> DEFINE P == [Cells(blockStart, blockLength) -> CellValues]
           B == [since : Nat, last : Nat, mark : BOOLEAN, labelled : BOOLEAN, picture : P, asOf : 0..stored,
                 own : {"waiting", "drawn", "failed"}, onTop : BOOLEAN]
           p == Drawn(b.picture, data[q.signal])
           u == Unmarked(b)
           v == [u EXCEPT !.picture = p, !.labelled = TRUE]
           o == IF q.number = b.last THEN "drawn" ELSE v.own
           t == (q.number = b.last)
           c == [v EXCEPT !.own = o, !.onTop = t]
<1>1. Block = B /\ b \in B
  BY DEF Block
<1>2. p \in P
  OBVIOUS
<1> HIDE DEF p, P
<1>3. /\ u \in B /\ u.last = b.last /\ u.asOf = b.asOf /\ u.picture = b.picture /\ u.own = b.own
  BY <1>1 DEF Unmarked
<1>4. DrawReply(b, data[q.signal]) = v
  BY <1>3 DEF DrawReply, p
<1> HIDE DEF u
<1>5. v \in B /\ v.last = b.last /\ v.asOf = b.asOf /\ v.picture = p /\ v.own = b.own
  BY <1>2, <1>3
<1>6. TakeReply(b, q, data) = c
  BY <1>4 DEF TakeReply
<1> HIDE DEF v
<1>7. t \in BOOLEAN /\ o \in {"waiting", "drawn", "failed"}
      /\ o = IF q.number = b.last THEN "drawn" ELSE b.own
  BY <1>5
<1>8. t = (q.number = b.last)
  OBVIOUS
<1> HIDE DEF t, o
<1>9. c \in B /\ c.last = b.last /\ c.asOf = b.asOf /\ c.picture = p /\ c.own = o
  BY <1>5, <1>7
<1>10. c.onTop = t
  BY <1>5, <1>7
<1> HIDE DEF c
<1> QED
  BY <1>1, <1>6, <1>7, <1>8, <1>9, <1>10 DEF p

LEMMA UnansweredBlock ==
    ASSUME NEW b \in Block, NEW q, NEW c, c = TakeReply(b, q, <<>>) \/ c = LogError(b, q)
    PROVE  /\ c \in Block /\ c.last = b.last /\ c.asOf = b.asOf
           /\ c.picture = b.picture /\ c.onTop = b.onTop
           /\ c.own = IF q.number = b.last THEN "failed" ELSE b.own
<1> DEFINE o == IF q.number = b.last THEN "failed" ELSE b.own
           u == Unmarked(b)
<1>1. /\ u \in Block /\ u.last = b.last /\ u.asOf = b.asOf /\ u.picture = b.picture /\ u.own = b.own
  BY DEF Unmarked, Block
<1>2. u.onTop = b.onTop
  BY DEF Unmarked, Block
<1>3. o \in {"waiting", "drawn", "failed"}
  BY DEF Block
<1>4. q.signal \notin DOMAIN <<>>
  OBVIOUS
<1>5. TakeReply(b, q, <<>>) = [u EXCEPT !.own = IF q.number = b.last THEN "failed" ELSE u.own, !.onTop = u.onTop]
  BY <1>4 DEF TakeReply
<1> HIDE DEF u
<1>6. TakeReply(b, q, <<>>) = [u EXCEPT !.own = o, !.onTop = u.onTop]
  BY <1>1, <1>5
<1>7. LogError(b, q) = [b EXCEPT !.own = o]
  BY DEF LogError
<1> HIDE DEF o
<1>8. CASE c = TakeReply(b, q, <<>>)
  BY <1>1, <1>2, <1>3, <1>6, <1>8 DEF o, Block
<1>9. CASE c = LogError(b, q)
  BY <1>3, <1>7, <1>9 DEF o, Block
<1> QED
  BY <1>8, <1>9

(* One block is drawn on, or only noted of. *)
LEMMA BlockStep ==
    ASSUME IInv, UNCHANGED <<log, window, built>>, requests' \subseteq requests,
           NEW s \in DOMAIN blocks, NEW c \in Block, blocks' = [blocks EXCEPT ![s] = c],
           c.last = blocks[s].last, c.asOf = blocks[s].asOf,
           \A t \in Cells(blockStart, blockLength) : TrueAt(s, t, c.picture[t]),
           c.own = "drawn" => Full(s, c)
    PROVE  IInv'
<1> USE DEF IInv
<1>1. /\ course' = course /\ stored' = stored /\ blockStart' = blockStart /\ blockLength' = blockLength
      /\ UNCHANGED <<displayStart, displayLength, built>>
  BY DEF log, window
<1>2. /\ DOMAIN blocks' = DOMAIN blocks /\ blocks'[s] = c
      /\ \A u \in DOMAIN blocks : u # s => blocks'[u] = blocks[u]
  OBVIOUS
<1>3. ViewInv'
  BY <1>1 DEF ViewInv
<1>4. BlocksInv'
  <2>1. Block' = Block
    BY <1>1 DEF Block, AnswerValues, CellValues
  <2> QED
    BY <1>1, <1>2, <2>1 DEF BlocksInv
<1>5. RequestsInv'
  <2>1. Replies' = Replies
    BY <1>1 DEF Replies
  <2> SUFFICES ASSUME NEW q \in requests
               PROVE  \E u \in Signals : \E n \in Nat : \E start \in Int : \E l \in Lengths :
                         \E reply \in Replies : SentBy(q, u, n, start, l, reply)'
    BY <1>1, <2>1 DEF RequestsInv
  <2>2. PICK u \in Signals, n \in Nat, start \in Int, l \in Lengths, reply \in Replies :
            SentBy(q, u, n, start, l, reply)
    BY DEF RequestsInv
  <2>3. u \in DOMAIN blocks => blocks'[u].last = blocks[u].last /\ blocks'[u].asOf = blocks[u].asOf
    BY <1>2
  <2>4. SentBy(q, u, n, start, l, reply)'
    BY <1>1, <1>2, <2>2, <2>3 DEF SentBy
  <2> QED
    BY <2>4
<1>6. TrueInv'
  BY <1>1, <1>2 DEF TrueInv, TrueAt, SeenAt, Values
<1>7. FullInv'
  BY <1>1, <1>2 DEF FullInv, Full, SeenAt, Values
<1> QED
  BY <1>3, <1>4, <1>5, <1>6, <1>7

(* SignalGraphBlock.reply, with an answer to the group's own request or to one of
   another group, for other cells. *)
LEMMA AnsweredStep ==
    ASSUME IInv, UNCHANGED <<log, window, built>>, requests' \subseteq requests,
           NEW s \in DOMAIN blocks, NEW n, NEW start \in Int, NEW l \in Lengths, NEW k \in 0..stored,
           NEW q, SentBy(q, s, n, start, l, <<k>>),
           blocks' = [blocks EXCEPT ![s] = TakeReply(blocks[s], q, Object(q.args, Signals, Values(k)))]
    PROVE  IInv'
<1> USE DEF IInv
<1> DEFINE b == blocks[s]
           data == Object(q.args, Signals, Values(k))
           out == Answer(Table(k, s), Window(Query(s, start, 3 * l)))
           c == TakeReply(b, q, data)
           cells == Cells(blockStart, blockLength)
<1>1. q.signal = s /\ q.number = n /\ q.args = Query(s, start, 3 * l) /\ q.args.signals = <<s>>
  BY DEF SentBy, Sent, Query
<1>2. n = b.last => start = blockStart /\ 3 * l = blockLength /\ b.asOf <= k
  <2> DEFINE reply == <<k>>
  <2>1. reply # <<>> /\ Head(reply) = k
    OBVIOUS
  <2>2. SentBy(q, s, n, start, l, reply)
    OBVIOUS
  <2> HIDE DEF reply
  <2> QED
    BY <2>1, <2>2 DEF SentBy
<1>3. b \in Block /\ b.picture \in [cells -> CellValues] /\ b.asOf \in 0..stored
  BY DEF BlocksInv, Block
<1>4. s \in DOMAIN data /\ data[s] = out
  <2>1. s \in Signals
    BY DEF BlocksInv
  <2>2. s \in Asked(q.args, Signals)
    <3> DEFINE names == <<s>>
    <3>1. s \in ToSet(names)
      BY DEF ToSet
    <3>2. q.args.signals = names
      BY <1>1
    <3> HIDE DEF names
    <3> QED
      BY <2>1, <3>1, <3>2 DEF Asked
  <2> QED
    BY <1>1, <2>2 DEF Object, Table
<1>5. stored \in 0..Len(course) /\ course \in Courses
  BY Numbers DEF ViewInv
<1> HIDE DEF out, data
<1>6. ASSUME NEW t \in cells
      PROVE  /\ t \in Int /\ out \in Seq(Changes(AnswerValues)) /\ Rising(out)
             /\ ShownAt(t, out) # Null => ShownAt(t, out) # Blank /\ TrueAt(s, t, ShownAt(t, out))
             /\ t \in Cells(start, 3 * l) => \A r \in SeenAt(s, t) \cap Values(k) :
                   ShownAt(t, out) # Null /\ ShownAt(t, out) = Resolved(r, 3 * l)
  <2>1. t \in Int
    BY CellType DEF ViewInv
  <2> QED
    BY <1>5, <2>1, ReplySays DEF out
<1>7. ASSUME NEW t \in cells
      PROVE  /\ Drawn(b.picture, out)[t] = IF ShownAt(t, out) = Null THEN b.picture[t] ELSE ShownAt(t, out)
             /\ Drawn(b.picture, out)[t] \in CellValues
  <2>1. t \in Int /\ out \in Seq(Changes(AnswerValues)) /\ Rising(out) /\ t \in DOMAIN b.picture
    BY <1>3, <1>6
  <2>2. /\ Drawn(b.picture, out)[t] = IF ShownAt(t, out) = Null THEN b.picture[t] ELSE ShownAt(t, out)
        /\ ShownAt(t, out) \in AnswerValues \cup {Null}
    BY <2>1, DrawnCell
  <2> QED
    BY <1>3, <2>2 DEF CellValues, AnswerValues
<1>8. Drawn(b.picture, out) \in [cells -> CellValues]
  <2>1. DOMAIN b.picture = cells
    BY <1>3
  <2>2. Drawn(b.picture, out) = [t \in cells |-> Drawn(b.picture, out)[t]]
    BY <2>1 DEF Drawn
  <2> QED
    BY <1>7, <2>2
<1>9. /\ c \in Block /\ c.last = b.last /\ c.asOf = b.asOf /\ c.picture = Drawn(b.picture, out)
      /\ c.onTop = (n = b.last)
      /\ c.own = IF n = b.last THEN "drawn" ELSE b.own
  <2> HIDE DEF b
  <2> QED
    BY <1>1, <1>3, <1>4, <1>8, AnsweredBlock
<1>10. \A t \in cells : TrueAt(s, t, c.picture[t])
  <2> SUFFICES ASSUME NEW t \in cells PROVE TrueAt(s, t, c.picture[t])
    OBVIOUS
  <2>1. TrueAt(s, t, b.picture[t])
    BY DEF TrueInv
  <2> HIDE DEF c, b
  <2> QED
    BY <1>6, <1>7, <1>9, <2>1
<1>11. c.own = "drawn" => Full(s, c)
  <2> SUFFICES ASSUME c.own = "drawn", NEW t \in cells, NEW r \in SeenAt(s, t) \cap Values(c.asOf)
               PROVE  c.picture[t] # Blank /\ (c.onTop => c.picture[t] = Resolved(r, blockLength))
    BY DEF Full
  <2>1. CASE n = b.last
    <3>1. start = blockStart /\ 3 * l = blockLength /\ b.asOf <= k
      BY <1>2, <2>1
    <3>2. r \in SeenAt(s, t) \cap Values(k)
      BY <1>3, <1>5, <1>9, <3>1, Numbers DEF Values
    <3>3. ShownAt(t, out) # Null /\ ShownAt(t, out) = Resolved(r, blockLength) /\ ShownAt(t, out) # Blank
      BY <1>6, <3>1, <3>2
    <3> HIDE DEF b, c
    <3> QED
      BY <1>7, <1>9, <3>3
  <2>2. CASE n # b.last
    <3>1. b.own = "drawn" /\ ~c.onTop
      BY <1>9, <2>2
    <3>2. Full(s, b)
      BY <3>1 DEF FullInv
    <3>3. b.picture[t] # Blank
      BY <1>9, <3>2 DEF Full
    <3> HIDE DEF b, c
    <3> QED
      BY <1>6, <1>7, <1>9, <3>1, <3>3
  <2> QED
    BY <2>1, <2>2
<1>12. blocks' = [blocks EXCEPT ![s] = c]
  BY DEF data
<1> HIDE DEF c
<1> QED
  BY <1>9, <1>10, <1>11, <1>12, BlockStep

LEMMA UnansweredStep ==
    ASSUME IInv, UNCHANGED <<log, window, built>>, requests' \subseteq requests,
           NEW s \in DOMAIN blocks, NEW q,
           NEW c, c = TakeReply(blocks[s], q, <<>>) \/ c = LogError(blocks[s], q),
           blocks' = [blocks EXCEPT ![s] = c]
    PROVE  IInv'
<1> USE DEF IInv
<1>1. blocks[s] \in Block
  BY DEF BlocksInv
<1>2. /\ c \in Block /\ c.last = blocks[s].last /\ c.asOf = blocks[s].asOf
      /\ c.picture = blocks[s].picture /\ c.onTop = blocks[s].onTop
      /\ c.own = "drawn" => blocks[s].own = "drawn"
  <2> DEFINE b == blocks[s]
  <2> HIDE DEF b
  <2>1. b \in Block /\ (c = TakeReply(b, q, <<>>) \/ c = LogError(b, q))
    BY <1>1 DEF b
  <2>2. /\ c \in Block /\ c.last = b.last /\ c.asOf = b.asOf
        /\ c.picture = b.picture /\ c.onTop = b.onTop
        /\ c.own = IF q.number = b.last THEN "failed" ELSE b.own
    BY <2>1, UnansweredBlock
  <2> QED
    BY <2>2 DEF b
<1>3. \A t \in Cells(blockStart, blockLength) : TrueAt(s, t, c.picture[t])
  BY <1>2 DEF TrueInv
<1>4. c.own = "drawn" => Full(s, c)
  BY <1>2 DEF FullInv, Full
<1> QED
  BY <1>2, <1>3, <1>4, BlockStep

LEMMA ReplyStep == ASSUME IInv, Reply PROVE IInv'
<1> USE DEF IInv
<1>1. PICK q \in requests : \E outcome \in Outcomes(q.args) :
        /\ q.reply # <<>>
        /\ requests' = requests \ {q}
        /\ IF ~Current(q) THEN UNCHANGED blocks
           ELSE blocks' = [blocks EXCEPT ![q.signal] = CASE
                    outcome = "object" -> TakeReply(@, q, Object(q.args, Signals, Values(Head(q.reply))))
                 [] outcome = "error" -> TakeReply(@, q, <<>>)
                 [] outcome = "broken" -> LogError(@, q)]
  BY DEF Reply
<1>2. UNCHANGED <<log, window, built>> /\ requests' \subseteq requests
  BY <1>1 DEF Reply
<1>3. PICK s \in Signals, n \in Nat, start \in Int, l \in Lengths, reply \in Replies :
          SentBy(q, s, n, start, l, reply)
  BY DEF RequestsInv
<1>4. q.signal = s /\ q.reply = reply
  BY <1>3 DEF SentBy, Sent
<1>5. PICK k \in 0..stored : reply = <<k>>
  BY <1>1, <1>4 DEF Replies
<1>6. Head(reply) = k
  BY <1>5
<1>7. CASE ~Current(q)
  <2>1. UNCHANGED blocks
    BY <1>1, <1>7
  <2>2. ViewInv' /\ stored' = stored /\ stored \in Nat
    BY <1>2, Numbers DEF ViewInv, log, window
  <2> QED
    BY <1>2, <2>1, <2>2, SameBlocks DEF log, window
<1>8. CASE Current(q)
  <2>1. s \in DOMAIN blocks
    BY <1>4, <1>8 DEF Current
  <2> DEFINE b == blocks[s]
  <2>2. \/ blocks' = [blocks EXCEPT ![s] = TakeReply(b, q, Object(q.args, Signals, Values(k)))]
        \/ blocks' = [blocks EXCEPT ![s] = TakeReply(b, q, <<>>)]
        \/ blocks' = [blocks EXCEPT ![s] = LogError(b, q)]
    <3>1. PICK outcome \in {"object", "error", "broken"} :
            blocks' = [blocks EXCEPT ![s] = CASE
                    outcome = "object" -> TakeReply(b, q, Object(q.args, Signals, Values(k)))
                 [] outcome = "error" -> TakeReply(b, q, <<>>)
                 [] outcome = "broken" -> LogError(b, q)]
      BY <1>1, <1>4, <1>6, <1>8 DEF Outcomes
    <3> QED
      BY <3>1
  <2>3. SentBy(q, s, n, start, l, <<k>>)
    BY <1>3, <1>5
  <2> QED
    BY <1>2, <2>1, <2>2, <2>3, AnsweredStep, UnansweredStep
<1> QED
  BY <1>7, <1>8

-----------------------------------------------------------------------------
LEMMA InitIInv == Init => IInv
<1> SUFFICES ASSUME Init PROVE IInv
  OBVIOUS
<1>1. /\ course \in Courses /\ Begun \in 0..Len(course) /\ stored = Begun /\ Len(course) \in Nat
      /\ displayLength \in Lengths /\ displayLength \in Nat /\ displayLength > 0 /\ Now \in Int
      /\ displayLength % 2 = 0 /\ MaxBuilds \in Nat
  <2>1. course \in Courses /\ stored = Begun /\ displayLength \in Lengths
    BY DEF Init
  <2>2. Begun \in Nat /\ MaxBuilds \in Nat /\ Now \in Int
    BY ViewerAssumption
  <2>3. displayLength \in Nat \ {0} /\ displayLength % 2 = 0
    BY <2>1, ViewerAssumption
  <2>4. Len(course) \in Nat /\ Begun <= Len(course)
    BY <2>1, CoursesAssumption
  <2> QED
    BY <2>1, <2>2, <2>3, <2>4
<1> DEFINE h == displayLength \div 2
<1>2. h \in Nat /\ displayLength = 2 * h
  BY <1>1
<1> HIDE DEF h
<1>3. /\ displayStart = Now - h /\ blockLength = 3 * displayLength
      /\ blockStart = displayStart + (displayLength - blockLength) \div 2
  BY DEF Init, h
<1>4. (displayLength - blockLength) \div 2 = -displayLength
  BY <1>1, <1>3
<1>5. ViewInv
  BY <1>1, <1>2, <1>3, <1>4 DEF ViewInv
<1>6. DOMAIN blocks = {} /\ requests = {}
  BY DEF Init
<1>7. built \in [Signals -> 0..MaxBuilds]
  BY <1>1 DEF Init
<1> QED
  BY <1>5, <1>6, <1>7 DEF IInv, BlocksInv, RequestsInv, TrueInv, FullInv

LEMMA NextIInv == IInv /\ [Next]_vars => IInv'
<1> SUFFICES ASSUME IInv, [Next]_vars PROVE IInv'
  OBVIOUS
<1>1. CASE StoreValue
  <2>1. stored' = stored + 1 /\ stored < Len(course) /\ UNCHANGED <<course, window, blocks, built, requests>>
    BY <1>1 DEF StoreValue
  <2>2. /\ stored \in Nat /\ Len(course) \in Nat /\ Begun \in Nat /\ stored \in Begun..Len(course)
    BY Numbers, ViewerAssumption DEF IInv, ViewInv
  <2>3. stored' \in Begun..Len(course) /\ stored <= stored'
    BY <2>1, <2>2
  <2>4. ViewInv'
    BY <2>1, <2>3 DEF IInv, ViewInv, window
  <2> QED
    BY <2>1, <2>3, <2>4, SameBlocks DEF window
<1>2. CASE Page \/ GoTo \/ Drag
  BY <1>2, MoveStep DEF Page, GoTo, Drag
<1>3. CASE Zoom
  BY <1>3, ZoomStep
<1>4. CASE UpdateSignals
  BY <1>4, UpdateSignalsStep
<1>5. CASE Serve
  BY <1>5, ServeStep
<1>6. CASE Reply
  BY <1>6, ReplyStep
<1>7. CASE UNCHANGED vars
  <2>1. ViewInv' /\ stored \in Nat /\ stored' = stored
    BY <1>7, Numbers DEF IInv, ViewInv, vars, log, window
  <2> QED
    BY <1>7, <2>1, SameBlocks DEF vars, log, window
<1> QED
  BY <1>1, <1>2, <1>3, <1>4, <1>5, <1>6, <1>7 DEF Next, User

LEMMA Inductive == Spec => []IInv
<1> QED
  BY InitIInv, NextIInv, PTL DEF Spec

(* Every variable of the viewer has its type: the blocks of signals have a picture
   of the cells they are built for. *)
THEOREM TypeCorrect == Spec => []TypeOK
<1>1. IInv => TypeOK
  BY Numbers DEF IInv, ViewInv, BlocksInv, Block, TypeOK
<1> QED
  BY <1>1, Inductive, PTL

(* TextGraphBlock draws nothing anywhere but a value of an interval at that time,
   or that one there is too short for a view, whichever replies come late, for
   whichever cells they were asked and whatever was stored meanwhile. *)
THEOREM NothingFalse == Spec => []DrawnTrue
<1>1. IInv => DrawnTrue
  BY DEF IInv, ViewInv, BlocksInv, Block, TrueInv, TrueAt, DrawnTrue
<1> QED
  BY <1>1, Inductive, PTL

(* From the reply to a group's own request on, everything that was stored when it
   was built is seen wherever TimeCanvas.moveTo has moved the display without
   building another group, and as the resolution asks for it unless an older reply
   has been drawn over it. *)
THEOREM AllShown == Spec => []ShowsKnown
<1>1. IInv => ShowsKnown
  <2> SUFFICES ASSUME IInv, NEW s \in DOMAIN blocks, blocks[s].own = "drawn",
                      NEW t \in Displayed, NEW r \in SeenAt(s, t) \cap Values(blocks[s].asOf)
               PROVE  /\ t \in DOMAIN blocks[s].picture /\ blocks[s].picture[t] # Blank
                      /\ blocks[s].onTop => blocks[s].picture[t] =
                             IF r.end - r.start < MinDuration(blockLength) THEN TooFast ELSE r.value
    BY DEF ShowsKnown
  <2>1. t \in Cells(blockStart, blockLength)
    <3>1. /\ displayStart \in Int /\ blockStart \in Int /\ displayLength \in Nat /\ blockLength \in Nat
          /\ blockStart <= displayStart /\ displayStart + displayLength <= blockStart + blockLength
      BY Numbers DEF IInv, ViewInv
    <3>2. t \in displayStart..(displayStart + displayLength - 1)
      BY DEF Displayed, Cells
    <3> QED
      BY <3>1, <3>2 DEF Cells
  <2>2. DOMAIN blocks[s].picture = Cells(blockStart, blockLength)
    BY DEF IInv, BlocksInv, Block
  <2>3. Full(s, blocks[s])
    BY DEF IInv, FullInv
  <2> QED
    BY <2>1, <2>2, <2>3 DEF Full, Resolved
<1> QED
  BY <1>1, Inductive, PTL
=============================================================================
