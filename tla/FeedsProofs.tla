---------------------------- MODULE FeedsProofs ----------------------------
(***************************************************************************)
(* Proofs about Feeds.  That a page which has heard everything is right    *)
(* says nothing of a page with messages in flight, so the invariant speaks *)
(* of what the page will show once they have arrived: for every item       *)
(* either what the baseline says, or there is a reason on record for why   *)
(* it differs, and the reason is one that the next flush mends or that     *)
(* MayDiffer admits.                                                       *)
(***************************************************************************)
EXTENDS Feeds, SequenceTheorems, TLAPS

Marks == Values \cup {Absent}

Parts    == UNION {[D -> Marks] : D \in SUBSET Items}
Messages == [type : {"full", "patch"}, list : Parts]

NetOK ==
  /\ timer \in BOOLEAN /\ force \in BOOLEAN
  /\ showing \in [Clients -> BOOLEAN] /\ subscribed \in [Clients -> BOOLEAN]
  /\ up \in [Clients -> Seq({"subscribe", "unsubscribe"})]
  /\ down \in [Clients -> Seq(Messages)]
  /\ \A c \in Clients : \A j \in 1..Len(down[c]) :
       down[c][j].type = "full" => down[c][j].list \in Lists

\* The messages in flight to c that name i, and what c shows of i after them.
Naming(c, i) == {j \in 1..Len(down[c]) : i \in DOMAIN down[c][j].list}

WillShow(c, i, v) ==
  \/ \E j \in Naming(c, i) : (\A k \in Naming(c, i) : k <= j) /\ down[c][j].list[i] = v
  \/ Naming(c, i) = {} /\ copy[c] # NoList /\ copy[c][i] = v

\* A page the server counts among the subscribers and that has not asked for
\* anything else since.
Hears(c) == c \in members \cap connected /\ up[c] = <<>>

\* What a socket and a page agree on.
LinkInv(c) ==
  /\ c \notin connected => down[c] = <<>> /\ (kind # "roster" => c \notin members)
  /\ kind = "home" => (subscribed[c] => showing[c])
  /\ kind = "home" /\ c \in connected => subscribed[c] = showing[c]
  /\ ~subscribed[c] => IF up[c] = <<>> THEN kind # "roster" => c \notin members
                                       ELSE up[c][Len(up[c])] = "unsubscribe"
  /\ kind = "entries" => Len(up[c]) <= 1 /\ (c \in members => up[c] = <<>>)
  /\ kind = "entries" /\ copy[c] = NoList =>
       \A j \in 1..Len(down[c]) : \E k \in 1..j : down[c][k].type = "full"

\* What the server has sent and what is true.
BaseInv ==
  /\ silent # {} => kind \in {"rooms", "home"}
  /\ ~timer /\ baseline # NoList => \A i \in Items : truth[i] = baseline[i] \/ i \in silent
  /\ ~timer => seen \subseteq On(truth) /\ ~force
  /\ kind \in {"rooms", "online", "tournaments"} /\ members # {} => baseline # NoList
  /\ kind \in {"home", "roster"} /\ members # {} /\ ~timer => baseline # NoList
  /\ \A i \in Items \ Listed : truth[i] = Absent /\ Told[i] = Absent

\* What c will show of i, by the reason on record.
Accounted(c, i) ==
  /\ cause[c][i] = "none" =>
       /\ WillShow(c, i, Told[i]) \/ (timer /\ Everything /\ i \in Listed)
       /\ kind = "entries" /\ baseline = NoList /\ ~timer => truth[i] = Absent
  /\ cause[c][i] = "window" =>
       (kind \in {"online", "roster"} /\ i \notin seen /\ Told[i] = Absent => WillShow(c, i, Absent))
  /\ cause[c][i] = "unseeded" =>
       kind = "entries" \/ (kind = "roster" /\ timer /\ i \in seen /\ baseline = NoList)
  /\ cause[c][i] = "away" => kind = "roster"

\* Only who came back into a game may have no list at all.
Known(c, i) == cause[c][i] # "away" => Naming(c, i) # {} \/ copy[c] # NoList

ViewInv == \A c \in Clients : Hears(c) => \A i \in Items : Accounted(c, i) /\ Known(c, i)

FeedInv ==
  /\ TypeOK
  /\ NetOK
  /\ \A c \in Clients : LinkInv(c)
  /\ BaseInv
  /\ ViewInv

-----------------------------------------------------------------------------
(***************************************************************************)
(* Messages and lists.                                                     *)
(***************************************************************************)

LEMMA ListFacts ==
  /\ Empty \in Lists /\ \A i \in Items : Empty[i] = Absent
  /\ Lists \subseteq Parts
  /\ \A l \in Lists : l # NoList /\ DOMAIN l = Items /\ \A i \in Items : l[i] \in Marks
  /\ \A f \in Parts : DOMAIN f \subseteq Items /\ \A i \in DOMAIN f : f[i] \in Marks
<1>1. Lists = [Items -> Marks]
  BY DEF Lists, Marks
<1> QED
  BY <1>1, ListsAssumption DEF Empty, Lists, Parts, Marks

LEMMA MessageFacts ==
  ASSUME TypeOK
  PROVE  /\ Full(truth) \in Messages /\ Full(truth).type = "full" /\ Full(truth).list = truth
         /\ DOMAIN truth = Items
         /\ \A D \in SUBSET Items :
              /\ Patch(D) \in Messages /\ Patch(D).type = "patch"
              /\ DOMAIN Patch(D).list = D
              /\ \A i \in D : Patch(D).list[i] = truth[i]
<1>1. truth \in [Items -> Marks] /\ truth \in Parts
  BY ListFacts DEF TypeOK, Lists, Marks
<1>2. ASSUME NEW D \in SUBSET Items
      PROVE  [i \in D |-> truth[i]] \in Parts
  BY <1>1 DEF Parts
<1> QED
  BY <1>1, <1>2 DEF Full, Patch, Messages

\* A patch on top of a list is a list.
LEMMA MergeFacts ==
  ASSUME NEW f \in Parts, NEW g \in Lists
  PROVE  /\ Patched(g, f) \in Lists
         /\ \A i \in Items : Patched(g, f)[i] = IF i \in DOMAIN f THEN f[i] ELSE g[i]
<1>1. /\ DOMAIN f \subseteq Items /\ \A i \in DOMAIN f : f[i] \in Marks
      /\ DOMAIN g = Items /\ \A i \in Items : g[i] \in Marks
  BY ListFacts
<1>2. Patched(g, f) \in [Items -> Marks]
  BY <1>1 DEF Patched
<1> QED
  BY <1>2 DEF Lists, Marks, Patched

\* A message sent to c overrides what c would have shown of the items it names.
LEMMA SendingShows ==
  ASSUME NetOK, NEW c \in Clients, NEW m \in Messages, NEW i \in Items,
         down'[c] = Append(down[c], m), copy'[c] = copy[c]
  PROVE  /\ i \in DOMAIN m.list =>
              /\ Naming(c, i)' # {}
              /\ \A v : WillShow(c, i, v)' <=> m.list[i] = v
         /\ i \notin DOMAIN m.list =>
              /\ Naming(c, i)' = Naming(c, i)
              /\ \A v : WillShow(c, i, v)' <=> WillShow(c, i, v)
<1> DEFINE n == Len(down[c])
<1>1. /\ down[c] \in Seq(Messages) /\ n \in Nat
      /\ Len(down'[c]) = n + 1
      /\ \A j \in 1..n : down'[c][j] = down[c][j]
      /\ down'[c][n + 1] = m
  BY AppendProperties, LenProperties DEF NetOK
<1>2. CASE i \in DOMAIN m.list
  <2>1. n + 1 \in Naming(c, i)' /\ \A k \in Naming(c, i)' : k <= n + 1
    BY <1>1, <1>2 DEF Naming
  <2>2. \A j \in Naming(c, i)' : (\A k \in Naming(c, i)' : k <= j) => j = n + 1
    BY <1>1, <2>1 DEF Naming
  <2> QED
    BY <1>1, <1>2, <2>1, <2>2 DEF WillShow
<1>3. CASE i \notin DOMAIN m.list
  <2>1. Naming(c, i)' = Naming(c, i)
    BY <1>1, <1>3 DEF Naming
  <2>2. \A j \in Naming(c, i) : down'[c][j] = down[c][j]
    BY <1>1 DEF Naming
  <2> QED
    BY <1>3, <2>1, <2>2 DEF WillShow
<1> QED
  BY <1>2, <1>3

\* What neither changes its copy nor is sent anything will show the same.
LEMMA StillShows ==
  ASSUME NEW c \in Clients, NEW i \in Items, down'[c] = down[c], copy'[c] = copy[c]
  PROVE  /\ Naming(c, i)' = Naming(c, i)
         /\ \A v : WillShow(c, i, v)' <=> WillShow(c, i, v)
BY DEF Naming, WillShow

\* A delivery moves the first message into the copy and changes nothing in what
\* will be shown.
LEMMA DeliveringShows ==
  ASSUME FeedInv, NEW c \in Clients, down[c] # <<>>,
         down'[c] = Tail(down[c]), copy'[c] = Merged(c, Head(down[c]))
  PROVE  /\ copy'[c] \in Lists /\ copy'[c] # NoList
         /\ \A i \in Items : Naming(c, i) # {} \/ copy[c] # NoList =>
              Naming(c, i)' # {} \/ copy'[c] # NoList
         /\ \A i \in Items : \A v : WillShow(c, i, v) => WillShow(c, i, v)'
<1> DEFINE n == Len(down[c])
           m == down[c][1]
<1>1. /\ down[c] \in Seq(Messages) /\ n \in Nat /\ n >= 1
      /\ m \in Messages /\ Head(down[c]) = m
      /\ Len(down'[c]) = n - 1
      /\ \A j \in 1..(n - 1) : down'[c][j] = down[c][j + 1]
  <2>1. down[c] \in Seq(Messages)
    BY DEF FeedInv, NetOK
  <2> QED
    BY <2>1, HeadTailProperties, LenProperties, EmptySeq
<1>2. /\ m.list \in Parts /\ m.type \in {"full", "patch"}
      /\ m.type = "full" => m.list \in Lists
  <2>1. m.list \in Parts /\ m.type \in {"full", "patch"}
    BY <1>1 DEF Messages
  <2>2. 1 \in 1..n
    BY <1>1
  <2>3. m.type = "full" => m.list \in Lists
    BY <2>2 DEF FeedInv, NetOK
  <2> QED
    BY <2>1, <2>3
<1>3. copy[c] \in Lists \cup {NoList}
  BY DEF FeedInv, TypeOK
<1>4. kind = "entries" /\ copy[c] = NoList => m.type = "full"
  <2> SUFFICES ASSUME kind = "entries", copy[c] = NoList
               PROVE  m.type = "full"
    OBVIOUS
  <2>1. 1 \in 1..n
    BY <1>1
  <2>2. PICK k \in 1..1 : down[c][k].type = "full"
    BY <2>1 DEF FeedInv, LinkInv
  <2> QED
    BY <2>2
<1>5. /\ copy'[c] \in Lists
      /\ \A i \in Items : i \in DOMAIN m.list => copy'[c][i] = m.list[i]
      /\ \A i \in Items : i \notin DOMAIN m.list /\ copy[c] # NoList => copy'[c][i] = copy[c][i]
  <2>1. CASE m.type = "full"
    <3>1. copy'[c] = m.list /\ m.list \in Lists
      BY <1>1, <1>2, <2>1 DEF Merged
    <3> QED
      BY <3>1, ListFacts
  <2>2. CASE m.type # "full" /\ copy[c] # NoList
    <3>1. copy'[c] = Patched(copy[c], m.list) /\ copy[c] \in Lists
      BY <1>1, <1>3, <2>2 DEF Merged
    <3> QED
      BY <1>2, <3>1, MergeFacts
  <2>3. CASE m.type # "full" /\ copy[c] = NoList
    <3>1. copy'[c] = Patched(Empty, m.list)
      BY <1>1, <1>4, <2>3 DEF Merged
    <3> QED
      BY <1>2, <2>3, <3>1, MergeFacts, ListFacts
  <2> QED
    BY <2>1, <2>2, <2>3
<1>6. copy'[c] # NoList
  BY <1>5, ListFacts
<1>7. ASSUME NEW i \in Items, NEW v, WillShow(c, i, v)
      PROVE  WillShow(c, i, v)'
  <2>1. \A j \in 1..(n - 1) : j \in Naming(c, i)' <=> j + 1 \in Naming(c, i)
    BY <1>1 DEF Naming
  <2>2. /\ Naming(c, i)' \subseteq 1..(n - 1) /\ Naming(c, i) \subseteq 1..n
        /\ 1 \in Naming(c, i) <=> i \in DOMAIN m.list
    BY <1>1 DEF Naming
  <2>3. CASE Naming(c, i)' # {}
    <3>1. PICK h \in Naming(c, i)' : TRUE
      BY <2>3
    <3>2. h \in 1..(n - 1) /\ h + 1 \in Naming(c, i)
      BY <2>1, <2>2, <3>1
    <3>3. PICK j \in Naming(c, i) : (\A k \in Naming(c, i) : k <= j) /\ down[c][j].list[i] = v
      BY <1>7, <3>2 DEF WillShow
    <3>4. j \in 1..n /\ j >= h + 1
      BY <2>2, <3>2, <3>3
    <3>5. j - 1 \in 1..(n - 1) /\ (j - 1) + 1 = j
      BY <1>1, <3>2, <3>4
    <3>6. j - 1 \in Naming(c, i)' /\ down'[c][j - 1] = down[c][j]
      BY <1>1, <2>1, <3>3, <3>5
    <3>7. \A k \in Naming(c, i)' : k <= j - 1
      BY <2>1, <2>2, <3>3, <3>4
    <3> QED
      BY <3>3, <3>6, <3>7 DEF WillShow
  <2>4. CASE Naming(c, i)' = {}
    <3>1. \A j \in Naming(c, i) : j = 1
      <4> SUFFICES ASSUME NEW j \in Naming(c, i), j # 1
                   PROVE  FALSE
        OBVIOUS
      <4>1. j - 1 \in 1..(n - 1) /\ (j - 1) + 1 = j
        BY <1>1, <2>2
      <4> QED
        BY <2>1, <2>4, <4>1
    <3>2. copy'[c][i] = v
      <4>1. CASE Naming(c, i) = {}
        BY <1>5, <1>7, <2>2, <4>1 DEF WillShow
      <4>2. CASE Naming(c, i) # {}
        BY <1>5, <1>7, <2>2, <3>1, <4>2 DEF WillShow
      <4> QED
        BY <4>1, <4>2
    <3> QED
      BY <1>6, <2>4, <3>2 DEF WillShow
  <2> QED
    BY <2>3, <2>4
<1> QED
  BY <1>5, <1>6, <1>7


\* Nothing is lost of what is known about a page when the baseline stays, nothing
\* is sent to it and the server only remembers more.
LEMMA ViewKept ==
  ASSUME NEW c \in Clients, NEW i \in Items, Accounted(c, i), Known(c, i),
         kind' = kind, baseline' = baseline, cause'[c] = cause[c],
         down'[c] = down[c], copy'[c] = copy[c],
         seen \subseteq seen', timer => timer', force => force',
         kind = "entries" /\ ~timer' => truth' = truth
  PROVE  Accounted(c, i)' /\ Known(c, i)'
<1>1. /\ Naming(c, i)' = Naming(c, i)
      /\ \A v : WillShow(c, i, v)' <=> WillShow(c, i, v)
  BY StillShows
<1>2. Told' = Told /\ Listed' = Listed /\ (Everything => Everything')
  BY DEF Told, Empty, Everything, Listed
<1>3. Known(c, i)'
  BY <1>1 DEF Known
<1>4. Accounted(c, i)'
  BY <1>1, <1>2 DEF Accounted
<1> QED
  BY <1>3, <1>4

-----------------------------------------------------------------------------
(***************************************************************************)
(* The invariant holds at first, and every action keeps it.                *)
(***************************************************************************)

LEMMA InitFeed == Init => FeedInv
<1> SUFFICES ASSUME Init PROVE FeedInv
  OBVIOUS
<1>1. truth \in Lists
  BY ListsAssumption DEF Init, Lists
<1>2. TypeOK
  <2>1. cause \in [Clients -> [Items -> Causes]]
    BY DEF Init, NoCause, Causes
  <2>2. /\ baseline \in Lists \cup {NoList} /\ copy \in [Clients -> Lists \cup {NoList}]
        /\ fetched \in [Clients -> Lists \cup {NoList}]
    BY <1>1 DEF Init
  <2> QED
    BY <1>1, <2>1, <2>2 DEF Init, TypeOK
<1>3. \A c \in Clients : /\ up[c] = <<"subscribe">> /\ down[c] = <<>>
                         /\ Len(up[c]) = 1 /\ Len(down[c]) = 0
  BY DEF Init
<1>4. NetOK
  <2>1. up \in [Clients -> Seq({"subscribe", "unsubscribe"})]
    BY DEF Init
  <2>2. down \in [Clients -> Seq(Messages)]
    BY DEF Init
  <2>3. \A c \in Clients : \A j \in 1..Len(down[c]) : FALSE
    BY <1>3
  <2> QED
    BY <2>1, <2>2, <2>3 DEF Init, NetOK
<1>5. ASSUME NEW c \in Clients
      PROVE  LinkInv(c)
  BY <1>3 DEF Init, LinkInv
<1>6. BaseInv
  BY <1>1, ListFacts DEF Init, BaseInv, On, Listed, Told
<1>7. ViewInv
  BY DEF Init, ViewInv, Hears
<1> QED
  BY <1>2, <1>4, <1>5, <1>6, <1>7 DEF FeedInv

LEMMA ListedFacts == Listed \subseteq Items /\ Content \subseteq Values \cup {Absent}
BY ListsAssumption DEF Listed, Content

\* Something changes, announced or not.
LEMMA ChangeKeeps ==
  ASSUME FeedInv, NEW i0 \in Items, i0 \in Listed, NEW v0 \in Values \cup {Absent},
         Change(i0, v0) \/ ChangeQuietly(i0, v0)
  PROVE  FeedInv'
<1> USE DEF FeedInv
<1>1. /\ UNCHANGED <<kind, baseline, force, members, client, network, cause>>
      /\ truth' = [truth EXCEPT ![i0] = v0]
  BY DEF Change, ChangeQuietly
<1>2. truth' \in Lists
  BY <1>1 DEF TypeOK, Lists
<1>3. \/ timer' = TRUE /\ seen \subseteq seen' /\ seen' \subseteq Items /\ silent' = silent
      \/ kind \in {"rooms", "home"} /\ timer' = timer /\ seen' = seen /\ silent' = silent \cup {i0}
         /\ v0 \in Values /\ truth[i0] \in Values
  BY DEF Change, ChangeQuietly, Announce, SeenAtCall, On, TypeOK
<1>4. TypeOK' /\ NetOK'
  <2>1. TypeOK'
    BY <1>1, <1>2, <1>3 DEF TypeOK, client
  <2>2. NetOK'
    BY <1>1, <1>3 DEF NetOK, client, network
  <2> QED
    BY <2>1, <2>2
<1>5. ASSUME NEW c \in Clients
      PROVE  LinkInv(c)'
  BY <1>1 DEF LinkInv, client, network
<1>6. BaseInv'
  <2>0. (\A i \in Items \ Listed : truth[i] = Absent /\ Told[i] = Absent)'
    BY <1>1 DEF BaseInv, Told, Empty, Listed, TypeOK, Lists
  <2>1. CASE timer' = TRUE
    BY <1>1, <1>3, <2>0, <2>1 DEF BaseInv
  <2>2. CASE kind \in {"rooms", "home"} /\ timer' = timer /\ seen' = seen /\ silent' = silent \cup {i0}
             /\ v0 \in Values /\ truth[i0] \in Values
    <3>1. On(truth') = On(truth)
      BY <1>1, <2>2, ListsAssumption DEF On, TypeOK, Lists
    <3>2. \A i \in Items : truth'[i] = truth[i] \/ i \in silent'
      BY <1>1, <2>2 DEF TypeOK, Lists
    <3> QED
      BY <1>1, <2>0, <2>2, <3>1, <3>2 DEF BaseInv, On
  <2> QED
    BY <1>3, <2>1, <2>2
<1>7. ASSUME NEW c \in Clients, Hears(c)', NEW i \in Items
      PROVE  Accounted(c, i)' /\ Known(c, i)'
  <2>1. Accounted(c, i) /\ Known(c, i)
    BY <1>1, <1>7 DEF ViewInv, Hears, client, network
  <2> QED
    BY <1>1, <1>3, <2>1, ViewKept DEF client, network
<1>8. ViewInv'
  BY <1>7 DEF ViewInv
<1> QED
  BY <1>4, <1>5, <1>6, <1>8


\* The timer expires: everybody who hears is told what differs from what they
\* will show, so that nothing but a page's own past can still differ.
LEMMA FlushKeeps ==
  ASSUME FeedInv, Flush
  PROVE  FeedInv'
<1> USE DEF FeedInv
<1> DEFINE listening == members \cap connected
<1>1. /\ timer /\ timer' = FALSE /\ force' = FALSE /\ seen' = {} /\ silent' = {}
      /\ UNCHANGED <<kind, truth, members, client, up>>
      /\ baseline' = IF kind = "home" /\ members = {} THEN NoList ELSE truth
      /\ \A c \in Clients : down'[c] = IF c \in listening /\ Difference # {}
                                       THEN Append(down[c], Patch(Difference)) ELSE down[c]
      /\ \A c \in Clients, i \in Items :
           cause'[c][i] = IF c \in listening /\ i \in Difference THEN "none" ELSE cause[c][i]
  BY DEF Flush
<1>2. Difference \in SUBSET Items
  BY ListsAssumption DEF Difference, Listed, Changed, Gone, TypeOK
<1>3. /\ Patch(Difference) \in Messages /\ Patch(Difference).type = "patch"
      /\ DOMAIN Patch(Difference).list = Difference
      /\ \A i \in Difference : Patch(Difference).list[i] = truth[i]
  BY <1>2, MessageFacts
<1>4. truth \in Lists /\ truth # NoList
  BY ListFacts DEF TypeOK
<1>5. TypeOK'
  <2>1. cause' \in [Clients -> [Items -> Causes]]
    BY DEF Flush, TypeOK, Causes
  <2> QED
    BY <1>1, <1>4, <2>1 DEF TypeOK, client
<1>6. \A c \in Clients :
        \/ down'[c] = down[c]
        \/ /\ down'[c] = Append(down[c], Patch(Difference))
           /\ c \in connected
           /\ Len(down'[c]) = Len(down[c]) + 1 /\ Len(down[c]) \in Nat
           /\ down'[c][Len(down[c]) + 1] = Patch(Difference)
           /\ \A j \in 1..Len(down[c]) : down'[c][j] = down[c][j]
  <2> TAKE c \in Clients
  <2>1. down[c] \in Seq(Messages) /\ Len(down[c]) \in Nat
    BY LenProperties DEF NetOK
  <2>2. CASE c \in listening /\ Difference # {}
    <3>1. down'[c] = Append(down[c], Patch(Difference)) /\ c \in connected
      BY <1>1, <2>2
    <3> HIDE DEF FeedInv
    <3> QED
      BY <1>3, <2>1, <3>1, AppendProperties
  <2>3. CASE ~(c \in listening /\ Difference # {})
    BY <1>1, <2>3
  <2> QED
    BY <2>2, <2>3
<1>7. NetOK'
  <2>1. down' \in [Clients -> Seq(Messages)]
    <3>1. ASSUME NEW c \in Clients
          PROVE  down'[c] \in Seq(Messages)
      <4>1. down[c] \in Seq(Messages)
        BY DEF NetOK
      <4>2. down'[c] = down[c] \/ down'[c] = Append(down[c], Patch(Difference))
        BY <1>6
      <4> QED
        BY <1>3, <4>1, <4>2, AppendProperties
    <3>2. \E f : down' = [c \in Clients |-> f[c]]
      <4>1. down' = [c \in Clients |-> down'[c]]
        BY DEF Flush
      <4> QED
        BY <4>1
    <3> QED
      BY <3>1, <3>2
  <2>2. ASSUME NEW c \in Clients, NEW j \in 1..Len(down'[c]), down'[c][j].type = "full"
        PROVE  down'[c][j].list \in Lists
    <3>1. CASE down'[c] = down[c]
      BY <2>2, <3>1 DEF NetOK
    <3>2. CASE down'[c] # down[c]
      <4>1. j \in 1..Len(down[c])
        BY <1>3, <1>6, <2>2, <3>2
      <4> QED
        BY <1>6, <2>2, <3>2, <4>1 DEF NetOK
    <3> QED
      BY <3>1, <3>2
  <2> QED
    BY <1>1, <2>1, <2>2 DEF NetOK, client
<1>8. ASSUME NEW c \in Clients
      PROVE  LinkInv(c)'
  <2>1. c \notin connected => down'[c] = <<>>
    BY <1>6 DEF LinkInv
  <2>2. ASSUME kind = "entries", copy[c] = NoList, NEW j \in 1..Len(down'[c])
        PROVE  \E k \in 1..j : down'[c][k].type = "full"
    <3>1. CASE down'[c] = down[c]
      BY <2>2, <3>1 DEF LinkInv
    <3>2. CASE down'[c] # down[c] /\ j \in 1..Len(down[c])
      <4>1. PICK k \in 1..j : down[c][k].type = "full"
        BY <2>2, <3>2 DEF LinkInv
      <4>2. k \in 1..Len(down[c])
        BY <1>6, <3>2
      <4> QED
        BY <1>6, <3>2, <4>1, <4>2
    <3>3. CASE down'[c] # down[c] /\ j \notin 1..Len(down[c])
      <4>1. c \in listening
        BY <1>1, <3>3
      <4>2. up[c] = <<>>
        BY <2>2, <4>1 DEF LinkInv
      <4>3. Hears(c)
        BY <4>1, <4>2 DEF Hears
      <4>4. Difference # {}
        BY <1>1, <3>3
      <4>5. PICK i \in Items : TRUE
        BY ListsAssumption
      <4>6. Known(c, i) /\ cause[c][i] # "away"
        BY <2>2, <4>3 DEF ViewInv, Accounted
      <4>7. PICK h \in 1..Len(down[c]) : TRUE
        BY <2>2, <4>6 DEF Known, Naming
      <4>8. PICK k \in 1..h : down[c][k].type = "full"
        BY <2>2, <4>7 DEF LinkInv
      <4>9. k \in 1..Len(down[c]) /\ k \in 1..j
        BY <1>6, <2>2, <3>3, <4>7, <4>8
      <4> QED
        BY <1>6, <3>3, <4>8, <4>9
    <3> QED
      BY <3>1, <3>2, <3>3
  <2> QED
    BY <1>1, <2>1, <2>2 DEF LinkInv, client
<1>9. BaseInv'
  BY <1>1, <1>4, ListFacts DEF BaseInv, On, Listed, Told
<1>10. ASSUME NEW c \in Clients, Hears(c)', NEW i \in Items
       PROVE  Accounted(c, i)' /\ Known(c, i)'
  <2>1. c \in listening /\ Accounted(c, i) /\ Known(c, i)
    BY <1>1, <1>10 DEF ViewInv, Hears, client
  <2>2. baseline' = truth /\ Told' = truth /\ baseline' # NoList
    BY <1>1, <1>4, <2>1 DEF Told
  <2>3. copy'[c] = copy[c] /\ kind' = kind /\ truth' = truth
    BY <1>1 DEF client
  <2>4. CASE i \in Difference
    <3>1. down'[c] = Append(down[c], Patch(Difference)) /\ cause'[c][i] = "none"
      BY <1>1, <2>1, <2>4
    <3>2. Naming(c, i)' # {} /\ WillShow(c, i, Told[i])'
      <4>1. Naming(c, i)' # {} /\ \A v : WillShow(c, i, v)' <=> truth[i] = v
        BY <1>3, <2>3, <2>4, <3>1, SendingShows
      <4> QED
        BY <2>2, <4>1
    <3> QED
      BY <2>2, <3>1, <3>2 DEF Accounted, Known
  <2>5. CASE i \notin Difference
    <3>1. /\ ~(Everything /\ i \in Listed) /\ truth[i] = Told[i]
          /\ kind # "home" => ~(i \in seen /\ truth[i] = Absent)
      <4>1. CASE Everything
        BY <2>5, <4>1 DEF Difference, Everything, BaseInv
      <4>2. CASE ~Everything
        BY <2>5, <4>2 DEF Difference, Changed, Gone, On
      <4> QED
        BY <4>1, <4>2
    <3>2. cause'[c][i] = cause[c][i]
      BY <1>1, <2>5
    <3>3. /\ Naming(c, i)' = Naming(c, i)
          /\ \A v : WillShow(c, i, v)' <=> WillShow(c, i, v)
      <4>1. CASE Difference = {}
        BY <1>1, <2>3, <4>1, StillShows
      <4>2. CASE Difference # {}
        <5>1. down'[c] = Append(down[c], Patch(Difference))
          BY <1>1, <2>1, <4>2
        <5> QED
          BY <1>3, <2>3, <2>5, <5>1, SendingShows
      <4> QED
        BY <4>1, <4>2
    <3>4. Known(c, i)'
      BY <2>1, <2>3, <3>2, <3>3 DEF Known
    <3>5. baseline = NoList => Told[i] = Absent
      BY ListFacts DEF Told
    <3>6. Accounted(c, i)'
      BY <1>1, <2>1, <2>2, <2>3, <3>1, <3>2, <3>3, <3>5 DEF Accounted
    <3> QED
      BY <3>4, <3>6
  <2> QED
    BY <2>4, <2>5
<1>11. ViewInv'
  BY <1>10 DEF ViewInv
<1> QED
  BY <1>5, <1>7, <1>8, <1>9, <1>11


\* A page gets the next message.  What the home screen ignores, it ignores
\* while it has asked, or is about to ask, not to hear of it.
LEMMA DeliverKeeps ==
  ASSUME FeedInv, NEW d \in Clients, Deliver(d)
  PROVE  FeedInv'
<1>1. /\ UNCHANGED <<kind, truth, baseline, seen, timer, force, members, connected,
                     showing, subscribed, fetched, up, silent, cause>>
      /\ down[d] # <<>> /\ down' = [down EXCEPT ![d] = Tail(down[d])]
      /\ \/ copy' = [copy EXCEPT ![d] = Merged(d, Head(down[d]))]
         \/ kind = "home" /\ ~showing[d] /\ copy' = copy
  BY DEF Deliver, server
<1>2. /\ copy \in [Clients -> Lists \cup {NoList}]
      /\ down \in [Clients -> Seq(Messages)]
  BY DEF FeedInv, TypeOK, NetOK
<1>3. /\ down'[d] = Tail(down[d])
      /\ \A c \in Clients \ {d} : down'[c] = down[c] /\ copy'[c] = copy[c]
  BY <1>1, <1>2
<1>4. \/ copy'[d] = Merged(d, Head(down[d])) /\ copy'[d] \in Lists /\ copy'[d] # NoList
      \/ kind = "home" /\ ~showing[d] /\ copy' = copy
  <2>1. CASE copy' = [copy EXCEPT ![d] = Merged(d, Head(down[d]))]
    <3>1. copy'[d] = Merged(d, Head(down[d]))
      BY <1>2, <2>1
    <3> QED
      BY <1>1, <1>3, <3>1, DeliveringShows
  <2> QED
    BY <1>1, <2>1
<1>5. /\ Tail(down[d]) \in Seq(Messages) /\ Len(down[d]) \in Nat
      /\ Len(Tail(down[d])) = Len(down[d]) - 1 /\ Len(down[d]) >= 1
      /\ \A j \in 1..(Len(down[d]) - 1) : Tail(down[d])[j] = down[d][j + 1]
  <2>1. down[d] \in Seq(Messages)
    BY <1>2
  <2> QED
    BY <1>1, <2>1, HeadTailProperties, LenProperties, EmptySeq
<1>6. TypeOK'
  <2>1. copy' \in [Clients -> Lists \cup {NoList}]
    BY <1>1, <1>2, <1>4
  <2> QED
    BY <1>1, <2>1 DEF FeedInv, TypeOK
<1>7. NetOK'
  <2>1. down' \in [Clients -> Seq(Messages)]
    BY <1>1, <1>2, <1>5
  <2>2. ASSUME NEW c \in Clients, NEW j \in 1..Len(down'[c]), down'[c][j].type = "full"
        PROVE  down'[c][j].list \in Lists
    <3>1. CASE c = d
      <4>1. j \in 1..(Len(down[d]) - 1) /\ j + 1 \in 1..Len(down[d])
        <5>1. \A n \in Nat : \A k \in 1..(n - 1) : k + 1 \in 1..n
          OBVIOUS
        <5>2. Len(down'[c]) = Len(down[d]) - 1
          BY <1>3, <1>5, <3>1
        <5> QED
          BY <1>5, <2>2, <5>1, <5>2
      <4> QED
        BY <1>3, <1>5, <2>2, <3>1, <4>1 DEF FeedInv, NetOK
    <3>2. CASE c # d
      BY <1>3, <2>2, <3>2 DEF FeedInv, NetOK
    <3> QED
      BY <3>1, <3>2
  <2> QED
    BY <1>1, <2>1, <2>2 DEF FeedInv, NetOK
<1>8. ASSUME NEW c \in Clients
      PROVE  LinkInv(c)'
  <2>1. CASE c = d
    <3>1. c \in connected
      BY <1>1, <2>1 DEF FeedInv, LinkInv
    <3>2. kind = "entries" => copy'[c] # NoList
      BY <1>4, <2>1
    <3> QED
      BY <1>1, <2>1, <3>1, <3>2 DEF FeedInv, LinkInv
  <2>2. CASE c # d
    <3>1. LinkInv(c)
      BY DEF FeedInv
    <3>2. down'[c] = down[c] /\ copy'[c] = copy[c]
      BY <1>3, <2>2
    <3> QED
      BY <1>1, <3>1, <3>2 DEF LinkInv
  <2> QED
    BY <2>1, <2>2
<1>9. BaseInv'
  BY <1>1 DEF FeedInv, BaseInv, On, Listed, Told, Empty
<1>10. ASSUME NEW c \in Clients, Hears(c)', NEW i \in Items
       PROVE  Accounted(c, i)' /\ Known(c, i)'
  <2>1. Hears(c) /\ Accounted(c, i) /\ Known(c, i)
    BY <1>1, <1>10 DEF FeedInv, ViewInv, Hears
  <2>2. CASE c # d
    BY <1>1, <1>3, <2>1, <2>2, ViewKept
  <2>3. CASE c = d
    <3>1. ~(kind = "home" /\ ~showing[d])
      BY <2>1, <2>3 DEF FeedInv, LinkInv, Hears, NetOK
    <3>2. /\ Naming(c, i) # {} \/ copy[c] # NoList =>
               Naming(c, i)' # {} \/ copy'[c] # NoList
          /\ \A v : WillShow(c, i, v) => WillShow(c, i, v)'
      BY <1>1, <1>3, <1>4, <2>3, <3>1, DeliveringShows
    <3>3. Told' = Told /\ Listed' = Listed /\ (Everything => Everything')
      BY <1>1 DEF Told, Empty, Everything, Listed
    <3> QED
      BY <1>1, <2>1, <3>2, <3>3 DEF Accounted, Known
  <2> QED
    BY <2>2, <2>3
<1>11. ViewInv'
  BY <1>10 DEF ViewInv
<1> QED
  BY <1>6, <1>7, <1>8, <1>9, <1>11 DEF FeedInv

\* The user looks elsewhere or comes back.
LEMMA FlipKeeps ==
  ASSUME FeedInv, NEW d \in Clients, Flip(d)
  PROVE  FeedInv'
<1>1. /\ UNCHANGED <<kind, truth, baseline, seen, timer, force, members, connected,
                     copy, fetched, down, silent, cause>>
      /\ kind \in {"rooms", "online", "home"}
      /\ showing' = [showing EXCEPT ![d] = ~showing[d]]
      /\ subscribed' = [subscribed EXCEPT ![d] = ~showing[d]]
  BY DEF Flip, Flag, server
<1>2. \E a \in {"subscribe", "unsubscribe"} :
        /\ a = IF ~showing[d] THEN "subscribe" ELSE "unsubscribe"
        /\ \/ subscribed[d] = ~showing[d] /\ up' = up
           \/ subscribed[d] # ~showing[d] /\ up' = [up EXCEPT ![d] = Append(up[d], a)]
  BY DEF Flip, Flag
<1>3. PICK a \in {"subscribe", "unsubscribe"} :
        /\ a = IF ~showing[d] THEN "subscribe" ELSE "unsubscribe"
        /\ \/ subscribed[d] = ~showing[d] /\ up' = up
           \/ subscribed[d] # ~showing[d] /\ up' = [up EXCEPT ![d] = Append(up[d], a)]
  BY <1>2
<1>4. /\ up[d] \in Seq({"subscribe", "unsubscribe"})
      /\ up \in [Clients -> Seq({"subscribe", "unsubscribe"})]
      /\ showing \in [Clients -> BOOLEAN] /\ subscribed \in [Clients -> BOOLEAN]
  BY DEF FeedInv, NetOK
<1>5. /\ Append(up[d], a) \in Seq({"subscribe", "unsubscribe"})
      /\ Append(up[d], a) # <<>>
      /\ Append(up[d], a)[Len(Append(up[d], a))] = a
  BY <1>4, AppendProperties, LenProperties, EmptySeq
<1>6. /\ \A c \in Clients \ {d} :
           up'[c] = up[c] /\ showing'[c] = showing[c] /\ subscribed'[c] = subscribed[c]
      /\ showing'[d] = ~showing[d] /\ subscribed'[d] = ~showing[d]
      /\ up'[d] = up[d] \/ up'[d] = Append(up[d], a)
      /\ subscribed[d] # subscribed'[d] => up'[d] = Append(up[d], a)
  BY <1>1, <1>3, <1>4
<1>7. TypeOK' /\ NetOK'
  <2>1. TypeOK'
    BY <1>1 DEF FeedInv, TypeOK
  <2>2. up' \in [Clients -> Seq({"subscribe", "unsubscribe"})]
    BY <1>3, <1>4, <1>5
  <2>3. NetOK'
    BY <1>1, <1>4, <2>2 DEF FeedInv, NetOK
  <2> QED
    BY <2>1, <2>3
<1>8. ASSUME NEW c \in Clients
      PROVE  LinkInv(c)'
  <2>1. CASE c = d
    BY <1>1, <1>3, <1>4, <1>5, <1>6, <2>1 DEF FeedInv, LinkInv
  <2>2. CASE c # d
    <3>1. LinkInv(c)
      BY DEF FeedInv
    <3>2. up'[c] = up[c] /\ showing'[c] = showing[c] /\ subscribed'[c] = subscribed[c]
      BY <1>6, <2>2
    <3> QED
      BY <1>1, <3>1, <3>2 DEF LinkInv
  <2> QED
    BY <2>1, <2>2
<1>9. BaseInv'
  BY <1>1 DEF FeedInv, BaseInv, On, Listed, Told, Empty
<1>10. ASSUME NEW c \in Clients, Hears(c)', NEW i \in Items
       PROVE  Accounted(c, i)' /\ Known(c, i)'
  <2>1. up[c] = <<>>
    BY <1>5, <1>6, <1>10 DEF Hears
  <2>2. Accounted(c, i) /\ Known(c, i)
    BY <1>1, <1>10, <2>1 DEF FeedInv, ViewInv, Hears
  <2> QED
    BY <1>1, <2>2, ViewKept
<1>11. ViewInv'
  BY <1>10 DEF ViewInv
<1> QED
  BY <1>7, <1>8, <1>9, <1>11 DEF FeedInv

\* A socket drops, with what was in flight.
LEMMA DropKeeps ==
  ASSUME FeedInv, NEW d \in Clients, Drop(d)
  PROVE  FeedInv'
<1>1. /\ UNCHANGED <<kind, truth, baseline, force, showing, copy, fetched, silent, cause>>
      /\ connected' = connected \ {d} /\ members' \subseteq members
      /\ up' = [up EXCEPT ![d] = <<>>] /\ down' = [down EXCEPT ![d] = <<>>]
      /\ subscribed' = [subscribed EXCEPT ![d] = FALSE]
      /\ kind # "roster" => d \notin members'
  BY DEF Drop
<1>2. \/ timer' = TRUE /\ seen \subseteq seen' /\ seen' \subseteq Items
      \/ timer' = timer /\ seen' = seen
  BY DEF Drop, Announce, SeenAtCall, On, FeedInv, TypeOK
<1>3. /\ up \in [Clients -> Seq({"subscribe", "unsubscribe"})]
      /\ down \in [Clients -> Seq(Messages)]
      /\ showing \in [Clients -> BOOLEAN] /\ subscribed \in [Clients -> BOOLEAN]
  BY DEF FeedInv, NetOK
<1>4. /\ \A c \in Clients \ {d} :
           up'[c] = up[c] /\ down'[c] = down[c] /\ subscribed'[c] = subscribed[c]
      /\ up'[d] = <<>> /\ down'[d] = <<>> /\ subscribed'[d] = FALSE
      /\ Len(up'[d]) = 0 /\ Len(down'[d]) = 0
  BY <1>1, <1>3
<1>5. TypeOK' /\ NetOK'
  <2>1. TypeOK'
    BY <1>1, <1>2 DEF FeedInv, TypeOK
  <2>2. /\ up' \in [Clients -> Seq({"subscribe", "unsubscribe"})]
        /\ down' \in [Clients -> Seq(Messages)]
        /\ subscribed' \in [Clients -> BOOLEAN]
    BY <1>1, <1>3
  <2>3. ASSUME NEW c \in Clients, NEW j \in 1..Len(down'[c]), down'[c][j].type = "full"
        PROVE  down'[c][j].list \in Lists
    <3>1. c # d
      BY <1>4, <2>3
    <3>2. down'[c] = down[c]
      BY <1>4, <3>1
    <3> QED
      BY <2>3, <3>2 DEF FeedInv, NetOK
  <2>4. timer' \in BOOLEAN /\ force' \in BOOLEAN /\ showing' \in [Clients -> BOOLEAN]
    BY <1>1, <1>2 DEF FeedInv, NetOK
  <2>5. NetOK'
    BY <2>2, <2>3, <2>4 DEF NetOK
  <2> QED
    BY <2>1, <2>5
<1>6. ASSUME NEW c \in Clients
      PROVE  LinkInv(c)'
  <2>1. CASE c = d
    BY <1>1, <1>4, <2>1 DEF LinkInv
  <2>2. CASE c # d
    <3>1. LinkInv(c)
      BY DEF FeedInv
    <3>2. up'[c] = up[c] /\ down'[c] = down[c] /\ subscribed'[c] = subscribed[c]
      BY <1>4, <2>2
    <3> QED
      BY <1>1, <2>2, <3>1, <3>2 DEF LinkInv
  <2> QED
    BY <2>1, <2>2
<1>7. BaseInv'
  BY <1>1, <1>2 DEF FeedInv, BaseInv, On, Listed, Told, Empty
<1>8. ASSUME NEW c \in Clients, Hears(c)', NEW i \in Items
      PROVE  Accounted(c, i)' /\ Known(c, i)'
  <2>1. c # d
    BY <1>1, <1>8 DEF Hears
  <2>2. up'[c] = up[c] /\ down'[c] = down[c]
    BY <1>4, <2>1
  <2>3. Accounted(c, i) /\ Known(c, i)
    BY <1>1, <1>8, <2>2 DEF FeedInv, ViewInv, Hears
  <2> QED
    BY <1>1, <1>2, <2>2, <2>3, ViewKept
<1>9. ViewInv'
  BY <1>8 DEF ViewInv
<1> QED
  BY <1>5, <1>6, <1>7, <1>9 DEF FeedInv


\* A page connects.  It is not among the subscribers yet.
LEMMA ConnectKeeps ==
  ASSUME FeedInv, NEW d \in Clients, Connect(d)
  PROVE  FeedInv'
<1>1. /\ UNCHANGED <<kind, truth, baseline, seen, timer, force, members, showing,
                     copy, fetched, down, silent, cause>>
      /\ d \notin connected /\ connected' = connected \cup {d}
      /\ ~(kind = "roster" /\ d \in members)
  BY DEF Connect, server
<1>2. /\ up \in [Clients -> Seq({"subscribe", "unsubscribe"})]
      /\ showing \in [Clients -> BOOLEAN] /\ subscribed \in [Clients -> BOOLEAN]
  BY DEF FeedInv, NetOK
<1>3. \/ /\ Resubscribes(d) /\ kind # "entries" /\ showing[d]
         /\ subscribed' = [subscribed EXCEPT ![d] = TRUE]
         /\ up' = up \/ up' = [up EXCEPT ![d] = Append(up[d], "subscribe")]
      \/ /\ kind = "home" => ~showing[d]
         /\ subscribed' = subscribed /\ up' = up
  BY DEF Connect, Flag, Resubscribes
<1>4. Append(up[d], "subscribe") \in Seq({"subscribe", "unsubscribe"})
  <2>1. up[d] \in Seq({"subscribe", "unsubscribe"})
    BY <1>2
  <2> QED
    BY <2>1, AppendProperties
<1>5. \A c \in Clients \ {d} : up'[c] = up[c] /\ subscribed'[c] = subscribed[c]
  BY <1>2, <1>3
<1>6. TypeOK' /\ NetOK'
  <2>1. TypeOK'
    BY <1>1 DEF FeedInv, TypeOK
  <2>2. up' \in [Clients -> Seq({"subscribe", "unsubscribe"})]
    BY <1>2, <1>3, <1>4
  <2>3. NetOK'
    BY <1>1, <1>2, <1>3, <2>2 DEF FeedInv, NetOK
  <2> QED
    BY <2>1, <2>3
<1>7. ASSUME NEW c \in Clients
      PROVE  LinkInv(c)'
  <2>1. LinkInv(c)
    BY DEF FeedInv
  <2>2. CASE c # d
    <3>1. up'[c] = up[c] /\ subscribed'[c] = subscribed[c]
      BY <1>5, <2>2
    <3> QED
      BY <1>1, <2>1, <2>2, <3>1 DEF LinkInv
  <2>3. CASE c = d /\ subscribed' = subscribed /\ up' = up /\ (kind = "home" => ~showing[d])
    BY <1>1, <1>2, <2>1, <2>3 DEF LinkInv
  <2>4. CASE c = d /\ kind # "entries" /\ showing[d]
             /\ subscribed' = [subscribed EXCEPT ![d] = TRUE]
    <3>1. subscribed'[c] = TRUE
      BY <1>2, <2>4
    <3> QED
      BY <1>1, <2>1, <2>4, <3>1 DEF LinkInv
  <2> QED
    BY <1>3, <2>2, <2>3, <2>4
<1>8. BaseInv'
  BY <1>1 DEF FeedInv, BaseInv, On, Listed, Told, Empty
<1>9. ASSUME NEW c \in Clients, Hears(c)', NEW i \in Items
      PROVE  Accounted(c, i)' /\ Known(c, i)'
  <2>1. c # d
    BY <1>1, <1>9 DEF Hears, FeedInv, LinkInv
  <2>2. Accounted(c, i) /\ Known(c, i)
    BY <1>1, <1>5, <1>9, <2>1 DEF FeedInv, ViewInv, Hears
  <2> QED
    BY <1>1, <2>2, ViewKept
<1>10. ViewInv'
  BY <1>9 DEF ViewInv
<1> QED
  BY <1>6, <1>7, <1>8, <1>10 DEF FeedInv

\* A user is back in a game and gets no list: what they show of an item is what
\* the others were told, or is marked as missed.
LEMMA ReturnToGameKeeps ==
  ASSUME FeedInv, NEW d \in Clients, ReturnToGame(d)
  PROVE  FeedInv'
<1>1. /\ UNCHANGED <<kind, truth, baseline, force, members, showing, subscribed,
                     copy, fetched, up, down, silent>>
      /\ kind = "roster" /\ d \in members \ connected
      /\ connected' = connected \cup {d}
      /\ timer' = TRUE /\ seen \subseteq seen' /\ seen' \subseteq Items
      /\ cause' = [cause EXCEPT ![d] =
                     [i \in Items |-> IF copy[d] = NoList \/ copy[d][i] # Told[i]
                                      THEN "away" ELSE "none"]]
  BY DEF ReturnToGame, Return, Announce, SeenAtCall, On, FeedInv, TypeOK
<1>2. cause \in [Clients -> [Items -> Causes]]
  BY DEF FeedInv, TypeOK
<1>3. TypeOK'
  BY <1>1 DEF FeedInv, TypeOK, Causes
<1>4. NetOK'
  BY <1>1 DEF FeedInv, NetOK
<1>5. ASSUME NEW c \in Clients
      PROVE  LinkInv(c)'
  BY <1>1 DEF FeedInv, LinkInv
<1>6. BaseInv'
  BY <1>1 DEF FeedInv, BaseInv, Listed, Told, Empty
<1>7. Told' = Told
  BY <1>1 DEF Told, Empty
<1>8. ASSUME NEW c \in Clients, Hears(c)', NEW i \in Items
      PROVE  Accounted(c, i)' /\ Known(c, i)'
  <2>1. CASE c # d
    <3>1. Accounted(c, i) /\ Known(c, i) /\ cause'[c] = cause[c]
      BY <1>1, <1>2, <1>8, <2>1 DEF FeedInv, ViewInv, Hears
    <3> QED
      BY <1>1, <3>1, ViewKept
  <2>2. CASE c = d
    <3>1. down[d] = <<>> /\ down' = down
      BY <1>1 DEF FeedInv, LinkInv
    <3>2. Naming(c, i)' = {}
      BY <2>2, <3>1 DEF Naming
    <3>3. cause'[c][i] = IF copy[d] = NoList \/ copy[d][i] # Told[i] THEN "away" ELSE "none"
      BY <1>1, <1>2, <2>2
    <3>4. Known(c, i)'
      BY <1>1, <2>2, <3>3 DEF Known
    <3>5. cause'[c][i] = "none" => WillShow(c, i, Told[i])'
      BY <1>1, <1>7, <2>2, <3>2, <3>3 DEF WillShow
    <3> QED
      BY <1>1, <3>3, <3>4, <3>5 DEF Accounted
  <2> QED
    BY <2>1, <2>2
<1>9. ViewInv'
  BY <1>8 DEF ViewInv
<1> QED
  BY <1>3, <1>4, <1>5, <1>6, <1>9 DEF FeedInv


\* A subscriber is told everything, and why a delta may never come is on record.
\* For those who heard before nothing changes, but on the home screen, where
\* nobody tells them any more of what was not announced.
LEMMA SubscribeKeeps ==
  ASSUME FeedInv, NEW d \in Clients, Subscribe(d),
         UNCHANGED <<kind, truth, copy>>
  PROVE  /\ baseline' \in Lists \cup {NoList}
         /\ seen' \subseteq Items /\ silent' \subseteq Items
         /\ cause' \in [Clients -> [Items -> Causes]]
         /\ timer' \in BOOLEAN /\ force' \in BOOLEAN
         /\ down' \in [Clients -> Seq(Messages)]
         /\ \A c \in Clients \ {d} : down'[c] = down[c]
         /\ \A j \in 1..Len(down'[d]) :
              down'[d][j].type = "full" => down'[d][j].list \in Lists
         /\ kind = "entries" /\ copy[d] = NoList =>
              \A j \in 1..Len(down'[d]) : \E k \in 1..j : down'[d][k].type = "full"
         /\ BaseInv'
         /\ \A i \in Items : Accounted(d, i)' /\ Known(d, i)'
         /\ \A c \in Clients \ {d} : Hears(c) =>
              \A i \in Items : Accounted(c, i)' /\ Known(c, i)'
<1>1. /\ members' = members \cup {d}
      /\ baseline' = Seeded
      /\ seen' = IF kind = "online" THEN seen \cup On(truth) ELSE SeenAtCall(truth)
      /\ timer' = (timer \/ kind = "roster")
      /\ force' = (force \/ (kind = "home" /\ timer))
      /\ down' = [down EXCEPT ![d] = Append(down[d], Full(truth))]
      /\ silent' = IF kind = "home" /\ ~timer THEN {} ELSE silent
      /\ cause' = [c \in Clients |-> [i \in Items |-> IF c = d THEN Reason(i, baseline')
                                                             ELSE Rebased(c, i)]]
  BY DEF Subscribe
<1>2. /\ kind \in {"rooms", "online", "tournaments", "entries", "roster", "home"}
      /\ truth \in Lists /\ truth # NoList /\ baseline \in Lists \cup {NoList}
      /\ timer \in BOOLEAN /\ force \in BOOLEAN
      /\ cause \in [Clients -> [Items -> Causes]] /\ silent \subseteq Items
      /\ down \in [Clients -> Seq(Messages)]
  BY ListFacts, KindsAreFeeds DEF FeedInv, TypeOK, NetOK
<1>3. /\ Full(truth) \in Messages /\ Full(truth).type = "full" /\ Full(truth).list = truth
      /\ DOMAIN truth = Items
  BY MessageFacts DEF FeedInv
<1>4. /\ down'[d] = Append(down[d], Full(truth))
      /\ down'[d] \in Seq(Messages) /\ Len(down[d]) \in Nat
      /\ Len(down'[d]) = Len(down[d]) + 1
      /\ down'[d][Len(down[d]) + 1] = Full(truth)
      /\ \A j \in 1..Len(down[d]) : down'[d][j] = down[d][j]
  <2>1. down[d] \in Seq(Messages)
    BY <1>2
  <2>2. down'[d] = Append(down[d], Full(truth))
    BY <1>1, <1>2
  <2> QED
    BY <1>3, <2>1, <2>2, AppendProperties, LenProperties
<1>5. /\ down' \in [Clients -> Seq(Messages)]
      /\ \A c \in Clients \ {d} : down'[c] = down[c]
  BY <1>1, <1>2, <1>4
<1>6. \A j \in 1..Len(down'[d]) : down'[d][j].type = "full" => down'[d][j].list \in Lists
  <2> SUFFICES ASSUME NEW j \in 1..Len(down'[d]), down'[d][j].type = "full"
               PROVE  down'[d][j].list \in Lists
    OBVIOUS
  <2>1. CASE j \in 1..Len(down[d])
    BY <1>4, <2>1 DEF FeedInv, NetOK
  <2>2. CASE j = Len(down[d]) + 1
    BY <1>2, <1>3, <1>4, <2>2
  <2> QED
    BY <1>4, <2>1, <2>2
<1>7. ASSUME kind = "entries", copy[d] = NoList, NEW j \in 1..Len(down'[d])
      PROVE  \E k \in 1..j : down'[d][k].type = "full"
  <2>1. CASE j \in 1..Len(down[d])
    <3>1. PICK k \in 1..j : down[d][k].type = "full"
      BY <1>7, <2>1 DEF FeedInv, LinkInv
    <3>2. k \in 1..Len(down[d])
      BY <1>4, <2>1
    <3> QED
      BY <1>4, <3>1, <3>2
  <2>2. CASE j = Len(down[d]) + 1
    <3>1. j \in 1..j
      BY <1>4, <2>2
    <3> QED
      BY <1>3, <1>4, <2>2, <3>1
  <2> QED
    BY <1>4, <2>1, <2>2
<1>8. /\ kind \in {"rooms", "online", "tournaments"} =>
           baseline' = IF baseline = NoList THEN truth ELSE baseline
      /\ kind = "home" => baseline' = IF timer THEN baseline ELSE truth
      /\ kind \in {"entries", "roster"} => baseline' = baseline
  BY <1>1, <1>2 DEF Seeded
<1>9. /\ kind \in {"online", "roster"} => seen' = seen \cup On(truth)
      /\ kind \notin {"online", "roster"} => seen' = seen
      /\ On(truth) \subseteq Items /\ seen \subseteq Items
  BY <1>1 DEF SeenAtCall, On, FeedInv, TypeOK
<1>10. /\ \A i \in Items : cause'[d][i] = Reason(i, baseline')
       /\ \A c \in Clients \ {d} : \A i \in Items : cause'[c][i] = Rebased(c, i)
  BY <1>1
<1>11. \A i \in Items : /\ Reason(i, baseline') \in Causes
                         /\ \A c \in Clients : Rebased(c, i) \in Causes
  BY <1>2 DEF Reason, Rebased, Causes
<1>12. cause' \in [Clients -> [Items -> Causes]]
  BY <1>1, <1>11
<1>13. BaseInv'
  <2>1. BaseInv
    BY DEF FeedInv
  <2>2. ~timer' => ~timer /\ kind # "roster"
    BY <1>1, <1>2
  <2>3. On(truth)' = On(truth)
    BY DEF On
  <2>4. ~timer' /\ baseline' # NoList => \A i \in Items : truth[i] = baseline'[i] \/ i \in silent'
    BY <1>1, <1>2, <1>8, <2>1, <2>2 DEF BaseInv
  <2>5. ~timer' => seen' \subseteq On(truth) /\ ~force'
    BY <1>1, <1>2, <1>9, <2>1, <2>2 DEF BaseInv
  <2>6. kind \in {"rooms", "online", "tournaments"} => baseline' # NoList
    BY <1>2, <1>8
  <2>7. kind \in {"home", "roster"} /\ ~timer' => baseline' # NoList
    BY <1>2, <1>8, <2>2
  <2>8. (\A i \in Items \ Listed : truth[i] = Absent /\ Told[i] = Absent)'
    BY <1>2, <1>8, <2>1, ListFacts DEF BaseInv, Listed, Told
  <2> QED
    BY <1>1, <2>1, <2>3, <2>4, <2>5, <2>6, <2>7, <2>8 DEF BaseInv
<1>14. ASSUME NEW i \in Items
       PROVE  Accounted(d, i)' /\ Known(d, i)'
  <2>1. Naming(d, i)' # {} /\ \A v : WillShow(d, i, v)' <=> truth[i] = v
    <3>1. NetOK
      BY DEF FeedInv
    <3> QED
      BY <1>3, <1>4, <3>1, SendingShows
  <2>2. Known(d, i)'
    BY <2>1 DEF Known
  <2>3. Told' = IF baseline' = NoList THEN Empty ELSE baseline'
    BY DEF Told, Empty
  <2>4. Empty[i] = Absent
    BY ListFacts
  <2>5. CASE kind = "home"
    <3>1. cause'[d][i] = "none"
      BY <1>10, <2>5 DEF Reason
    <3>2. CASE timer
      <4>1. Everything' /\ timer' /\ Listed' = Listed
        BY <1>1, <2>5, <3>2 DEF Everything, Listed
      <4>2. i \notin Listed => Told'[i] = truth[i]
        BY <1>13, <4>1 DEF BaseInv
      <4>3. WillShow(d, i, Told[i])' \/ i \in Listed'
        BY <2>1, <4>1, <4>2
      <4> QED
        BY <2>2, <2>5, <3>1, <4>1, <4>3 DEF Accounted
    <3>3. CASE ~timer
      <4>1. Told' = truth
        BY <1>2, <1>8, <2>3, <2>5, <3>3
      <4>2. WillShow(d, i, Told[i])'
        BY <2>1, <4>1
      <4> QED
        BY <2>2, <2>5, <3>1, <4>2 DEF Accounted
    <3> QED
      BY <3>2, <3>3
  <2>6. CASE kind # "home"
    <3>1. CASE baseline' = NoList /\ truth[i] # Absent
      <4>1. cause'[d][i] = "unseeded"
        BY <1>10, <2>6, <3>1 DEF Reason
      <4>2. kind = "entries" \/ (kind = "roster" /\ timer' /\ i \in seen')
        BY <1>1, <1>2, <1>8, <1>9, <2>6, <3>1 DEF On
      <4> QED
        BY <2>2, <3>1, <4>1, <4>2 DEF Accounted
    <3>2. CASE baseline' # NoList /\ truth[i] # baseline'[i]
      <4>1. cause'[d][i] = "window"
        BY <1>10, <2>6, <3>2 DEF Reason
      <4>2. kind \in {"online", "roster"} /\ i \notin seen' => WillShow(d, i, Absent)'
        BY <1>9, <2>1 DEF On
      <4> QED
        BY <2>2, <4>1, <4>2 DEF Accounted
    <3>3. CASE (baseline' = NoList /\ truth[i] = Absent)
               \/ (baseline' # NoList /\ truth[i] = baseline'[i])
      <4>1. cause'[d][i] = "none"
        BY <1>10, <2>6, <3>3 DEF Reason
      <4>2. Told'[i] = truth[i]
        BY <2>3, <2>4, <3>3
      <4>3. WillShow(d, i, Told[i])'
        BY <2>1, <4>2
      <4> QED
        BY <2>2, <3>3, <4>1, <4>3 DEF Accounted
    <3> QED
      BY <3>1, <3>2, <3>3
  <2> QED
    BY <2>5, <2>6
<1>15. ASSUME NEW c \in Clients \ {d}, Hears(c), NEW i \in Items
       PROVE  Accounted(c, i)' /\ Known(c, i)'
  <2>1. Accounted(c, i) /\ Known(c, i)
    BY <1>15 DEF FeedInv, ViewInv
  <2>2. members # {} /\ BaseInv
    BY <1>15 DEF Hears, FeedInv
  <2>3. down'[c] = down[c] /\ cause'[c][i] = Rebased(c, i)
    BY <1>5, <1>10, <1>15
  <2>4. /\ Naming(c, i)' = Naming(c, i)
        /\ \A v : WillShow(c, i, v)' <=> WillShow(c, i, v)
    BY <2>3, StillShows
  <2>5. CASE kind = "home" /\ ~timer
    <3>1. baseline # NoList /\ Told = baseline /\ Told' = truth
      BY <1>2, <1>8, <2>2, <2>5 DEF BaseInv, Told
    <3>2. CASE truth[i] # Told[i]
      BY <2>1, <2>3, <2>4, <2>5, <3>2 DEF Rebased, Accounted, Known
    <3>3. CASE truth[i] = Told[i]
      <4>1. cause'[c][i] = cause[c][i]
        BY <2>3, <3>3 DEF Rebased
      <4> QED
        BY <2>1, <2>4, <2>5, <3>1, <3>3, <4>1 DEF Accounted, Known
    <3> QED
      BY <3>2, <3>3
  <2>6. CASE ~(kind = "home" /\ ~timer)
    <3>1. baseline' = baseline
      BY <1>2, <1>8, <2>2, <2>6 DEF BaseInv
    <3>2. cause'[c][i] = cause[c][i]
      BY <2>3, <2>6 DEF Rebased
    <3>3. seen \subseteq seen' /\ (timer => timer') /\ (force => force')
      BY <1>1, <1>9
    <3>4. Told' = Told /\ Listed' = Listed /\ (Everything => Everything')
      BY <3>1, <3>3 DEF Told, Empty, Everything, Listed
    <3> QED
      BY <1>1, <2>1, <2>4, <3>1, <3>2, <3>3, <3>4 DEF Accounted, Known
  <2> QED
    BY <2>5, <2>6
<1>16. seen' \subseteq Items /\ silent' \subseteq Items /\ timer' \in BOOLEAN /\ force' \in BOOLEAN
       /\ baseline' \in Lists \cup {NoList}
  BY <1>1, <1>2, <1>8, <1>9
<1> QED
  BY <1>5, <1>6, <1>7, <1>12, <1>13, <1>14, <1>15, <1>16


\* A socket's next request is handled.
LEMMA HandleUpKeeps ==
  ASSUME FeedInv, NEW d \in Clients, HandleUp(d)
  PROVE  FeedInv'
<1>1. /\ UNCHANGED <<kind, truth, connected, showing, subscribed, copy, fetched>>
      /\ d \in connected /\ up[d] # <<>>
      /\ up' = [up EXCEPT ![d] = Tail(up[d])]
      /\ IF Head(up[d]) = "subscribe" THEN Subscribe(d) ELSE Unsubscribe(d)
  BY DEF HandleUp, client
<1>2. /\ up \in [Clients -> Seq({"subscribe", "unsubscribe"})]
      /\ down \in [Clients -> Seq(Messages)]
      /\ subscribed \in [Clients -> BOOLEAN]
  BY DEF FeedInv, NetOK
<1>3. /\ up'[d] = Tail(up[d])
      /\ \A c \in Clients \ {d} : up'[c] = up[c]
  BY <1>1, <1>2
<1>4. /\ Tail(up[d]) \in Seq({"subscribe", "unsubscribe"})
      /\ Head(up[d]) = up[d][1]
      /\ Len(up[d]) \in Nat /\ Len(up[d]) >= 1 /\ Len(Tail(up[d])) = Len(up[d]) - 1
      /\ Tail(up[d]) = <<>> => Len(up[d]) = 1
      /\ Tail(up[d]) # <<>> => Tail(up[d])[Len(Tail(up[d]))] = up[d][Len(up[d])]
      /\ Len(up[d]) <= 1 => Tail(up[d]) = <<>>
  <2>1. up[d] \in Seq({"subscribe", "unsubscribe"})
    BY <1>2
  <2>2. /\ Tail(up[d]) \in Seq({"subscribe", "unsubscribe"})
        /\ Head(up[d]) = up[d][1]
        /\ Len(Tail(up[d])) = Len(up[d]) - 1
        /\ \A j \in 1..Len(Tail(up[d])) : Tail(up[d])[j] = up[d][j + 1]
    BY <1>1, <2>1, HeadTailProperties
  <2>3. /\ Len(up[d]) \in Nat /\ Len(Tail(up[d])) \in Nat
        /\ Tail(up[d]) = <<>> <=> Len(Tail(up[d])) = 0
        /\ Len(up[d]) # 0
    BY <1>1, <2>1, <2>2, LenProperties, EmptySeq
  <2>4. Tail(up[d]) # <<>> => Len(Tail(up[d])) \in 1..Len(Tail(up[d]))
    BY <2>3
  <2> QED
    BY <2>2, <2>3, <2>4
\* Whoever hears afterwards and is not the one served heard before.
<1>5. \A c \in Clients \ {d} : Hears(c)' => Hears(c)
  BY <1>1, <1>3 DEF Hears, Subscribe, Unsubscribe
<1>6. TypeOK' /\ NetOK' /\ BaseInv' /\ ViewInv'
      /\ (\A c \in Clients \ {d} : down'[c] = down[c])
      /\ (kind = "entries" /\ copy[d] = NoList =>
            \A j \in 1..Len(down'[d]) : \E k \in 1..j : down'[d][k].type = "full")
  <2>1. up' \in [Clients -> Seq({"subscribe", "unsubscribe"})]
    BY <1>1, <1>2, <1>4
  <2>2. CASE Head(up[d]) = "subscribe"
    <3>1. Subscribe(d)
      BY <1>1, <2>2
    <3>2. /\ baseline' \in Lists \cup {NoList}
          /\ seen' \subseteq Items /\ silent' \subseteq Items
          /\ cause' \in [Clients -> [Items -> Causes]]
          /\ timer' \in BOOLEAN /\ force' \in BOOLEAN
          /\ down' \in [Clients -> Seq(Messages)]
          /\ \A c \in Clients \ {d} : down'[c] = down[c]
          /\ \A j \in 1..Len(down'[d]) :
               down'[d][j].type = "full" => down'[d][j].list \in Lists
          /\ kind = "entries" /\ copy[d] = NoList =>
               \A j \in 1..Len(down'[d]) : \E k \in 1..j : down'[d][k].type = "full"
          /\ BaseInv'
          /\ \A i \in Items : Accounted(d, i)' /\ Known(d, i)'
          /\ \A c \in Clients \ {d} : Hears(c) =>
               \A i \in Items : Accounted(c, i)' /\ Known(c, i)'
      BY <1>1, <3>1, SubscribeKeeps
    <3>3. members' \subseteq Clients
      BY <3>1 DEF Subscribe, FeedInv, TypeOK
    <3>4. TypeOK'
      BY <1>1, <3>2, <3>3 DEF FeedInv, TypeOK
    <3>5. \A c \in Clients : \A j \in 1..Len(down'[c]) :
            down'[c][j].type = "full" => down'[c][j].list \in Lists
      <4> TAKE c \in Clients
      <4>1. CASE c = d
        BY <3>2, <4>1
      <4>2. CASE c # d
        BY <3>2, <4>2 DEF FeedInv, NetOK
      <4> QED
        BY <4>1, <4>2
    <3>6. NetOK'
      BY <1>1, <2>1, <3>2, <3>5 DEF FeedInv, NetOK
    <3>7. ViewInv'
      BY <1>5, <3>2 DEF ViewInv
    <3> QED
      BY <3>2, <3>4, <3>6, <3>7
  <2>3. CASE Head(up[d]) # "subscribe"
    <3>1. /\ members' = members \ {d}
          /\ UNCHANGED <<baseline, seen, timer, force, down, silent, cause>>
      BY <1>1, <2>3 DEF Unsubscribe
    <3>2. TypeOK'
      BY <1>1, <3>1 DEF FeedInv, TypeOK
    <3>3. NetOK'
      BY <1>1, <2>1, <3>1 DEF FeedInv, NetOK
    <3>4. BaseInv'
      BY <1>1, <3>1 DEF FeedInv, BaseInv, On, Listed, Told, Empty
    <3>5. ASSUME NEW c \in Clients, Hears(c)', NEW i \in Items
          PROVE  Accounted(c, i)' /\ Known(c, i)'
      <4>1. c # d
        BY <3>1, <3>5 DEF Hears
      <4>2. Accounted(c, i) /\ Known(c, i)
        BY <1>5, <3>5, <4>1 DEF FeedInv, ViewInv
      <4> QED
        BY <1>1, <3>1, <4>2, ViewKept
    <3>6. ViewInv'
      BY <3>5 DEF ViewInv
    <3> QED
      BY <3>1, <3>2, <3>3, <3>4, <3>6 DEF FeedInv, LinkInv
  <2> QED
    BY <2>2, <2>3
<1>7. ASSUME NEW c \in Clients
      PROVE  LinkInv(c)'
  <2>1. LinkInv(c)
    BY DEF FeedInv
  <2>2. members' \subseteq members \cup {d}
    BY <1>1 DEF Subscribe, Unsubscribe
  <2>3. CASE c # d
    <3>1. up'[c] = up[c] /\ down'[c] = down[c]
      BY <1>3, <1>6, <2>3
    <3> QED
      BY <1>1, <2>1, <2>2, <2>3, <3>1 DEF LinkInv
  <2>4. CASE c = d
    <3>1. kind = "entries" => Tail(up[d]) = <<>>
      BY <1>4, <2>1, <2>4 DEF LinkInv
    <3>2. kind = "entries" => up'[d] = <<>> /\ Len(up'[d]) = 0
      <4>1. \A s : s = <<>> => Len(s) = 0
        OBVIOUS
      <4>2. kind = "entries" => up'[d] = <<>>
        BY <1>3, <3>1
      <4> QED
        BY <4>1, <4>2
    <3>3. ~subscribed[d] /\ Tail(up[d]) = <<>> => d \notin members'
      <4>1. ~subscribed[d] /\ Tail(up[d]) = <<>> => Head(up[d]) = "unsubscribe"
        BY <1>1, <1>4, <2>1, <2>4 DEF LinkInv
      <4> QED
        BY <1>1, <4>1 DEF Unsubscribe
    <3>4. ~subscribed[d] /\ Tail(up[d]) # <<>> =>
            Tail(up[d])[Len(Tail(up[d]))] = "unsubscribe"
      BY <1>1, <1>4, <2>1, <2>4 DEF LinkInv
    <3>5. kind = "home" => subscribed[d] = showing[d]
      BY <1>1, <2>1, <2>4 DEF LinkInv
    <3>6. /\ connected' = connected /\ subscribed' = subscribed /\ showing' = showing
          /\ kind' = kind /\ copy' = copy /\ up'[d] = Tail(up[d]) /\ d \in connected
      BY <1>1, <1>3
    <3>7. kind' = "entries" /\ copy'[d] = NoList =>
            \A j \in 1..Len(down'[d]) : \E k \in 1..j : down'[d][k].type = "full"
      BY <1>6, <3>6
    <3>8. subscribed[d] => (kind = "home" => showing[d])
      BY <2>1, <2>4 DEF LinkInv
    <3>9. LinkInv(d)'
      <4>1. (d \notin connected => down[d] = <<>> /\ (kind # "roster" => d \notin members))'
        BY <3>6
      <4>2. (~subscribed[d] => IF up[d] = <<>> THEN kind # "roster" => d \notin members
                                               ELSE up[d][Len(up[d])] = "unsubscribe")'
        BY <3>3, <3>4, <3>6
      <4>3. (kind = "entries" => Len(up[d]) <= 1 /\ (d \in members => up[d] = <<>>))'
        BY <3>2, <3>6
      <4>4. (kind = "home" => (subscribed[d] => showing[d]))'
        BY <3>6, <3>8
      <4>5. (kind = "home" /\ d \in connected => subscribed[d] = showing[d])'
        BY <3>5, <3>6
      <4> QED
        BY <3>7, <4>1, <4>2, <4>3, <4>4, <4>5 DEF LinkInv
    <3> QED
      BY <2>4, <3>9
  <2> QED
    BY <2>3, <2>4
<1> QED
  BY <1>6, <1>7 DEF FeedInv

\* A user is back in a room and gets the whole of it.
LEMMA ReturnToRoomKeeps ==
  ASSUME FeedInv, NEW d \in Clients, ReturnToRoom(d)
  PROVE  FeedInv'
<1>1. /\ UNCHANGED <<kind, truth, showing, subscribed, copy, fetched, up>>
      /\ kind = "roster" /\ d \in members \ connected
      /\ connected' = connected \cup {d}
      /\ Subscribe(d) /\ members' = members
  BY DEF ReturnToRoom, Return, Subscribe
<1>2. /\ baseline' \in Lists \cup {NoList}
      /\ seen' \subseteq Items /\ silent' \subseteq Items
      /\ cause' \in [Clients -> [Items -> Causes]]
      /\ timer' \in BOOLEAN /\ force' \in BOOLEAN
      /\ down' \in [Clients -> Seq(Messages)]
      /\ \A c \in Clients \ {d} : down'[c] = down[c]
      /\ \A j \in 1..Len(down'[d]) :
           down'[d][j].type = "full" => down'[d][j].list \in Lists
      /\ BaseInv'
      /\ \A i \in Items : Accounted(d, i)' /\ Known(d, i)'
      /\ \A c \in Clients \ {d} : Hears(c) =>
           \A i \in Items : Accounted(c, i)' /\ Known(c, i)'
  BY <1>1, SubscribeKeeps
<1>3. TypeOK'
  BY <1>1, <1>2 DEF FeedInv, TypeOK
<1>4. \A c \in Clients : \A j \in 1..Len(down'[c]) :
        down'[c][j].type = "full" => down'[c][j].list \in Lists
  <2> TAKE c \in Clients
  <2>1. CASE c = d
    BY <1>2, <2>1
  <2>2. CASE c # d
    BY <1>2, <2>2 DEF FeedInv, NetOK
  <2> QED
    BY <2>1, <2>2
<1>5. NetOK'
  BY <1>1, <1>2, <1>4 DEF FeedInv, NetOK
<1>6. ASSUME NEW c \in Clients
      PROVE  LinkInv(c)'
  <2>1. c \notin connected' => down'[c] = down[c]
    BY <1>1, <1>2
  <2> QED
    BY <1>1, <2>1 DEF FeedInv, LinkInv
<1>7. \A c \in Clients \ {d} : Hears(c)' => Hears(c)
  BY <1>1 DEF Hears
<1>8. ViewInv'
  BY <1>2, <1>7 DEF ViewInv
<1> QED
  BY <1>2, <1>3, <1>5, <1>6, <1>8 DEF FeedInv

\* The home screen asks for everything.
LEMMA PollKeeps ==
  ASSUME FeedInv, NEW d \in Clients, Poll(d)
  PROVE  FeedInv'
<1>1. /\ UNCHANGED <<kind, truth, baseline, seen, timer, force, members, connected,
                     showing, subscribed, copy, up, down, silent, cause>>
      /\ fetched' = [fetched EXCEPT ![d] = truth]
  BY DEF Poll, server, network
<1>2. TypeOK' /\ NetOK'
  BY <1>1 DEF FeedInv, TypeOK, NetOK
<1>3. BaseInv'
  BY <1>1 DEF FeedInv, BaseInv, On, Listed, Told, Empty
<1>4. ASSUME NEW c \in Clients
      PROVE  LinkInv(c)'
  <2>1. LinkInv(c)
    BY DEF FeedInv
  <2> QED
    BY <1>1, <2>1 DEF LinkInv
<1>5. ASSUME NEW c \in Clients, Hears(c)', NEW i \in Items
      PROVE  Accounted(c, i)' /\ Known(c, i)'
  <2>1. Accounted(c, i) /\ Known(c, i)
    BY <1>1, <1>5 DEF FeedInv, ViewInv, Hears
  <2> QED
    BY <1>1, <2>1, ViewKept
<1>6. ViewInv'
  BY <1>5 DEF ViewInv
<1> QED
  BY <1>2, <1>3, <1>4, <1>6 DEF FeedInv

\* An answer is shown: it says what the pushes said, or there is a reason.
LEMMA AnswerKeeps ==
  ASSUME FeedInv, NEW d \in Clients, Answer(d)
  PROVE  FeedInv'
<1>1. /\ UNCHANGED <<kind, truth, baseline, seen, timer, force, members, connected,
                     showing, subscribed, up, down, silent>>
      /\ fetched[d] # NoList
      /\ copy' = [copy EXCEPT ![d] = fetched[d]]
      /\ fetched' = [fetched EXCEPT ![d] = NoList]
      /\ cause' = [cause EXCEPT ![d] = [i \in Items |->
                      IF fetched[d][i] # Told[i] THEN "fetched" ELSE cause[d][i]]]
  BY DEF Answer, server, network
<1>2. /\ copy \in [Clients -> Lists \cup {NoList}]
      /\ fetched \in [Clients -> Lists \cup {NoList}]
      /\ cause \in [Clients -> [Items -> Causes]]
  BY DEF FeedInv, TypeOK
<1>3. /\ copy'[d] = fetched[d] /\ fetched[d] \in Lists
      /\ \A i \in Items : cause'[d][i] = IF fetched[d][i] # Told[i] THEN "fetched"
                                                               ELSE cause[d][i]
      /\ \A c \in Clients \ {d} : copy'[c] = copy[c] /\ cause'[c] = cause[c]
  BY <1>1, <1>2
<1>4. TypeOK' /\ NetOK'
  <2>1. \A i \in Items : (IF fetched[d][i] # Told[i] THEN "fetched" ELSE cause[d][i]) \in Causes
    BY <1>2 DEF Causes
  <2>2. cause' \in [Clients -> [Items -> Causes]]
    BY <1>1, <1>2, <2>1
  <2>3. copy' \in [Clients -> Lists \cup {NoList}] /\ fetched' \in [Clients -> Lists \cup {NoList}]
    BY <1>1, <1>2, <1>3
  <2> QED
    BY <1>1, <2>2, <2>3 DEF FeedInv, TypeOK, NetOK
<1>5. BaseInv'
  BY <1>1 DEF FeedInv, BaseInv, On, Listed, Told, Empty
<1>6. ASSUME NEW c \in Clients
      PROVE  LinkInv(c)'
  <2>1. LinkInv(c)
    BY DEF FeedInv
  <2>2. copy'[c] = NoList => copy[c] = NoList
    BY <1>1, <1>3
  <2> QED
    BY <1>1, <2>1, <2>2 DEF LinkInv
<1>7. ASSUME NEW c \in Clients, Hears(c)', NEW i \in Items
      PROVE  Accounted(c, i)' /\ Known(c, i)'
  <2>1. Accounted(c, i) /\ Known(c, i)
    BY <1>1, <1>7 DEF FeedInv, ViewInv, Hears
  <2>2. CASE c # d
    BY <1>1, <1>3, <2>1, <2>2, ViewKept
  <2>3. CASE c = d
    <3>1. copy'[c] # NoList /\ Naming(c, i)' = Naming(c, i) /\ Told' = Told
          /\ Listed' = Listed /\ (Everything => Everything')
      BY <1>1, <1>3, <2>3, ListFacts DEF Naming, Told, Empty, Everything, Listed
    <3>2. Known(c, i)'
      BY <3>1 DEF Known
    <3>3. CASE fetched[d][i] # Told[i]
      <4>1. cause'[c][i] = "fetched"
        BY <1>3, <2>3, <3>3
      <4> QED
        BY <3>2, <4>1 DEF Accounted
    <3>4. CASE fetched[d][i] = Told[i]
      <4>1. cause'[c][i] = cause[c][i] /\ copy'[c][i] = Told[i]
        BY <1>3, <2>3, <3>4
      <4>2. WillShow(c, i, Told[i]) => WillShow(c, i, Told[i])'
        BY <1>1, <3>1, <4>1 DEF WillShow
      <4>3. Told[i] = Absent => (WillShow(c, i, Absent) => WillShow(c, i, Absent)')
        BY <4>2, <3>1
      <4> QED
        BY <1>1, <2>1, <3>1, <3>2, <4>1, <4>2, <4>3 DEF Accounted
    <3> QED
      BY <3>3, <3>4
  <2> QED
    BY <2>2, <2>3
<1>8. ViewInv'
  BY <1>7 DEF ViewInv
<1> QED
  BY <1>4, <1>5, <1>6, <1>8 DEF FeedInv

LEMMA NextFeed == FeedInv /\ [Next]_vars => FeedInv'
<1> SUFFICES ASSUME FeedInv, [Next]_vars
             PROVE  FeedInv'
  OBVIOUS
<1>1. ASSUME NEW i \in Items, i \in Listed, NEW v \in Values \cup {Absent}, Change(i, v) \/ ChangeQuietly(i, v)
      PROVE  FeedInv'
  BY <1>1, ChangeKeeps
<1>2. CASE Flush
  BY <1>2, FlushKeeps
<1>3. ASSUME NEW d \in Clients, HandleUp(d)
      PROVE  FeedInv'
  BY <1>3, HandleUpKeeps
<1>4. ASSUME NEW d \in Clients, Deliver(d)
      PROVE  FeedInv'
  BY <1>4, DeliverKeeps
<1>5. ASSUME NEW d \in Clients, Flip(d)
      PROVE  FeedInv'
  BY <1>5, FlipKeeps
<1>6. ASSUME NEW d \in Clients, Drop(d)
      PROVE  FeedInv'
  BY <1>6, DropKeeps
<1>7. ASSUME NEW d \in Clients, Connect(d)
      PROVE  FeedInv'
  BY <1>7, ConnectKeeps
<1>8. ASSUME NEW d \in Clients, ReturnToRoom(d)
      PROVE  FeedInv'
  BY <1>8, ReturnToRoomKeeps
<1>9. ASSUME NEW d \in Clients, ReturnToGame(d)
      PROVE  FeedInv'
  BY <1>9, ReturnToGameKeeps
<1>11. ASSUME NEW d \in Clients, Poll(d)
       PROVE  FeedInv'
  BY <1>11, PollKeeps
<1>12. ASSUME NEW d \in Clients, Answer(d)
       PROVE  FeedInv'
  BY <1>12, AnswerKeeps
<1>10. CASE UNCHANGED vars
  <2>1. /\ UNCHANGED <<kind, truth, baseline, seen, timer, force, members, connected,
                       showing, subscribed, copy, fetched, up, down, silent, cause>>
    BY <1>10 DEF vars, server, client, network
  <2>2. TypeOK' /\ NetOK'
    BY <2>1 DEF FeedInv, TypeOK, NetOK
  <2>3. BaseInv'
    BY <2>1 DEF FeedInv, BaseInv, On, Listed, Told, Empty
  <2>4. ASSUME NEW c \in Clients
        PROVE  LinkInv(c)'
    <3>1. LinkInv(c)
      BY DEF FeedInv
    <3> QED
      BY <2>1, <3>1 DEF LinkInv
  <2>5. ASSUME NEW c \in Clients, Hears(c)', NEW i \in Items
        PROVE  Accounted(c, i)' /\ Known(c, i)'
    <3>1. Accounted(c, i) /\ Known(c, i)
      BY <2>1, <2>5 DEF FeedInv, ViewInv, Hears
    <3> QED
      BY <2>1, <3>1, ViewKept
  <2>6. ViewInv'
    BY <2>5 DEF ViewInv
  <2> QED
    BY <2>2, <2>3, <2>4, <2>6 DEF FeedInv
<1> QED
  BY <1>1, <1>2, <1>3, <1>4, <1>5, <1>6, <1>7, <1>8, <1>9, <1>10, <1>11, <1>12, ListedFacts
     DEF Next

-----------------------------------------------------------------------------
(***************************************************************************)
(* What the invariant says of a page with nothing in flight.               *)
(***************************************************************************)

\* What will be shown of an item is shown, or a reason that MayDiffer admits is
\* on record: a missed delta is mended by the flush that no longer is coming.
LEMMA QuietIsRight ==
  ASSUME FeedInv, NEW c \in Clients, Quiet(c)
  PROVE  Right(c)
<1>1. /\ Hears(c) /\ ~timer /\ members # {}
      /\ \A i \in Items : Accounted(c, i) /\ Known(c, i) /\ Naming(c, i) = {}
  <2>1. Hears(c) /\ ~timer /\ down[c] = <<>>
    BY DEF Quiet, Hears
  <2> QED
    BY <2>1 DEF FeedInv, ViewInv, Hears, Naming
<1>2. /\ kind \in {"rooms", "online", "tournaments", "entries", "roster", "home"}
      /\ \A i \in Items : cause[c][i] \in Causes
  BY KindsAreFeeds DEF FeedInv, TypeOK
<1>3. BaseInv
  BY DEF FeedInv
<1>4. CASE copy[c] = NoList
  <2>1. PICK i \in Items : TRUE
    BY ListsAssumption
  <2>2. cause[c][i] = "away"
    BY <1>1, <1>4 DEF Known
  <2> QED
    BY <1>4, <2>2 DEF Right
<1>5. CASE copy[c] # NoList
  <2>1. ASSUME NEW i \in Items
        PROVE  copy[c][i] = truth[i] \/ MayDiffer(c, i)
    <3>1. \A v : WillShow(c, i, v) <=> copy[c][i] = v
      BY <1>1, <1>5 DEF WillShow
    <3>2. Told[i] = truth[i] \/ i \in silent \/ (kind = "entries" /\ baseline = NoList)
      <4>1. CASE baseline = NoList
        BY <1>1, <1>2, <1>3, <4>1 DEF BaseInv
      <4>2. CASE baseline # NoList
        BY <1>1, <1>3, <4>2 DEF BaseInv, Told
      <4> QED
        BY <4>1, <4>2
    <3>3. CASE cause[c][i] = "none"
      <4>1. copy[c][i] = Told[i]
        BY <1>1, <3>1, <3>3 DEF Accounted
      <4>2. CASE kind = "entries" /\ baseline = NoList
        BY <1>1, <3>3, <4>1, <4>2, ListFacts DEF Accounted, Told
      <4>3. CASE Told[i] = truth[i] \/ i \in silent
        BY <4>1, <4>3 DEF MayDiffer
      <4> QED
        BY <3>2, <4>2, <4>3
    <3>4. CASE cause[c][i] = "window"
      <4>1. CASE Remembered(i)
        <5>1. kind \in {"online", "roster"} /\ truth[i] = Absent
          BY <4>1 DEF Remembered
        <5>2. i \notin seen
          BY <1>1, <1>3, <5>1 DEF BaseInv, On
        <5>3. silent = {}
          BY <1>3, <5>1 DEF BaseInv
        <5>4. Told[i] = Absent
          BY <3>2, <5>1, <5>3
        <5> QED
          BY <1>1, <3>1, <3>4, <5>1, <5>2, <5>4 DEF Accounted
      <4>2. CASE ~Remembered(i)
        BY <3>4, <4>2 DEF MayDiffer
      <4> QED
        BY <4>1, <4>2
    <3>5. CASE cause[c][i] = "unseeded"
      BY <1>1, <3>5 DEF Accounted, MayDiffer
    <3>6. CASE cause[c][i] \in {"away", "rebased", "fetched"}
      BY <3>6 DEF MayDiffer
    <3> QED
      BY <1>2, <3>3, <3>4, <3>5, <3>6 DEF Causes
  <2> QED
    BY <1>5, <2>1 DEF Right
<1> QED
  BY <1>4, <1>5

\* Deltas add up (sendLobbySnapshot and its siblings, the diffs, _force, the
\* handlers of the patches): a page that has heard everything is right, for any
\* pages, items and values and whatever happened meanwhile.
THEOREM DriftCorrect == Spec => []DriftHasACause
<1>1. Spec => []FeedInv
  BY InitFeed, NextFeed, PTL DEF Spec
<1>2. FeedInv => DriftHasACause
  <2>1. FeedInv => TypeOK
    BY DEF FeedInv
  <2> QED
    BY <2>1, QuietIsRight DEF DriftHasACause
<1> QED
  BY <1>1, <1>2, PTL

=============================================================================
