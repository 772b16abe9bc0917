-------------------------- MODULE PollClientProofs --------------------------
(***************************************************************************)
(* Proofs about PollClient, for any size of the pages, number of ids,      *)
(* retries, failures and life of the token: type correctness,              *)
(* TokenOutlivesRequest and EtagVouchesForLogged.                          *)
(***************************************************************************)
EXTENDS PollClient, SequenceTheorems, TLAPS

-----------------------------------------------------------------------------
(* A page was followed by another only where there are ids enough for one,   *)
(* though the feed may be shorter by now; and items are held only while they *)
(* are logged.                                                              *)
WalkInv ==
  /\ Len(feed) <= lastId
  /\ more => page * PageSize < MaxIds
  /\ pc # "log" => items = <<>>

PollInv == PollTypeOK /\ WalkInv /\ TokenOutlivesRequest /\ EtagVouchesForLogged

-----------------------------------------------------------------------------
(* A page of the feed is a part of it. *)
LEMMA ContentType ==
  ASSUME feed \in Seq(1 .. MaxIds), NEW p \in Pages
  PROVE  Content(p) \in Seq(1 .. MaxIds)
<1> DEFINE first == (p - 1) * PageSize + 1
           last == Least(p * PageSize, Len(feed))
<1>1. p - 1 \in Nat /\ PageSize \in Nat /\ Len(feed) \in Nat
  BY PageSizeType, PollBounds DEF Pages
<1>2. (p - 1) * PageSize \in Nat /\ p * PageSize \in Nat
  BY <1>1 DEF Pages
<1>3. first \in Int /\ last \in Int /\ first >= 1 /\ last <= Len(feed)
  BY <1>1, <1>2 DEF Least
<1> HIDE DEF first, last
<1>4. ASSUME NEW i \in first .. last PROVE feed[i] \in 1 .. MaxIds
  <2>1. i \in 1 .. Len(feed)
    BY <1>1, <1>3
  <2>2. QED
    BY <2>1, ElementOfSeq
<1>5. SubSeq(feed, first, last) \in Seq(1 .. MaxIds)
  BY <1>3, <1>4, SubSeqProperties
<1>6. QED
  BY <1>5 DEF Content, first, last

(* A page that is followed by another is not the last there can be. *)
LEMMA PageBound ==
  ASSUME NEW p \in Pages, NEW n \in Nat, n <= MaxIds, p * PageSize < n
  PROVE  p + 1 \in Pages
<1>1. p \in Nat /\ PageSize \in Nat /\ PageSize >= 1 /\ MaxIds \in Nat
  BY PageSizeType, PollBounds DEF Pages
<1>2. p <= p * PageSize /\ p * PageSize \in Nat
  BY <1>1
<1>3. QED
  BY <1>1, <1>2 DEF Pages

(* The Booleans of the walk. *)
Flags == more \in BOOLEAN /\ fresh \in BOOLEAN

(* What GitHub does to the feed. *)
ServerStep ==
  \/ Publish
  \/ \E k \in DOMAIN feed : UpdateItem(k) \/ CloseItem(k)
  \/ \E k \in 0 .. Len(feed) : ReopenItem(k)

(* The rest of the type invariant. *)
RestOK ==
  /\ feed \in Seq(1 .. MaxIds)
  /\ lastId \in FirstIds .. MaxIds
  /\ logged \subseteq 1 .. MaxIds
  /\ DOMAIN etags = Pages
  /\ pc \in {"down", "idle", "headers", "get", "log"}
  /\ page \in Pages
  /\ attempt \in 0 .. MaxRetries
  /\ items \in Seq(1 .. MaxIds)
  /\ left \in 0 .. Lifetime
  /\ failures \in 0 .. MaxFailures
  /\ deficit \in 0 .. MaxDeficit

(* Together they are the type invariant. *)
LEMMA PollTypeSplit == PollTypeOK <=> Flags /\ RestOK
BY Zenon DEF PollTypeOK, Flags, RestOK

(* The Booleans stay Booleans. *)
LEMMA FlagsKept == Flags /\ [PollNext]_pollVars => Flags'
<1> SUFFICES ASSUME Flags, [PollNext]_pollVars PROVE Flags'
  OBVIOUS
<1> USE DEF Flags, server, walk, history
<1>1. CASE ClientStep
  <2>1. CASE StartDaemon \/ StartPoll \/ SendWithCachedToken \/ SendWithNewToken \/ NotModified
    BY <2>1, Zenon DEF StartDaemon, StartPoll, SendWithCachedToken, SendWithNewToken, Send,
                       NotModified, GoIdle
  <2>2. CASE LogItem \/ NextPage \/ LastPage
    BY <2>2, Zenon DEF LogItem, NextPage, LastPage, GoIdle
  <2>3. CASE Modified
    <3>1. more' = (page * PageSize < Len(feed)) /\ fresh' = fresh
      BY <2>3 DEF Modified, HasNext
    <3>2. more' \in BOOLEAN
      BY <3>1
    <3>3. QED
      BY <3>1, <3>2, Zenon
  <2>4. QED
    BY <1>1, <2>1, <2>2, <2>3 DEF ClientStep
<1>2. CASE Publish \/ Wait \/ RateLimited \/ Fail
  BY <1>2, Zenon DEF Publish, Wait, RateLimited, Fail, GoIdle
<1>5. ASSUME NEW k \in DOMAIN feed, UpdateItem(k) \/ CloseItem(k) PROVE Flags'
  BY <1>5, Zenon DEF UpdateItem, CloseItem
<1>6. ASSUME NEW k \in 0 .. Len(feed), ReopenItem(k) PROVE Flags'
  BY <1>6, Zenon DEF ReopenItem
<1>3. CASE UNCHANGED pollVars
  BY <1>3, Zenon DEF pollVars
<1>4. QED
  BY <1>1, <1>2, <1>3, <1>5, <1>6 DEF PollNext

(* A part of the feed, from a to b. *)
LEMMA PartType ==
  ASSUME feed \in Seq(1 .. MaxIds), NEW a \in Nat \ {0}, NEW b \in Nat,
         a <= b + 1, b <= Len(feed)
  PROVE  SubSeq(feed, a, b) \in Seq(1 .. MaxIds) /\ Len(SubSeq(feed, a, b)) = b - a + 1
<1>1. ASSUME NEW i \in a .. b PROVE feed[i] \in 1 .. MaxIds
  <2>1. i \in 1 .. Len(feed)
    OBVIOUS
  <2>2. QED
    BY <2>1, ElementOfSeq
<1>2. SubSeq(feed, a, b) \in Seq(1 .. MaxIds)
  BY <1>1, SubSeqProperties
<1>3. Len(SubSeq(feed, a, b)) = b - a + 1
  BY SubSeqProperties
<1>4. QED
  BY <1>2, <1>3

(* The feed: ids are given out one by one, one for each item that enters. *)
LEMMA FeedKept ==
  ASSUME RestOK, WalkInv, ServerStep
  PROVE  /\ feed' \in Seq(1 .. MaxIds) /\ lastId' \in FirstIds .. MaxIds
         /\ Len(feed') <= lastId' /\ deficit' \in 0 .. MaxDeficit
<1> DEFINE Gains(n) == feed' \in Seq(1 .. MaxIds) /\ Len(feed') = Len(feed) + n
<1>0. Len(feed) \in Nat /\ feed \in Seq(1 .. MaxIds) /\ lastId \in FirstIds .. MaxIds
      /\ Len(feed) <= lastId /\ deficit \in 0 .. MaxDeficit
  BY DEF RestOK, WalkInv
<1>1. ASSUME lastId < MaxIds, lastId' = lastId + 1
      PROVE  /\ lastId' \in 1 .. MaxIds /\ lastId' \in FirstIds .. MaxIds
             /\ <<lastId'>> \in Seq(1 .. MaxIds) /\ Len(<<lastId'>>) = 1
  BY <1>0, <1>1, PollBounds
<1>2. CASE Publish
  <2>1. lastId < MaxIds /\ lastId' = lastId + 1 /\ feed' = <<lastId'>> \o feed
    BY <1>2 DEF Publish
  <2>2. Gains(1)
    BY <1>0, <1>1, <2>1, ConcatProperties
  <2>3. deficit' \in 0 .. MaxDeficit
    <3>1. deficit' = IF deficit = 0 THEN 0 ELSE deficit - 1
      BY <1>2 DEF Publish
    <3>2. QED
      BY <1>0, <3>1, PollBounds
  <2>4. QED
    BY <1>0, <1>1, <2>1, <2>2, <2>3
<1>3. ASSUME NEW k \in DOMAIN feed, UpdateItem(k)
      PROVE  /\ feed' \in Seq(1 .. MaxIds) /\ lastId' \in FirstIds .. MaxIds
             /\ Len(feed') <= lastId' /\ deficit' \in 0 .. MaxDeficit
  <2>1. lastId < MaxIds /\ lastId' = lastId + 1 /\ feed' = [feed EXCEPT ![k] = lastId']
        /\ deficit' = deficit
    BY <1>3 DEF UpdateItem
  <2>2. Gains(0)
    BY <1>0, <1>1, <2>1, ExceptSeq
  <2>3. QED
    BY <1>0, <1>1, <2>1, <2>2
<1>4. ASSUME NEW k \in DOMAIN feed, CloseItem(k)
      PROVE  /\ feed' \in Seq(1 .. MaxIds) /\ lastId' \in FirstIds .. MaxIds
             /\ Len(feed') <= lastId' /\ deficit' \in 0 .. MaxDeficit
  <2> DEFINE front == SubSeq(feed, 1, k - 1)
             rear == SubSeq(feed, k + 1, Len(feed))
  <2>1. feed' = front \o rear /\ lastId' = lastId /\ deficit' = deficit + 1 /\ deficit < MaxDeficit
    BY <1>4 DEF CloseItem, server
  <2>2. k \in 1 .. Len(feed)
    BY <1>0
  <2>3. front \in Seq(1 .. MaxIds) /\ Len(front) = k - 1
    BY <1>0, <2>2, PartType
  <2>4. rear \in Seq(1 .. MaxIds) /\ Len(rear) = Len(feed) - k
    BY <1>0, <2>2, PartType
  <2> HIDE DEF front, rear
  <2>5. feed' \in Seq(1 .. MaxIds) /\ Len(feed') = Len(front) + Len(rear)
    BY <2>1, <2>3, <2>4, ConcatProperties
  <2>6. Len(feed') = Len(feed) - 1 /\ deficit' \in 0 .. MaxDeficit
    BY <1>0, <2>1, <2>2, <2>3, <2>4, <2>5, PollBounds
  <2>7. QED
    BY <1>0, <2>1, <2>5, <2>6
<1>5. ASSUME NEW k \in 0 .. Len(feed), ReopenItem(k)
      PROVE  /\ feed' \in Seq(1 .. MaxIds) /\ lastId' \in FirstIds .. MaxIds
             /\ Len(feed') <= lastId' /\ deficit' \in 0 .. MaxDeficit
  <2> DEFINE front == SubSeq(feed, 1, k)
             rear == SubSeq(feed, k + 1, Len(feed))
  <2>1. /\ feed' = front \o <<lastId'>> \o rear /\ deficit' = deficit
        /\ lastId < MaxIds /\ lastId' = lastId + 1
    BY <1>5 DEF ReopenItem
  <2>2. front \in Seq(1 .. MaxIds) /\ Len(front) = k
    BY <1>0, PartType
  <2>3. rear \in Seq(1 .. MaxIds) /\ Len(rear) = Len(feed) - k
    BY <1>0, PartType
  <2> HIDE DEF front, rear
  <2> DEFINE mid == front \o <<lastId'>>
  <2>4. mid \in Seq(1 .. MaxIds) /\ Len(mid) = k + 1 /\ feed' = mid \o rear
    BY <1>1, <2>1, <2>2, ConcatProperties
  <2> HIDE DEF mid
  <2>5. feed' \in Seq(1 .. MaxIds) /\ Len(feed') = Len(mid) + Len(rear)
    BY <2>3, <2>4, ConcatProperties
  <2>6. Gains(1)
    BY <1>0, <2>3, <2>4, <2>5
  <2>7. QED
    BY <1>0, <1>1, <2>1, <2>6
<1>6. QED
  BY <1>2, <1>3, <1>4, <1>5 DEF ServerStep

(* What a walk does keeps the types. *)
LEMMA RestKept ==
  ASSUME RestOK, WalkInv, [PollNext]_pollVars
  PROVE  RestOK'
<1> USE PollBounds, TokenTimes DEF RestOK, server, walk, history
<1>0. 1 \in Pages /\ <<>> \in Seq(1 .. MaxIds) /\ 0 \in 0 .. MaxRetries
  BY DEF Pages
<1>1. CASE ServerStep
  <2>1. UNCHANGED <<logged, etags, walk, left, failures>>
    BY <1>1 DEF ServerStep, Publish, UpdateItem, CloseItem, ReopenItem
  <2>2. QED
    BY <1>1, <2>1, FeedKept
<1>2. CASE StartDaemon \/ StartPoll \/ NotModified \/ LastPage
  BY <1>0, <1>2 DEF StartDaemon, StartPoll, NotModified, LastPage, GoIdle
<1>3. CASE Fail
  <2>1. failures \in 0 .. MaxFailures /\ failures < MaxFailures /\ failures' = failures + 1
    BY <1>3, Zenon DEF Fail
  <2>2. failures' \in 0 .. MaxFailures /\ 0 \in 0 .. Lifetime
    BY <2>1
  <2>3. QED
    BY <1>0, <1>3, <2>2 DEF Fail, GoIdle
<1>4. CASE Wait
  <2>1. left' \in 0 .. Lifetime
    BY <1>4 DEF Wait
  <2>2. QED
    BY <1>4, <2>1 DEF Wait
<1>11. CASE RateLimited
  <2>1. attempt \in 0 .. MaxRetries /\ attempt < MaxRetries /\ attempt' = attempt + 1
    BY <1>11, Zenon DEF RateLimited
  <2>2. attempt' \in 0 .. MaxRetries
    BY <2>1
  <2>3. QED
    BY <1>11, <2>2 DEF RateLimited
<1>5. ASSUME NEW t \in 0 .. Lifetime, Send(t) PROVE RestOK'
  <2>1. left' \in 0 .. Lifetime
    BY <1>5 DEF Send
  <2>2. QED
    BY <1>5, <2>1 DEF Send
<1>6. CASE SendWithCachedToken \/ SendWithNewToken
  BY <1>5, <1>6 DEF SendWithCachedToken, SendWithNewToken
<1>7. CASE Modified
  BY <1>0, <1>7, ContentType DEF Modified
<1>8. CASE LogItem
  <2>1. Head(items) \in 1 .. MaxIds /\ Tail(items) \in Seq(1 .. MaxIds)
    BY <1>8, HeadTailProperties DEF LogItem
  <2>2. QED
    BY <1>8, <2>1 DEF LogItem
<1>9. CASE NextPage
  <2>1. page' = page + 1 /\ page * PageSize < MaxIds
    BY <1>9 DEF NextPage, WalkInv
  <2>2. page' \in Pages
    BY <2>1, PageBound
  <2>3. QED
    BY <1>9, <2>2 DEF NextPage
<1>10. CASE UNCHANGED pollVars
  BY <1>10 DEF pollVars
<1>12. QED
  BY <1>1, <1>2, <1>3, <1>4, <1>6, <1>7, <1>8, <1>9, <1>10, <1>11 DEF PollNext, ClientStep, ServerStep

-----------------------------------------------------------------------------
(* The walk over the pages. *)
LEMMA NextWalkInv ==
  ASSUME RestOK, Flags, WalkInv, [PollNext]_pollVars
  PROVE  WalkInv'
<1> USE PollBounds DEF server, walk, history
<1>0. Len(feed) \in Nat /\ Len(feed) <= MaxIds /\ WalkInv
  BY DEF RestOK, WalkInv
<1>1. CASE ServerStep
  <2>1. Len(feed') <= lastId'
    BY <1>1, FeedKept
  <2>2. UNCHANGED <<page, more, pc, items>>
    BY <1>1 DEF ServerStep, Publish, UpdateItem, CloseItem, ReopenItem
  <2>3. QED
    BY <1>0, <2>1, <2>2 DEF WalkInv
<1>2. CASE StartDaemon \/ NotModified \/ LastPage \/ Fail
  BY <1>0, <1>2 DEF StartDaemon, NotModified, LastPage, Fail, GoIdle, WalkInv
<1>3. CASE Modified
  <2>1. more' => page * PageSize < Len(feed)
    BY <1>3 DEF Modified, HasNext
  <2>4. UNCHANGED <<feed, lastId, page>> /\ pc' = "log"
    BY <1>3 DEF Modified
  <2>2. page * PageSize \in Nat
    BY PageSizeType DEF RestOK, Pages
  <2>3. QED
    BY <1>0, <2>1, <2>2, <2>4 DEF WalkInv
<1>4. CASE LogItem
  <2>1. UNCHANGED <<feed, lastId, page, more, pc>> /\ pc = "log"
    BY <1>4 DEF LogItem
  <2>2. QED
    BY <1>0, <2>1 DEF WalkInv
<1>5. CASE NextPage
  BY <1>0, <1>5 DEF NextPage, WalkInv
<1>6. CASE StartPoll \/ SendWithCachedToken \/ SendWithNewToken \/ Wait \/ RateLimited
  <2>1. UNCHANGED <<feed, lastId, page, more, items>> /\ pc # "log"
    BY <1>6 DEF StartPoll, SendWithCachedToken, SendWithNewToken, Send, Wait, RateLimited
  <2>2. QED
    BY <1>0, <2>1 DEF WalkInv
<1>7. CASE UNCHANGED pollVars
  BY <1>0, <1>7 DEF pollVars, WalkInv
<1>8. QED
  BY <1>1, <1>2, <1>3, <1>4, <1>5, <1>6, <1>7 DEF PollNext, ClientStep, ServerStep

(* A request goes out with a token that lives longer than its answer takes.  *)
LEMMA NextTokenOutlives ==
  ASSUME RestOK, TokenOutlivesRequest, [PollNext]_pollVars
  PROVE  TokenOutlivesRequest'
<1> USE DEF server, walk, history, TokenOutlivesRequest
<1>1. ASSUME NEW t \in Nat, t > Buffer, Send(t) PROVE left' > 0
  BY <1>1, TokenTimes DEF Send
<1>2. CASE SendWithCachedToken \/ SendWithNewToken
  <2>1. left \in Nat
    BY TokenTimes DEF RestOK
  <2>2. QED
    BY <1>1, <1>2, <2>1, TokenTimes DEF SendWithCachedToken, SendWithNewToken
<1>3. CASE \/ StartDaemon \/ StartPoll \/ NotModified \/ Modified \/ NextPage \/ LastPage
           \/ Wait \/ RateLimited \/ Fail
  BY <1>3 DEF StartDaemon, StartPoll, NotModified, Modified, NextPage, LastPage, Wait, RateLimited,
              Fail, GoIdle
<1>4. CASE LogItem \/ ServerStep \/ UNCHANGED pollVars
  BY <1>4 DEF LogItem, ServerStep, Publish, UpdateItem, CloseItem, ReopenItem, pollVars
<1>5. QED
  BY <1>2, <1>3, <1>4 DEF PollNext, ClientStep, ServerStep

(* What is being logged. *)
Held == {items[m] : m \in DOMAIN items}

(* Logging an item loses none of those held. *)
LEMMA LogItemFacts ==
  ASSUME RestOK, LogItem
  PROVE  logged \cup Held \subseteq (logged \cup Held)'
<1>1. items \in Seq(1 .. MaxIds) /\ items # <<>> /\ items' = Tail(items)
  BY DEF RestOK, LogItem
<1>2. /\ Len(items') = Len(items) - 1 /\ items' \in Seq(1 .. MaxIds) /\ Len(items) \in Nat
      /\ \A i \in 1 .. Len(items') : items'[i] = items[i + 1]
  BY <1>1, HeadTailProperties
<1>3. ASSUME NEW m \in DOMAIN items PROVE items[m] \in logged' \cup Held'
  <2>1. m \in 1 .. Len(items)
    BY <1>1
  <2>2. CASE m = 1
    <3>1. items[m] = Head(items)
      BY <1>1, <2>2
    <3>2. QED
      BY <3>1 DEF LogItem
  <2>3. CASE m # 1
    <3>1. m - 1 \in 1 .. Len(items')
      BY <1>2, <2>1, <2>3
    <3>2. items'[m - 1] = items[m] /\ m - 1 \in DOMAIN items'
      BY <1>2, <2>1, <3>1
    <3>3. QED
      BY <3>2 DEF Held
  <2>4. QED
    BY <2>2, <2>3
<1>4. logged \subseteq logged'
  BY DEF LogItem
<1>5. QED
  BY <1>3, <1>4 DEF Held

(* What the ETags vouch for is logged or being logged. *)
LEMMA NextEtagVouches ==
  ASSUME RestOK, WalkInv, EtagVouchesForLogged, [PollNext]_pollVars
  PROVE  EtagVouchesForLogged'
<1> USE DEF server, walk, history
<1>0. failures = 0 =>
        \A p \in Pages : etags[p] # None => \A j \in DOMAIN etags[p] : etags[p][j] \in logged \cup Held
  BY DEF EtagVouchesForLogged, Held
<1> DEFINE Goal ==
      failures' = 0 =>
        \A p \in Pages : etags'[p] # None =>
          \A j \in DOMAIN etags'[p] : etags'[p][j] \in (logged \cup Held)'
<1>a. Goal => EtagVouchesForLogged'
  BY DEF EtagVouchesForLogged, Held
<1> SUFFICES Goal
  BY <1>a
<1>1. CASE Modified
  <2>1. /\ etags' = [etags EXCEPT ![page] = Content(page)] /\ items' = Content(page)
        /\ logged' = logged /\ failures' = failures /\ items = <<>>
    BY <1>1 DEF Modified, WalkInv
  <2>2. Held = {}
    <3>1. DOMAIN items = {}
      BY <2>1
    <3>2. QED
      BY <3>1 DEF Held
  <2>3. \A j \in DOMAIN Content(page) : Content(page)[j] \in Held'
    BY <2>1 DEF Held
  <2>4. QED
    BY <1>0, <2>1, <2>2, <2>3 DEF RestOK
<1>2. CASE LogItem
  <2>1. etags' = etags /\ failures' = failures
    BY <1>2 DEF LogItem
  <2>2. QED
    BY <1>0, <1>2, <2>1, LogItemFacts
<1>3. CASE Fail
  <2>1. failures \in 0 .. MaxFailures /\ failures' = failures + 1
    BY <1>3, Zenon DEF Fail, RestOK
  <2>2. QED
    BY <2>1
<1>4. CASE StartDaemon \/ NotModified \/ LastPage
  <2>1. items' = items /\ UNCHANGED <<etags, logged, failures>>
    BY <1>4 DEF StartDaemon, NotModified, LastPage, GoIdle, WalkInv
  <2>2. QED
    BY <1>0, <2>1 DEF Held
<1>5. CASE \/ StartPoll \/ SendWithCachedToken \/ SendWithNewToken \/ NextPage \/ Wait \/ RateLimited
           \/ ServerStep \/ UNCHANGED pollVars
  <2>1. UNCHANGED <<items, etags, logged, failures>>
    BY <1>5 DEF StartPoll, SendWithCachedToken, SendWithNewToken, Send, NextPage, Wait, RateLimited,
                ServerStep, Publish, UpdateItem, CloseItem, ReopenItem, pollVars
  <2>2. QED
    BY <1>0, <2>1 DEF Held
<1>6. QED
  BY <1>1, <1>2, <1>3, <1>4, <1>5 DEF PollNext, ClientStep, ServerStep

-----------------------------------------------------------------------------
(* The inductive invariant of the polling client. *)
THEOREM PollInvariance == PollSpec => []PollInv
<1>1. PollInit => PollInv
  <2> SUFFICES ASSUME PollInit PROVE PollInv
    OBVIOUS
  <2>1. Flags
    BY Zenon DEF PollInit, Flags
  <2>2. /\ items = <<>> /\ page = 1 /\ attempt = 0 /\ left = 0 /\ failures = 0 /\ logged = {}
        /\ more = FALSE /\ pc = "down" /\ lastId = FirstIds /\ deficit = 0
    BY Zenon DEF PollInit
  <2>3. feed \in Seq(1 .. MaxIds) /\ Len(feed) = FirstIds
    <3>1. feed = [k \in 1 .. FirstIds |-> FirstIds + 1 - k]
      BY Zenon DEF PollInit
    <3>2. \A k \in 1 .. FirstIds : FirstIds + 1 - k \in 1 .. MaxIds
      BY PollBounds
    <3>3. QED
      BY <3>1, <3>2, PollBounds
  <2>4. DOMAIN etags = Pages /\ \A p \in Pages : etags[p] = None
    BY DEF PollInit
  <2>5. RestOK
    BY <2>2, <2>3, <2>4, PollBounds, TokenTimes DEF RestOK, Pages
  <2>6. WalkInv /\ TokenOutlivesRequest
    BY <2>2, <2>3, PollBounds DEF WalkInv, TokenOutlivesRequest
  <2>7. EtagVouchesForLogged
    BY <2>4 DEF EtagVouchesForLogged
  <2>8. QED
    BY <2>1, <2>5, <2>6, <2>7, PollTypeSplit DEF PollInv
<1>2. PollInv /\ [PollNext]_pollVars => PollInv'
  <2> SUFFICES ASSUME PollInv, [PollNext]_pollVars PROVE PollInv'
    OBVIOUS
  <2>1. Flags /\ RestOK /\ WalkInv /\ TokenOutlivesRequest /\ EtagVouchesForLogged
    BY PollTypeSplit DEF PollInv
  <2>2. Flags' /\ RestOK' /\ WalkInv' /\ TokenOutlivesRequest' /\ EtagVouchesForLogged'
    BY <2>1, FlagsKept, RestKept, NextWalkInv, NextTokenOutlives, NextEtagVouches
  <2>3. (PollTypeOK <=> Flags /\ RestOK)'
    BY PollTypeSplit, PTL
  <2>4. QED
    BY <2>2, <2>3 DEF PollInv
<1>3. QED
  BY <1>1, <1>2, PTL DEF PollSpec

(* The variables of the polling client have their types. *)
THEOREM PollTypeCorrect == PollSpec => []PollTypeOK
<1>1. PollInv => PollTypeOK
  BY DEF PollInv
<1>2. QED
  BY <1>1, PollInvariance, PTL

(* No request is answered after its token has expired                        *)
(* (GitHubAppAuth.get_installation_token, GitHubClient._request).            *)
THEOREM TokenOutlives == PollSpec => []TokenOutlivesRequest
<1>1. PollInv => TokenOutlivesRequest
  BY DEF PollInv
<1>2. QED
  BY <1>1, PollInvariance, PTL

(* While nothing fails "not modified" hides nothing that is not logged       *)
(* (GitHubClient._poll_collection, which stores the ETag first).             *)
THEOREM EtagsVouch == PollSpec => []EtagVouchesForLogged
<1>1. PollInv => EtagVouchesForLogged
  BY DEF PollInv
<1>2. QED
  BY <1>1, PollInvariance, PTL
=============================================================================
