--------------------------- MODULE ServiceProofs ---------------------------
(***************************************************************************)
(* The cache of the approved synonyms, for any number of threads that search *)
(* and any times: what it serves is not older than its TTL promises.  The log *)
(* of API calls, for any queue and batch: no call is lost unaccounted for.    *)
(* API tokens, for any requests, administrators and scripts of the host: who  *)
(* is let in was so by the files of his time, and no token outlives its end.  *)
(* Answers, whatever the model says: the trust shown is earned by its         *)
(* citations.                                                                *)
(***************************************************************************)
EXTENDS SynonymCache, AccessLog, Tokens, Answering, FiniteSetTheorems, TLAPS

\* What was approved before a time is in what was read after it.
Covers(of, at) == \A v \in 0..version : born[v] < at => of >= v

\* Who has read after asking the clock has everything approved before; so has the
\* cache, unless somebody put the old groups there, who is still at it or failed.
Timely ==
  /\ \A t \in Threads : thread[t].pc = "store" => Covers(thread[t].of, thread[t].at)
  /\ cache.there /\ ~failed /\ (\A t \in Threads : ~Reloading(t)) => Covers(cache.of, cache.at)

CacheInv == CacheTypeOK /\ Timely

-----------------------------------------------------------------------------
(* The types. *)

\* What a call has in hand.
LEMMA InHand ==
  ASSUME CacheTypeOK, NEW t \in Threads
  PROVE  /\ thread[t] \in CallType
         /\ \A p \in {"judge", "keep", "load"} : [thread[t] EXCEPT !.pc = p] \in CallType
         /\ [thread[t] EXCEPT !.pc = "claim", !.prev = cache.of] \in CallType
         /\ [thread[t] EXCEPT !.pc = "store", !.of = version] \in CallType
         /\ NoCall \in CallType /\ [NoCall EXCEPT !.pc = "look", !.at = now] \in CallType
<1> DEFINE k == thread[t]
<1>1. k \in CallType /\ cache \in CacheRow
  BY DEF CacheTypeOK
<1>2. cache.of \in Versions
  BY <1>1 DEF CacheRow
<1>3. 0 \in Times /\ now \in Times /\ version \in Versions /\ -1 \in Versions
  BY CacheAssumption DEF CacheTypeOK, Times, Versions
<1> HIDE DEF k
<1>4. /\ \A p \in {"judge", "keep", "load"} : [k EXCEPT !.pc = p] \in CallType
      /\ [k EXCEPT !.pc = "claim", !.prev = cache.of] \in CallType
      /\ [k EXCEPT !.pc = "store", !.of = version] \in CallType
  BY <1>1, <1>2, <1>3 DEF CallType
<1> DEFINE n == -1
<1>5. n \in Versions /\ NoCall = [pc |-> "idle", at |-> 0, prev |-> n, of |-> n]
  BY <1>3 DEF NoCall
<1> HIDE DEF n
<1>6. NoCall \in CallType /\ [NoCall EXCEPT !.pc = "look", !.at = now] \in CallType
  BY <1>3, <1>5 DEF CallType
<1> QED
  BY <1>1, <1>4, <1>6 DEF k

\* The fields of what a call has in hand, and of the cache.
LEMMA Fields ==
  ASSUME CacheTypeOK
  PROVE  /\ \A t \in Threads : thread[t].at \in Times /\ thread[t].prev \in Versions /\ thread[t].of \in Versions
         /\ cache.there \in BOOLEAN /\ cache.at \in Times /\ cache.of \in Versions
         /\ Times \subseteq Nat /\ Versions \subseteq Int /\ \A n \in Times : n <= now
<1>1. \A t \in Threads : thread[t] \in CallType
  BY DEF CacheTypeOK
<1>2. cache \in CacheRow
  BY DEF CacheTypeOK
<1>3. Times \subseteq Nat /\ Versions \subseteq Int /\ \A n \in Times : n <= now
  BY CacheAssumption DEF CacheTypeOK, Times, Versions
<1> QED
  BY <1>1, <1>2, <1>3 DEF CallType, CacheRow

\* Later, and with more approved, the types are wider.
LEMMA Wider ==
  ASSUME Times \subseteq Times', Versions \subseteq Versions'
  PROVE  CallType \subseteq CallType' /\ CacheRow \subseteq CacheRow'
<1>1. ASSUME NEW k \in CallType PROVE k \in CallType'
  BY <1>1 DEF CallType
<1>2. ASSUME NEW k \in CacheRow PROVE k \in CacheRow'
  BY <1>2 DEF CacheRow
<1> QED
  BY <1>1, <1>2

\* Unless the clock or the approved groups go on, the types are what they were.
LEMMA SameTypes ==
  ASSUME UNCHANGED <<now, version>>
  PROVE  Times' = Times /\ CallType' = CallType /\ CacheRow' = CacheRow
BY DEF Times, Versions, CallType, CacheRow

\* A call that goes on, whatever it does to the cache, keeps the types.
LEMMA GoesOn ==
  ASSUME CacheTypeOK, NEW t \in Threads, NEW k \in CallType, Goes(t, k), UNCHANGED <<now, version, born>>,
         cache' \in CacheRow, failed' \in BOOLEAN
  PROVE  CacheTypeOK'
<1>1. thread' \in [Threads -> CallType]
  BY DEF CacheTypeOK, Goes
<1> QED
  BY <1>1, SameTypes DEF CacheTypeOK

\* Every step keeps the types.
LEMMA CacheTypes == CacheTypeOK /\ [CacheNext]_cacheVars => CacheTypeOK'
<1> SUFFICES ASSUME CacheTypeOK, [CacheNext]_cacheVars PROVE CacheTypeOK'
  OBVIOUS
<1>0. cache \in CacheRow /\ failed \in BOOLEAN
  BY DEF CacheTypeOK
<1>1. ASSUME NEW t \in Threads, Ask(t) \/ Look(t) \/ Judge(t) \/ Keep(t) \/ Load(t) PROVE CacheTypeOK'
  <2>1. PICK k \in CallType : Goes(t, k)
    BY <1>1, InHand DEF Ask, Look, Judge, Keep, Load
  <2> QED
    BY <1>0, <1>1, <2>1, GoesOn DEF Ask, Look, Judge, Keep, Load
<1>2. ASSUME NEW t \in Threads, Claim(t) \/ Store(t) \/ LoadFails(t) PROVE CacheTypeOK'
  <2>1. PICK k \in CallType : Goes(t, k)
    BY <1>2, InHand DEF Claim, Store, LoadFails
  <2>2. thread[t].at \in Times /\ thread[t].prev \in Versions /\ thread[t].of \in Versions
    BY Fields
  <2>3. /\ [there |-> TRUE, at |-> thread[t].at, of |-> thread[t].prev] \in CacheRow
        /\ [there |-> TRUE, at |-> thread[t].at, of |-> thread[t].of] \in CacheRow
    BY <2>2 DEF CacheRow
  <2> QED
    BY <1>0, <1>2, <2>1, <2>3, GoesOn DEF Claim, Store, Stored, LoadFails
<1>3. CASE Decide
  <2>1. /\ version' = version + 1 /\ version' \in 0..MaxVersion /\ version \in Nat
        /\ born' = [born EXCEPT ![version + 1] = now] /\ UNCHANGED <<now, cache, thread, failed>>
    BY <1>3, CacheAssumption DEF Decide, CacheTypeOK
  <2>2. Times' = Times /\ now \in Times
    BY <2>1 DEF Times, CacheTypeOK
  <2>3. Versions \subseteq Versions'
    BY <2>1 DEF Versions
  <2>4. born' \in [0..MaxVersion -> Times]
    BY <2>1, <2>2 DEF CacheTypeOK
  <2>5. thread \in [Threads -> CallType'] /\ cache \in CacheRow'
    BY <2>2, <2>3, Wider DEF CacheTypeOK
  <2> QED
    BY <2>1, <2>2, <2>4, <2>5 DEF CacheTypeOK
<1>4. CASE Reset
  <2>1. 0 \in Times /\ -1 \in Versions
    BY CacheAssumption DEF CacheTypeOK, Times, Versions
  <2>2. Nothing \in CacheRow
    BY <2>1 DEF Nothing, CacheRow
  <2> QED
    BY <1>4, <2>2, SameTypes DEF Reset, CacheTypeOK
<1>5. CASE TimePasses
  <2>1. now' = now + 1 /\ now \in Nat /\ UNCHANGED <<version, cache, thread, born, failed>>
    BY <1>5 DEF TimePasses, CacheTypeOK
  <2>2. Times \subseteq Times' /\ Versions' = Versions
    BY <2>1 DEF Times, Versions
  <2>3. thread \in [Threads -> CallType'] /\ cache \in CacheRow' /\ born \in [0..MaxVersion -> Times']
    BY <2>2, Wider DEF CacheTypeOK
  <2> QED
    BY <2>1, <2>3 DEF CacheTypeOK
<1>6. CASE UNCHANGED cacheVars
  BY <1>6, SameTypes DEF cacheVars, CacheTypeOK
<1> QED
  BY <1>1, <1>2, <1>3, <1>4, <1>5, <1>6 DEF CacheNext

-----------------------------------------------------------------------------
(* The cache is timely. *)

\* A call that goes on leaves the others where they are.
LEMMA OthersStay ==
  ASSUME CacheTypeOK, NEW t \in Threads, NEW k, Goes(t, k)
  PROVE  thread'[t] = k /\ \A s \in Threads : s # t => thread'[s] = thread[s]
BY DEF CacheTypeOK, Goes

\* A call that has not claimed the reload and does not now changes nothing that counts.
LEMMA LookingOn ==
  ASSUME CacheInv, NEW t \in Threads, NEW k, Goes(t, k), k.pc \notin {"claim", "load", "store"},
         ~Reloading(t), UNCHANGED <<version, cache, born, failed>>
  PROVE  Timely'
<1>1. \A s \in Threads : (Reloading(s)' <=> Reloading(s)) /\ (Reloading(s) => thread'[s] = thread[s])
  BY OthersStay DEF CacheInv, Reloading
<1> QED
  BY <1>1 DEF CacheInv, Timely, Reloading, Covers

\* Every step keeps the cache timely.
LEMMA CacheStep == CacheInv /\ [CacheNext]_cacheVars => Timely'
<1> SUFFICES ASSUME CacheInv, [CacheNext]_cacheVars PROVE Timely'
  OBVIOUS
<1> USE DEF CacheInv
<1>1. ASSUME NEW t \in Threads, Ask(t) PROVE Timely'
  BY <1>1, LookingOn DEF Ask, NoCall, Reloading
<1>2. ASSUME NEW t \in Threads, Look(t) PROVE Timely'
  <2>1. [thread[t] EXCEPT !.pc = IF cache.there THEN "judge" ELSE "keep"].pc \in {"judge", "keep"}
    BY DEF CacheTypeOK
  <2> QED
    BY <1>2, <2>1, LookingOn DEF Look, Reloading
<1>3. ASSUME NEW t \in Threads, Judge(t) PROVE Timely'
  <2>1. NoCall.pc = "idle" /\ [thread[t] EXCEPT !.pc = "keep"].pc = "keep"
    BY DEF CacheTypeOK, NoCall
  <2> QED
    BY <1>3, <2>1, LookingOn DEF Judge, Reloading
<1>4. ASSUME NEW t \in Threads, Keep(t) \/ Claim(t) PROVE Timely'
  <2>1. thread[t] \in CallType
    BY DEF CacheTypeOK
  <2>2. /\ [thread[t] EXCEPT !.pc = "claim", !.prev = cache.of].pc = "claim"
        /\ [thread[t] EXCEPT !.pc = "load"].pc = "load"
    BY <2>1 DEF CallType
  <2>3. thread'[t].pc \in {"claim", "load"} /\ \A s \in Threads : s # t => thread'[s] = thread[s]
    BY <1>4, <2>2, OthersStay DEF Keep, Claim
  <2>4. UNCHANGED <<version, born>>
    BY <1>4 DEF Keep, Claim
  <2> QED
    BY <2>3, <2>4 DEF Timely, Reloading, Covers
<1>5. ASSUME NEW t \in Threads, Load(t) PROVE Timely'
  <2> DEFINE k == [thread[t] EXCEPT !.pc = "store", !.of = version]
  <2>1. thread[t] \in CallType
    BY DEF CacheTypeOK
  <2>2. k.pc = "store" /\ k.of = version
    BY <2>1 DEF CallType
  <2>3. /\ thread'[t] = k /\ \A s \in Threads : s # t => thread'[s] = thread[s]
        /\ UNCHANGED <<version, born>>
    BY <1>5, OthersStay DEF Load
  <2> HIDE DEF k
  <2>4. \A v \in 0..version : k.of >= v
    BY <2>2, CacheAssumption DEF CacheTypeOK
  <2> QED
    BY <2>2, <2>3, <2>4 DEF Timely, Reloading, Covers
<1>6. ASSUME NEW t \in Threads, Store(t) PROVE Timely'
  <2>1. /\ thread[t].pc = "store" /\ thread'[t].pc = "idle" /\ cache'.of = thread[t].of /\ cache'.at = thread[t].at
        /\ \A s \in Threads : s # t => thread'[s] = thread[s]
        /\ UNCHANGED <<version, born>>
    BY <1>6, OthersStay DEF Store, Stored, NoCall
  <2> QED
    BY <2>1 DEF Timely, Covers
<1>7. ASSUME NEW t \in Threads, LoadFails(t) PROVE Timely'
  <2>1. /\ thread'[t].pc = "idle" /\ failed' = TRUE
        /\ \A s \in Threads : s # t => thread'[s] = thread[s]
        /\ UNCHANGED <<version, born>>
    BY <1>7, OthersStay DEF LoadFails, NoCall
  <2> QED
    BY <2>1 DEF Timely, Covers
<1>8. CASE Decide
  <2>1. /\ version' = version + 1 /\ born'[version + 1] = now /\ \A v \in 0..version : born'[v] = born[v]
        /\ UNCHANGED <<now, cache, thread, failed>>
    BY <1>8, CacheAssumption DEF Decide, CacheTypeOK
  <2>2. ASSUME NEW of \in Int, NEW at \in Int, at <= now, Covers(of, at)
        PROVE  \A v \in 0..version' : born'[v] < at => of >= v
    <3> SUFFICES ASSUME NEW v \in 0..version', born'[v] < at PROVE of >= v
      OBVIOUS
    <3>1. now \in Int /\ version \in Nat
      BY CacheAssumption DEF CacheTypeOK
    <3>2. v # version + 1
      BY <2>1, <2>2, <3>1
    <3>3. v \in 0..version
      BY <2>1, <3>1, <3>2
    <3> QED
      BY <2>1, <2>2, <3>3 DEF Covers
  <2>3. \A t \in Threads : thread[t].of \in Int /\ thread[t].at \in Int /\ thread[t].at <= now
    BY Fields
  <2>4. cache.of \in Int /\ cache.at \in Int /\ cache.at <= now
    BY Fields
  <2> QED
    BY <2>1, <2>2, <2>3, <2>4 DEF Timely, Reloading, Covers
<1>9. CASE Reset
  BY <1>9 DEF Reset, Nothing, Timely, Reloading, Covers
<1>10. CASE TimePasses \/ UNCHANGED cacheVars
  BY <1>10 DEF TimePasses, cacheVars, Timely, Reloading, Covers
<1> QED
  BY <1>1, <1>2, <1>3, <1>4, <1>5, <1>6, <1>7, <1>8, <1>9, <1>10 DEF CacheNext

\* A decision made TTL ago is served by every process that can read the database,
\* however its searches and their reloads overlap.
THEOREM CacheServes == CacheSpec => []ServedWithinTTL
<1>1. CacheInit => CacheInv
  <2> SUFFICES ASSUME CacheInit PROVE CacheInv
    OBVIOUS
  <2>1. CacheTypeOK
    <3>1. 0 \in Times /\ -1 \in Versions /\ 0 \in 0..MaxVersion
      BY CacheAssumption DEF CacheInit, Times, Versions
    <3>2. NoCall \in CallType /\ Nothing \in CacheRow
      BY <3>1 DEF CallType, CacheRow, NoCall, Nothing
    <3> QED
      BY <3>1, <3>2 DEF CacheInit, CacheTypeOK
  <2>2. Timely
    BY DEF CacheInit, Timely, Nothing, NoCall
  <2> QED
    BY <2>1, <2>2 DEF CacheInv
<1>2. CacheInv /\ [CacheNext]_cacheVars => CacheInv'
  BY CacheTypes, CacheStep DEF CacheInv
<1>3. CacheInv => ServedWithinTTL
  <2> SUFFICES ASSUME CacheInv, ~failed, Fresh, \A t \in Threads : ~Reloading(t),
                      NEW v \in 0..version, now - born[v] >= TTL
               PROVE  cache.of >= v
    BY DEF CacheInv, ServedWithinTTL
  <2>1. born[v] < cache.at
    <3>1. now \in Nat /\ cache.at \in Nat /\ born[v] \in Nat /\ now - cache.at < TTL
      BY CacheAssumption, Fields DEF CacheInv, CacheTypeOK, Fresh
    <3> QED
      BY <3>1, CacheAssumption
  <2> QED
    BY <2>1 DEF CacheInv, Timely, Covers, Fresh
<1> QED
  BY <1>1, <1>2, <1>3, PTL DEF CacheSpec

-----------------------------------------------------------------------------
(* The log of API calls. *)

\* The places, named one by one, with the calls of each.
Apart(q, h, r, o, d, l) ==
  /\ q \cap h = {} /\ q \cap r = {} /\ q \cap o = {} /\ q \cap d = {} /\ q \cap l = {}
  /\ h \cap r = {} /\ h \cap o = {} /\ h \cap d = {} /\ h \cap l = {}
  /\ r \cap o = {} /\ r \cap d = {} /\ r \cap l = {}
  /\ o \cap d = {} /\ o \cap l = {} /\ d \cap l = {}
Places(a, q, h, r, o, d, l) == a = q \union h \union r \union o \union d \union l /\ Apart(q, h, r, o, d, l)
Placed == Places(CallsOf(admitted), queue, hand, CallsOf(rows), CallsOf(old), dropped, lost) /\ mcpRows \cap CallsOf(admitted) = {}

\* What is taken is earlier than what waits, and what is in the table earlier than both.
Flows ==
  /\ \A h \in hand, q \in queue : h < q
  /\ \A r \in rows \union old, c \in hand \union queue : r.call < c

LogInv == LogTypeOK /\ Placed /\ Flows /\ InOrder

\* The six places, named one by one instead of by a function over their names.
LEMMA PlacesNamed == InOnePlace <=> Placed
<1> DEFINE D == {"queue", "hand", "rows", "old", "dropped", "lost"}
           R == CallsOf(rows)
           O == CallsOf(old)
<1>1. /\ DOMAIN Where = D
      /\ Where["queue"] = queue /\ Where["hand"] = hand /\ Where["rows"] = R
      /\ Where["old"] = O /\ Where["dropped"] = dropped /\ Where["lost"] = lost
  BY DEF Where
<1> HIDE DEF R, O
<1>2. UNION {Where[p] : p \in DOMAIN Where} = queue \union hand \union R \union O \union dropped \union lost
  BY <1>1
<1>3. (\A p, q \in DOMAIN Where : p # q => Where[p] \cap Where[q] = {}) <=> Apart(queue, hand, R, O, dropped, lost)
  <2>1. ASSUME \A p, q \in DOMAIN Where : p # q => Where[p] \cap Where[q] = {}
        PROVE  Apart(queue, hand, R, O, dropped, lost)
    BY <2>1, <1>1 DEF Apart
  <2>2. ASSUME Apart(queue, hand, R, O, dropped, lost), NEW p \in DOMAIN Where, NEW q \in DOMAIN Where, p # q
        PROVE  Where[p] \cap Where[q] = {}
    BY <2>2, <1>1 DEF Apart
  <2> QED
    BY <2>1, <2>2
<1> QED
  BY <1>2, <1>3 DEF InOnePlace, Placed, Places, R, O

\* The calls of rows, put together and dated.
LEMMA CallsOfUnion ==
  ASSUME NEW R, NEW S
  PROVE  CallsOf(R \union S) = CallsOf(R) \union CallsOf(S)
<1>1. ASSUME NEW c \in CallsOf(R \union S) PROVE c \in CallsOf(R) \union CallsOf(S)
  BY <1>1 DEF CallsOf
<1>2. ASSUME NEW c \in CallsOf(R) \union CallsOf(S) PROVE c \in CallsOf(R \union S)
  BY <1>2 DEF CallsOf
<1> QED
  BY <1>1, <1>2

\* The rows an insert adds are those it took, under the time of the insert.
LEMMA CallsOfDated ==
  ASSUME NEW S
  PROVE  CallsOf(Dated(S)) = S
<1>1. ASSUME NEW c \in CallsOf(Dated(S)) PROVE c \in S
  BY <1>1 DEF CallsOf, Dated
<1>2. ASSUME NEW c \in S PROVE c \in CallsOf(Dated(S))
  <2>1. [call |-> c, at |-> clock] \in Dated(S) /\ [call |-> c, at |-> clock].call = c
    BY <1>2 DEF Dated
  <2> QED
    BY <2>1 DEF CallsOf
<1> QED
  BY <1>1, <1>2

\* The start: nothing has been asked.
LEMMA LogStarts == LogInit => LogInv
<1> SUFFICES ASSUME LogInit PROVE LogInv
  OBVIOUS
<1>1. LogTypeOK
  BY LogAssumption DEF LogInit, LogTypeOK
<1>2. Placed
  BY DEF LogInit, Placed, Places, Apart, CallsOf
<1> QED
  BY <1>1, <1>2 DEF LogInit, LogInv, Flows, InOrder

\* A step that moves no row.
LEMMA NoRowMoves ==
  ASSUME LogInv, UNCHANGED <<calls, queue, hand, rows, mcpRows, dropped, lost, old, admitted>>,
         clock' \in Nat, clock <= clock', lastPrune' \in Nat, writer' \in {"none", "sleep", "take", "insert", "check", "prune"}
  PROVE  LogInv'
<1>1. LogTypeOK'
  BY DEF LogInv, LogTypeOK
<1>2. Placed' /\ Flows'
  BY DEF LogInv, Placed, Flows, CallsOf
<1>3. InOrder'
  <2>1. \A r \in old : r.at \in Int
    BY DEF LogInv, LogTypeOK
  <2> QED
    BY <2>1, LogAssumption DEF LogInv, LogTypeOK, InOrder
<1> QED
  BY <1>1, <1>2, <1>3 DEF LogInv

\* The fields of rows, and what is numbered.
LEMMA Numbers ==
  ASSUME LogTypeOK
  PROVE  /\ \A r \in rows \union old \union admitted : r.call \in 1..calls /\ r.at \in 0..clock /\ r = [call |-> r.call, at |-> r.at]
         /\ \A c \in queue \union hand \union dropped \union lost \union mcpRows : c \in 1..calls
         /\ CallsOf(rows) \subseteq 1..calls /\ CallsOf(old) \subseteq 1..calls /\ CallsOf(admitted) \subseteq 1..calls
         /\ clock \in Nat /\ calls \in Nat /\ 1..calls \subseteq Nat
<1>1. \A r \in rows \union old \union admitted : r.call \in 1..calls /\ r.at \in 0..clock /\ r = [call |-> r.call, at |-> r.at]
  BY DEF LogTypeOK
<1> QED
  BY <1>1 DEF LogTypeOK, CallsOf

\* What an answered request leaves: its number is new.
LEMMA AnsweredKeeps ==
  ASSUME LogInv, NEW r \in Requests, Answered(r)
  PROVE  LogInv'
<1> DEFINE c == calls + 1
           new == [call |-> c, at |-> clock]
<1>1. LogTypeOK /\ calls \in Nat /\ clock \in Nat /\ calls' = c /\ c \in Nat /\ c \notin 1..calls /\ c \in 1..c /\ 1..calls \subseteq 1..c
  BY DEF LogInv, LogTypeOK, Answered
<1>2. UNCHANGED <<clock, hand, lastPrune, rows, lost, old>>
  BY DEF Answered
<1>3. ASSUME ByMcp(r)
      PROVE  LogInv'
  <2>1. UNCHANGED <<writer, admitted, queue, dropped>>
    BY <1>3 DEF Answered, Logged, ByMcp
  <2>2. mcpRows' \subseteq mcpRows \union {c}
    BY <1>1, <1>3 DEF Answered, WriteMcp
  <2>3. LogTypeOK'
    BY <1>1, <1>2, <2>1, <2>2 DEF LogTypeOK
  <2>4. Placed'
    <3>1. CallsOf(admitted)' = CallsOf(admitted) /\ CallsOf(rows)' = CallsOf(rows) /\ CallsOf(old)' = CallsOf(old)
      BY <1>2, <2>1 DEF CallsOf
    <3>2. c \notin CallsOf(admitted)
      BY <1>1, Numbers
    <3> QED
      BY <1>2, <2>1, <2>2, <3>1, <3>2 DEF LogInv, Placed
  <2> QED
    BY <1>2, <2>1, <2>3, <2>4 DEF LogInv, Flows, InOrder
<1>4. ASSUME ~ByMcp(r), Logged(r)
      PROVE  LogInv'
  <2>1. /\ mcpRows' = mcpRows /\ admitted' = admitted \union {new}
        /\ writer' = IF writer = "none" THEN "sleep" ELSE writer
        /\ \/ queue' = queue \union {c} /\ dropped' = dropped
           \/ dropped' = dropped \union {c} /\ queue' = queue
    BY <1>1, <1>4 DEF Answered, Enqueue
  <2>2. new \in [call : 1..c, at : 0..clock]
    BY <1>1
  <2>3. LogTypeOK'
    <3>1. [call : 1..calls, at : 0..clock] \subseteq [call : 1..c, at : 0..clock]
      BY <1>1
    <3> HIDE DEF new, c
    <3> QED
      BY <1>1, <1>2, <2>1, <2>2, <3>1 DEF LogTypeOK
  <2>4. Placed'
    <3>0. Dated({c}) = {new}
      BY DEF Dated
    <3>1. CallsOf(admitted)' = CallsOf(admitted) \union {c} /\ CallsOf(rows)' = CallsOf(rows) /\ CallsOf(old)' = CallsOf(old)
      <4>1. CallsOf(admitted)' = CallsOf(admitted')
        BY DEF CallsOf
      <4>2. CallsOf(admitted') = CallsOf(admitted) \union CallsOf(Dated({c}))
        BY <2>1, <3>0, CallsOfUnion
      <4>3. CallsOf(rows)' = CallsOf(rows) /\ CallsOf(old)' = CallsOf(old)
        BY <1>2 DEF CallsOf
      <4> QED
        BY <4>1, <4>2, <4>3, CallsOfDated
    <3>2. /\ c \notin CallsOf(admitted) /\ c \notin CallsOf(rows) /\ c \notin CallsOf(old)
          /\ c \notin queue /\ c \notin hand /\ c \notin dropped /\ c \notin lost /\ c \notin mcpRows
      BY <1>1, Numbers
    <3> HIDE DEF c
    <3> QED
      BY <1>2, <2>1, <3>1, <3>2 DEF LogInv, Placed, Places, Apart
  <2>5. Flows'
    <3>1. \A h \in hand : h < c
      BY <1>1, Numbers
    <3>2. \A s \in rows \union old : s.call < c
      BY <1>1, Numbers
    <3> HIDE DEF c
    <3> QED
      BY <1>2, <2>1, <3>1, <3>2 DEF LogInv, Flows
  <2>6. InOrder'
    <3>1. \A s \in rows \union old : s.call # new.call
      BY <1>1, Numbers
    <3> HIDE DEF new
    <3> QED
      BY <1>2, <2>1, <3>1 DEF LogInv, InOrder
  <2> QED
    BY <2>3, <2>4, <2>5, <2>6 DEF LogInv
<1>5. ASSUME ~ByMcp(r), ~Logged(r)
      PROVE  LogInv'
  <2>1. UNCHANGED <<mcpRows, writer, admitted, queue, dropped>>
    BY <1>5 DEF Answered
  <2>2. LogTypeOK'
    <3>1. [call : 1..calls, at : 0..clock] \subseteq [call : 1..c, at : 0..clock]
      BY <1>1
    <3> HIDE DEF c
    <3> QED
      BY <1>1, <1>2, <2>1, <3>1 DEF LogTypeOK
  <2> QED
    BY <1>2, <2>1, <2>2 DEF LogInv, Placed, Flows, InOrder, CallsOf
<1> QED
  BY <1>3, <1>4, <1>5

\* flush() takes the first of the queue.
LEMMA TakeRowKeeps ==
  ASSUME LogInv, TakeRow
  PROVE  LogInv'
<1>1. PICK c \in queue : (\A d \in queue : c <= d) /\ queue' = queue \ {c} /\ hand' = hand \union {c}
  BY DEF TakeRow
<1>2. UNCHANGED <<clock, calls, writer, lastPrune, rows, mcpRows, dropped, lost, old, admitted>>
  BY DEF TakeRow
<1>3. LogTypeOK'
  BY <1>1, <1>2 DEF LogInv, LogTypeOK
<1>4. Placed'
  <2>1. CallsOf(admitted)' = CallsOf(admitted) /\ CallsOf(rows)' = CallsOf(rows) /\ CallsOf(old)' = CallsOf(old)
    BY <1>2 DEF CallsOf
  <2> QED
    BY <1>1, <1>2, <2>1 DEF LogInv, Placed, Places, Apart
<1>5. Flows'
  <2>1. \A d \in queue : d \in Nat
    BY Numbers DEF LogInv
  <2> QED
    BY <1>1, <1>2, <2>1 DEF LogInv, Flows
<1> QED
  BY <1>2, <1>3, <1>4, <1>5 DEF LogInv, InOrder

\* The rows taken enter the table with the time of the insert, which is the latest.
LEMMA StoreKeeps ==
  ASSUME LogInv, rows' = rows \union Dated(hand), hand' = {},
         UNCHANGED <<clock, calls, queue, lastPrune, mcpRows, dropped, lost, old, admitted>>,
         writer' \in {"none", "sleep", "take", "insert", "check", "prune"}
  PROVE  LogInv'
<1>1. LogTypeOK /\ clock \in Nat /\ calls \in Nat /\ hand \subseteq 1..calls
  BY DEF LogInv, LogTypeOK
<1>2. \A r \in Dated(hand) : r.at = clock /\ r.call \in hand /\ r \in [call : 1..calls, at : 0..clock]
  BY <1>1 DEF Dated
<1>3. LogTypeOK'
  BY <1>1, <1>2 DEF LogTypeOK
<1>4. Placed'
  <2>1. /\ CallsOf(rows)' = CallsOf(rows) \union hand
        /\ CallsOf(admitted)' = CallsOf(admitted) /\ CallsOf(old)' = CallsOf(old)
    <3>1. CallsOf(rows)' = CallsOf(rows')
      BY DEF CallsOf
    <3>2. CallsOf(rows') = CallsOf(rows) \union hand
      BY CallsOfUnion, CallsOfDated
    <3>3. CallsOf(admitted)' = CallsOf(admitted) /\ CallsOf(old)' = CallsOf(old)
      BY DEF CallsOf
    <3> QED
      BY <3>1, <3>2, <3>3
  <2> QED
    BY <2>1 DEF LogInv, Placed, Places, Apart
<1>5. Flows'
  BY <1>2 DEF LogInv, Flows
<1>6. InOrder'
  <2>1. \A r, s \in (rows \union old)' : r.call <= s.call => r.at <= s.at
    <3> SUFFICES ASSUME NEW r \in (rows \union old)', NEW s \in (rows \union old)', r.call <= s.call
                 PROVE  r.at <= s.at
      OBVIOUS
    <3>1. CASE s \in Dated(hand)
      BY <3>1, <1>1, <1>2, Numbers
    <3>2. CASE s \in rows \union old /\ r \in Dated(hand)
      <4>1. s.call < r.call /\ s.call \in Nat /\ r.call \in Nat
        BY <3>2, <1>1, <1>2, Numbers DEF LogInv, Flows
      <4> QED
        BY <4>1
    <3>3. CASE s \in rows \union old /\ r \in rows \union old
      BY <3>3 DEF LogInv, InOrder
    <3> QED
      BY <3>1, <3>2, <3>3
  <2>2. \A r \in (rows \union old)', a \in admitted' : r.call = a.call => a.at <= r.at
    BY <1>1, <1>2, Numbers DEF LogInv, InOrder
  <2> QED
    BY <2>1, <2>2 DEF LogInv, InOrder
<1> QED
  BY <1>3, <1>4, <1>5, <1>6 DEF LogInv

\* What is lost leaves the queue or the hand.
LEMMA LoseKeeps ==
  ASSUME LogInv, UNCHANGED <<clock, calls, rows, mcpRows, dropped, old, admitted>>,
         hand' = {}, (lost' = lost \union hand /\ queue' = queue) \/ (lost' = lost \union queue \union hand /\ queue' = {}),
         lastPrune' \in Nat, writer' \in {"none", "sleep", "take", "insert", "check", "prune"}
  PROVE  LogInv'
<1>1. LogTypeOK'
  BY DEF LogInv, LogTypeOK
<1>2. Placed'
  <2>1. CallsOf(admitted)' = CallsOf(admitted) /\ CallsOf(rows)' = CallsOf(rows) /\ CallsOf(old)' = CallsOf(old)
    BY DEF CallsOf
  <2> QED
    BY <2>1 DEF LogInv, Placed, Places, Apart
<1>3. Flows' /\ InOrder'
  BY DEF LogInv, Flows, InOrder
<1> QED
  BY <1>1, <1>2, <1>3 DEF LogInv

\* What is pruned has expired.
LEMMA PruneKeeps ==
  ASSUME LogInv, Prune, rows' = rows \ Expired, old' = old \union Expired
  PROVE  LogInv'
<1>1. UNCHANGED <<clock, calls, queue, hand, lastPrune, mcpRows, dropped, lost, admitted>> /\ writer' = "sleep"
  BY DEF Prune
<1>2. Expired \subseteq rows /\ rows' \union old' = rows \union old
  BY DEF Expired
<1>3. LogTypeOK'
  BY <1>1, <1>2 DEF LogInv, LogTypeOK
<1>4. Placed'
  <2>1. CallsOf(rows)' \union CallsOf(old)' = CallsOf(rows) \union CallsOf(old) /\ CallsOf(admitted)' = CallsOf(admitted)
    BY <1>1, <1>2 DEF CallsOf
  <2>2. CallsOf(rows)' \cap CallsOf(old)' = {}
    <3> SUFFICES ASSUME NEW r \in rows \ Expired, NEW s \in old \union Expired, r.call = s.call
                 PROVE  FALSE
      BY DEF CallsOf
    <3>1. CASE s \in old
      BY <3>1 DEF LogInv, Placed, Places, Apart, CallsOf
    <3>2. CASE s \in Expired
      <4>1. r \in rows /\ s \in rows /\ r.at <= s.at /\ s.at <= r.at /\ r.at \in Int /\ s.at \in Int
        BY <3>2, Numbers DEF LogInv, InOrder, Expired
      <4>2. r = s
        BY <4>1, Numbers DEF LogInv
      <4> QED
        BY <3>2, <4>2
    <3> QED
      BY <3>1, <3>2
  <2> QED
    BY <1>1, <2>1, <2>2 DEF LogInv, Placed, Places, Apart
<1>5. Flows'
  BY <1>1, <1>2 DEF LogInv, Flows
<1>6. InOrder'
  <2>1. \A r \in Expired : clock - r.at > Retention
    BY Numbers, LogAssumption DEF LogInv, Expired
  <2> QED
    BY <1>1, <1>2, <2>1 DEF LogInv, InOrder
<1> QED
  BY <1>3, <1>4, <1>5, <1>6 DEF LogInv

\* Every step keeps the invariant: the requests, the writer's steps, the crash.
LEMMA LogStep ==
  ASSUME LogInv, [LogNext]_logVars
  PROVE  LogInv'
<1> DEFINE Pcs == {"none", "sleep", "take", "insert", "check", "prune"}
<1>1. clock \in Nat /\ lastPrune \in Nat /\ writer \in Pcs
  BY DEF LogInv, LogTypeOK
<1>2. ASSUME NEW r \in Requests, Answered(r) PROVE LogInv'
  BY <1>2, AnsweredKeeps
<1>3. CASE Wake
  BY <1>1, <1>3, NoRowMoves DEF Wake
<1>4. CASE TakeRow
  BY <1>4, TakeRowKeeps
<1>5. CASE TakenAll
  BY <1>1, <1>5, NoRowMoves DEF TakenAll
<1>6. CASE Insert
  BY <1>6, StoreKeeps DEF Insert
<1>7. CASE InsertFails
  <2>1. CASE rows' = rows \union Dated(hand) /\ UNCHANGED lost
    BY <1>7, <2>1, StoreKeeps DEF InsertFails, AfterFailure
  <2>2. CASE lost' = lost \union hand /\ UNCHANGED rows
    <3>1. UNCHANGED <<clock, calls, rows, mcpRows, dropped, old, admitted, queue, lastPrune>> /\ hand' = {} /\ writer' = "check"
      BY <1>7, <2>2 DEF InsertFails, AfterFailure
    <3> QED
      BY <1>1, <2>2, <3>1, LoseKeeps
  <2> QED
    BY <1>7, <2>1, <2>2 DEF InsertFails
<1>8. CASE CheckPrune
  BY <1>1, <1>8, NoRowMoves DEF CheckPrune
<1>9. CASE Prune
  <2>1. CASE UNCHANGED <<rows, old>>
    BY <1>1, <1>9, <2>1, NoRowMoves DEF Prune
  <2> QED
    BY <1>9, <2>1, PruneKeeps DEF Prune
<1>10. CASE Crash
  BY <1>1, <1>10, LoseKeeps DEF Crash
<1>11. CASE Tick
  BY <1>1, <1>11, NoRowMoves DEF Tick
<1>12. CASE UNCHANGED logVars
  BY <1>1, <1>12, NoRowMoves DEF logVars
<1> QED
  BY <1>2, <1>3, <1>4, <1>5, <1>6, <1>7, <1>8, <1>9, <1>10, <1>11, <1>12 DEF LogNext

\* audit/api_access.py, for any queue, batch and times: an answered request that is to
\* be logged is in one place and one only, waiting, stored, pruned, dropped or lost; the
\* table has the rows in the order the requests ended, and prunes only what is too old.
THEOREM EveryCallKept == LogSpec => []RowsKept
<1>1. LogInv => RowsKept
  BY PlacesNamed DEF LogInv, RowsKept
<1> QED
  BY LogStarts, LogStep, <1>1, PTL DEF LogSpec

-----------------------------------------------------------------------------
(* API tokens. *)

File   == [ver : Nat \ {0}, ok : BOOLEAN, toks : [Names -> 0..MaxTokens]]
Key    == [conf : Nat, adm : Nat]
Steps == {"rest", "stat", "enter", "build", "told", "wait", "write", "reply"}
Hand   == [pc : Steps, name : Names \union {""}, what : {"", "issue", "rotate", "revoke"}, tok : 0..MaxTokens, key : Key,
           table : SUBSET Tokens, seen : [Names -> 0..MaxTokens], was : SUBSET {"accepted", "refused"}]
KeyTypes ==
  /\ conf \in File /\ adm \in File /\ known \in [key : Key, table : SUBSET Tokens]
  /\ busy \in Askers \union {Nobody} /\ flock \in Admins \union {Nobody}
  /\ act \in [Procs -> Hand] /\ fresh \in 0..MaxTokens
  /\ given \subseteq Tokens /\ ended \subseteq Tokens /\ hosted \subseteq Names
\* Who stands where, and holds what there.
Stands ==
  /\ \A q \in Askers : act[q].pc \in {"rest", "stat", "enter", "build", "told"} /\ (At(q, "build") <=> busy = q)
  /\ \A w \in Admins : /\ act[w].pc \in {"rest", "wait", "write", "reply"} /\ (At(w, "write") <=> flock = w)
                       /\ ~At(w, "rest") => act[w].name \in Names
  /\ \A h \in Hosts : act[h].pc \in {"rest", "write"} /\ (At(h, "write") => act[h].name \in Names)
\* The tokens of the page, which the other file never holds.
Paged == Held(adm) \union ended
PagedApart ==
  /\ adm.ok /\ given \subseteq Paged /\ Held(adm) \intersect ended = {}
  /\ \A m, n \in Names : adm.toks[m] = adm.toks[n] => m = n \/ adm.toks[m] = Gone
  /\ \A n \in Names : conf.toks[n] \notin Paged
  /\ \A h \in Hosts : At(h, "write") => \A n \in Names : act[h].seen[n] \notin Paged
  /\ \A w \in Admins : At(w, "write") => act[w].seen = adm.toks
  /\ \A w \in Admins : At(w, "reply") => act[w].tok = Gone \/ act[w].tok \in Paged
\* No token is anywhere before it was made.
Made ==
  /\ \A n \in Names : conf.toks[n] <= fresh /\ adm.toks[n] <= fresh
  /\ \A t \in ended : t <= fresh
  /\ \A h \in Hosts : At(h, "write") => \A n \in Names : act[h].seen[n] <= fresh
Brought == \A q \in Askers : act[q].tok <= fresh /\ (At(q, "build") => \A t \in act[q].table : t <= fresh)
\* OneHome, also of a name whose token the page is about to write.
HomeBefore == conf.ok => \A n \in Names : conf.toks[n] # Gone /\ (adm.toks[n] # Gone \/ Writing(n)) => n \in hosted
\* The table holds what the files under its key say; and where a request will be served
\* from it, what it says of the request's token was so since the request came.
Asking == {"stat", "enter", "build"}
KnownRight ==
  /\ known.key.conf <= conf.ver /\ known.key.adm <= adm.ver
  /\ known.key.conf = conf.ver => \A t \in Tokens \ Paged : t \in known.table <=> t \in Contributes(conf)
  /\ known.key.adm = adm.ver => \A t \in Paged : t \in known.table <=> t \in Contributes(adm)
AskedRight == \A q \in Askers :
  /\ act[q].pc \in Asking => act[q].key.conf \in 1..conf.ver /\ Valid(conf, adm, act[q].tok) \in act[q].was
  /\ act[q].pc \in {"enter", "build"} => act[q].key.adm \in 1..adm.ver
  /\ act[q].pc \in {"stat", "enter"} /\ act[q].key.conf = known.key.conf /\ act[q].tok \notin Paged => Verdict(known.table, act[q].tok) \in act[q].was
  /\ At(q, "enter") /\ act[q].key.adm = known.key.adm /\ act[q].tok \in Paged => Verdict(known.table, act[q].tok) \in act[q].was
\* The same of the half of a table that somebody has read.
HalfRight == \A p \in Askers : At(p, "build") =>
  /\ act[p].table \intersect Paged = {}
  /\ act[p].key.conf = conf.ver => act[p].table = Contributes(conf)
  /\ \A q \in Askers : act[q].pc \in Asking /\ act[q].key.conf = act[p].key.conf /\ act[q].tok \notin Paged =>
       Verdict(act[p].table, act[q].tok) \in act[q].was
KeyInv == KeyTypes /\ Stands /\ PagedApart /\ Made /\ Brought /\ HomeBefore /\ KnownRight /\ AskedRight /\ HalfRight /\ AnswersCurrent

-----------------------------------------------------------------------------
(* What the steps do to those who act. *)

\* One is put elsewhere, the others stay.
LEMMA Puts ==
  ASSUME act \in [Procs -> Hand], NEW p \in Procs, NEW h \in Hand, act' = [act EXCEPT ![p] = h]
  PROVE  act' \in [Procs -> Hand] /\ act'[p] = h /\ \A r \in Procs : r # p => act'[r] = act[r]
  OBVIOUS

\* The hand of somebody at rest.
LEMMA RestIsHand ==
  Rest \in Hand /\ NoKey \in Key /\ NoTokens \in [Names -> 0..MaxTokens]
<1>1. NoKey \in Key
  BY DEF NoKey, Key
<1>2. NoTokens \in [Names -> 0..MaxTokens]
  BY TokensAssumption DEF NoTokens, Gone
<1>3. 0 \in 0..MaxTokens
  BY TokensAssumption, SMTT(30)
<1> QED
  BY <1>1, <1>2, <1>3 DEF Rest, Hand, Steps, Gone

\* What a request in hand may become.
LEMMA HandMoves ==
  ASSUME NEW k \in Hand
  PROVE  /\ \A pc \in Steps, key \in Key, table \in SUBSET Tokens : [k EXCEPT !.pc = pc, !.table = table, !.key = key] \in Hand
         /\ \A pc \in Steps, key \in Key : [k EXCEPT !.pc = pc, !.key = key] \in Hand
         /\ \A pc \in Steps, table \in SUBSET Tokens : [k EXCEPT !.pc = pc, !.table = table] \in Hand
         /\ \A pc \in Steps, seen \in [Names -> 0..MaxTokens] : [k EXCEPT !.pc = pc, !.seen = seen] \in Hand
         /\ \A pc \in Steps, t \in 0..MaxTokens : [k EXCEPT !.pc = pc, !.tok = t] \in Hand
         /\ \A v \in {"accepted", "refused"} : [k EXCEPT !.was = @ \union {v}] \in Hand
<1> USE DEF Hand
<1>1. \A pc \in Steps, key \in Key, table \in SUBSET Tokens : [k EXCEPT !.pc = pc, !.table = table, !.key = key] \in Hand
  OBVIOUS
<1>2. \A pc \in Steps, key \in Key : [k EXCEPT !.pc = pc, !.key = key] \in Hand
  OBVIOUS
<1>3. \A pc \in Steps, table \in SUBSET Tokens : [k EXCEPT !.pc = pc, !.table = table] \in Hand
  OBVIOUS
<1>4. \A pc \in Steps, seen \in [Names -> 0..MaxTokens] : [k EXCEPT !.pc = pc, !.seen = seen] \in Hand
  OBVIOUS
<1>5. \A pc \in Steps, t \in 0..MaxTokens : [k EXCEPT !.pc = pc, !.tok = t] \in Hand
  OBVIOUS
<1>6. \A v \in {"accepted", "refused"} : [k EXCEPT !.was = @ \union {v}] \in Hand
  OBVIOUS
<1> QED
  BY <1>1, <1>2, <1>3, <1>4, <1>5, <1>6

\* The requests that watch the files see what is said now, and stay where they are.
Sees(p, k, verdict) ==
  /\ k.pc = act[p].pc /\ k.tok = act[p].tok /\ k.key = act[p].key /\ k.table = act[p].table
  /\ act[p].was \subseteq k.was /\ (~At(p, "rest") => verdict \in k.was)
LEMMA Watching ==
  ASSUME act \in [Procs -> Hand], NEW c, NEW a
  PROVE  /\ Watched(c, a) \in [Procs -> Hand]
         /\ \A p \in Procs : p \notin Askers => Watched(c, a)[p] = act[p]
         /\ \A p \in Askers : Sees(p, Watched(c, a)[p], Valid(c, a, act[p].tok))
<1>1. \A p \in Procs : Valid(c, a, act[p].tok) \in {"accepted", "refused"}
  BY DEF Valid, Verdict
<1>2. \A p \in Procs : [act[p] EXCEPT !.was = @ \union {Valid(c, a, act[p].tok)}] \in Hand
  BY <1>1, HandMoves
<1>3. Watched(c, a) \in [Procs -> Hand]
  BY <1>2 DEF Watched
<1>4. \A p \in Procs : p \notin Askers => Watched(c, a)[p] = act[p]
  BY DEF Watched
<1>5. ASSUME NEW p \in Askers
      PROVE  Sees(p, Watched(c, a)[p], Valid(c, a, act[p].tok))
  <2>1. p \in Procs /\ act[p] \in Hand
    BY DEF Procs
  <2>2. CASE At(p, "rest")
    BY <2>1, <2>2 DEF Watched, Sees
  <2>3. CASE ~At(p, "rest")
    <3>1. Watched(c, a)[p] = [act[p] EXCEPT !.was = @ \union {Valid(c, a, act[p].tok)}]
      BY <2>1, <2>3 DEF Watched
    <3> DEFINE v == Valid(c, a, act[p].tok)
    <3> HIDE DEF v
    <3>2. Watched(c, a)[p] = [act[p] EXCEPT !.was = @ \union {v}]
      BY <3>1 DEF v
    <3> DEFINE k == act[p]
               h == Watched(c, a)[p]
    <3> HIDE DEF k, h
    <3>3. k \in Hand /\ h = [k EXCEPT !.was = @ \union {v}]
      BY <2>1, <3>2 DEF k, h
    <3>4. h.pc = k.pc /\ h.tok = k.tok /\ h.key = k.key /\ h.table = k.table /\ h.was = k.was \union {v}
      BY <3>3 DEF Hand
    <3>5. Sees(p, Watched(c, a)[p], v)
      BY <3>4 DEF Sees, k, h
    <3> QED
      BY <3>5 DEF v
  <2> QED
    BY <2>2, <2>3
<1> QED
  BY <1>3, <1>4, <1>5

-----------------------------------------------------------------------------
(* Requests, while files are replaced and while they are not. *)

\* A token of the page is judged by the page's file, any other by config/auth.json.
LEMMA JudgedByOne ==
  ASSUME PagedApart, NEW t
  PROVE  /\ t \notin Paged => t \notin Contributes(adm) /\ Valid(conf, adm, t) = Verdict(Contributes(conf), t)
         /\ t \in Paged => t \notin Contributes(conf) /\ Valid(conf, adm, t) = Verdict(Contributes(adm), t)
<1>1. t \in Contributes(adm) => t \in Paged
  BY DEF Contributes, Paged
<1>2. t \in Contributes(conf) => t \notin Paged
  BY DEF PagedApart, Contributes, Held
<1> QED
  BY <1>1, <1>2 DEF Valid, Verdict

\* While files, table and requests rest, all that was right stays right.
LEMMA RequestsRest ==
  ASSUME KnownRight, AskedRight, HalfRight, AnswersCurrent,
         UNCHANGED <<conf, adm, known, ended>>, \A q \in Askers : act'[q] = act[q]
  PROVE  KnownRight' /\ AskedRight' /\ HalfRight' /\ AnswersCurrent'
<1>1. Paged' = Paged
  BY DEF Paged, Held
<1>2. KnownRight'
  BY <1>1 DEF KnownRight, Contributes, Held
<1>3. AskedRight'
  BY <1>1 DEF AskedRight, Valid, Contributes, Held, At
<1>4. HalfRight'
  BY <1>1 DEF HalfRight, Contributes, Held, At
<1>5. AnswersCurrent'
  BY DEF AnswersCurrent, At
<1> QED
  BY <1>2, <1>3, <1>4, <1>5

\* One of the files is replaced; what becomes a token of the page is a new one.
Replacing ==
  /\ \/ conf'.ver = conf.ver + 1 /\ adm' = adm /\ ended' = ended
     \/ adm'.ver = adm.ver + 1 /\ conf' = conf
  /\ \A t \in 0..fresh : t \in Paged' <=> t \in Paged
  /\ Paged \subseteq Paged'
LEMMA RequestsWatch ==
  ASSUME KeyTypes, Brought, KnownRight, AskedRight, HalfRight, AnswersCurrent, Replacing, known' = known,
         \A q \in Askers : Sees(q, act'[q], Valid(conf', adm', act[q].tok))
  PROVE  KnownRight' /\ AskedRight' /\ HalfRight' /\ AnswersCurrent'
<1>1. conf.ver \in Nat /\ adm.ver \in Nat /\ known.key.conf \in Nat /\ known.key.adm \in Nat /\ fresh \in Nat
  BY TokensAssumption DEF KeyTypes, File, Key
<1>2. \A q \in Askers : act[q] \in Hand
  BY DEF KeyTypes, Procs
<1>3. \A q \in Askers : act[q].key.conf \in Nat /\ act[q].key.adm \in Nat /\ act[q].tok \in 0..fresh
  <2>1. \A q \in Askers : act[q].key \in Key /\ act[q].tok \in 0..MaxTokens
    BY <1>2 DEF Hand
  <2>2. \A q \in Askers : act[q].tok \in Nat /\ act[q].tok <= fresh
    BY <2>1, TokensAssumption DEF Brought
  <2> QED
    BY <1>1, <2>1, <2>2 DEF Key
<1>4. \A q \in Askers : act[q].tok \in Paged' <=> act[q].tok \in Paged
  BY <1>3 DEF Replacing
<1>5. \/ conf'.ver = conf.ver + 1 /\ adm' = adm /\ Paged' = Paged /\ Contributes(adm)' = Contributes(adm)
      \/ adm'.ver = adm.ver + 1 /\ conf' = conf /\ Contributes(conf)' = Contributes(conf)
  BY DEF Replacing, Paged, Held, Contributes
<1>6. \A q \in Askers : /\ act'[q].pc = act[q].pc /\ act'[q].tok = act[q].tok /\ act'[q].key = act[q].key /\ act'[q].table = act[q].table
                        /\ act[q].was \subseteq act'[q].was
                        /\ ~At(q, "rest") => Valid(conf', adm', act[q].tok) \in act'[q].was
  BY DEF Sees
<1>7. KnownRight'
  <2>1. known'.key.conf <= conf'.ver /\ known'.key.adm <= adm'.ver
    BY <1>1, <1>5 DEF KnownRight
  <2>2. known'.key.conf = conf'.ver => \A t \in Tokens \ Paged' : t \in known'.table <=> t \in Contributes(conf)'
    BY <1>1, <1>5 DEF KnownRight, Replacing
  <2>3. known'.key.adm = adm'.ver => \A t \in Paged' : t \in known'.table <=> t \in Contributes(adm)'
    BY <1>1, <1>5 DEF KnownRight
  <2> QED
    BY <2>1, <2>2, <2>3 DEF KnownRight
<1>8. ASSUME NEW q \in Askers
      PROVE  /\ act'[q].pc \in Asking => act'[q].key.conf \in 1..conf'.ver /\ Valid(conf', adm', act'[q].tok) \in act'[q].was
             /\ act'[q].pc \in {"enter", "build"} => act'[q].key.adm \in 1..adm'.ver
             /\ act'[q].pc \in {"stat", "enter"} /\ act'[q].key.conf = known'.key.conf /\ act'[q].tok \notin Paged' => Verdict(known'.table, act'[q].tok) \in act'[q].was
             /\ act'[q].pc = "enter" /\ act'[q].key.adm = known'.key.adm /\ act'[q].tok \in Paged' => Verdict(known'.table, act'[q].tok) \in act'[q].was
  <2>1. act'[q].pc \in Asking => act'[q].key.conf \in 1..conf'.ver
    BY <1>1, <1>3, <1>5, <1>6 DEF AskedRight
  <2>2. act'[q].pc \in Asking => Valid(conf', adm', act'[q].tok) \in act'[q].was
    BY <1>6 DEF Asking, At
  <2>3. act'[q].pc \in {"enter", "build"} => act'[q].key.adm \in 1..adm'.ver
    BY <1>1, <1>3, <1>5, <1>6 DEF AskedRight
  <2>4. act'[q].pc \in {"stat", "enter"} /\ act'[q].key.conf = known'.key.conf /\ act'[q].tok \notin Paged' => Verdict(known'.table, act'[q].tok) \in act'[q].was
    BY <1>4, <1>6 DEF AskedRight
  <2>5. act'[q].pc = "enter" /\ act'[q].key.adm = known'.key.adm /\ act'[q].tok \in Paged' => Verdict(known'.table, act'[q].tok) \in act'[q].was
    BY <1>4, <1>6 DEF AskedRight, At
  <2> QED
    BY <2>1, <2>2, <2>3, <2>4, <2>5
<1>9. AskedRight'
  BY <1>8 DEF AskedRight, At
<1>10. HalfRight'
  <2> SUFFICES ASSUME NEW p \in Askers, At(p, "build")'
               PROVE  /\ act'[p].table \intersect Paged' = {}
                      /\ act'[p].key.conf = conf'.ver => act'[p].table = Contributes(conf)'
                      /\ \A q \in Askers : act'[q].pc \in Asking /\ act'[q].key.conf = act'[p].key.conf /\ act'[q].tok \notin Paged' =>
                           Verdict(act'[p].table, act'[q].tok) \in act'[q].was
    BY DEF HalfRight
  <2>1. At(p, "build")
    BY <1>6 DEF At
  <2>2. \A t \in act[p].table : t \in 0..fresh
    <3>1. act[p].table \subseteq Tokens
      BY <1>2 DEF Hand
    <3> QED
      BY <1>1, <2>1, <3>1, TokensAssumption DEF Brought, Tokens
  <2>3. act'[p].table \intersect Paged' = {}
    BY <1>6, <2>1, <2>2 DEF HalfRight, Replacing
  <2>4. act'[p].key.conf = conf'.ver => act'[p].table = Contributes(conf)'
    <3>1. act[p].key.conf \in 1..conf.ver
      BY <2>1 DEF AskedRight, Asking, At
    <3> QED
      BY <1>1, <1>5, <1>6, <2>1, <3>1 DEF HalfRight
  <2>5. \A q \in Askers : act'[q].pc \in Asking /\ act'[q].key.conf = act'[p].key.conf /\ act'[q].tok \notin Paged' =>
                            Verdict(act'[p].table, act'[q].tok) \in act'[q].was
    BY <1>4, <1>6, <2>1 DEF HalfRight
  <2> QED
    BY <2>3, <2>4, <2>5
<1>11. AnswersCurrent'
  BY <1>6 DEF AnswersCurrent, At
<1> QED
  BY <1>7, <1>9, <1>10, <1>11

-----------------------------------------------------------------------------
(* A request moves: the types, and who stands where. *)

Others(p) == \A r \in Procs : r # p => act'[r] = act[r]
PresentDoes(q, t) ==
  /\ act' \in [Procs -> Hand] /\ Others(q) /\ act'[q].pc = "stat" /\ act'[q].tok = t /\ act'[q].key.conf = conf.ver
  /\ act'[q].was = {Valid(conf, adm, t)}
LEMMA Presents ==
  ASSUME KeyTypes, NEW q \in Askers, NEW t \in Tokens, Present(q, t)
  PROVE  PresentDoes(q, t)
<1> DEFINE v == Valid(conf, adm, t)
           key == [NoKey EXCEPT !.conf = conf.ver]
           h == [Rest EXCEPT !.pc = "stat", !.tok = t, !.key = key, !.was = {v}]
<1>1. v \in {"accepted", "refused"}
  BY DEF Valid, Verdict
<1>2. key \in Key /\ key.conf = conf.ver
  BY DEF NoKey, Key, KeyTypes, File
<1>3. act' = [act EXCEPT ![q] = h]
  BY DEF Present
<1>4. t \in 0..MaxTokens
  BY TokensAssumption DEF Tokens
<1> HIDE DEF v, key
<1>5. h \in Hand
  BY <1>1, <1>2, <1>4, RestIsHand DEF Hand, Steps, Rest
<1>6. h.pc = "stat" /\ h.tok = t /\ h.key = key /\ h.was = {v}
  BY DEF Rest
<1>7. q \in Procs /\ act \in [Procs -> Hand]
  BY DEF Procs, KeyTypes
<1> HIDE DEF h
<1>8. act' \in [Procs -> Hand] /\ act'[q] = h /\ Others(q)
  BY <1>3, <1>5, <1>7, Puts DEF Others
<1> QED
  BY <1>2, <1>6, <1>8 DEF PresentDoes, v

StatDoes(q) ==
  /\ act' \in [Procs -> Hand] /\ Others(q) /\ act'[q].pc = "enter" /\ act'[q].tok = act[q].tok
  /\ act'[q].key.conf = act[q].key.conf /\ act'[q].key.adm = adm.ver /\ act'[q].was = act[q].was
LEMMA Stats ==
  ASSUME KeyTypes, NEW q \in Askers, StatAdmin(q)
  PROVE  StatDoes(q)
<1> DEFINE k == act[q]
           key == [k.key EXCEPT !.adm = adm.ver]
           h == [k EXCEPT !.pc = "enter", !.key = key]
<1>1. q \in Procs /\ act \in [Procs -> Hand] /\ k \in Hand
  BY DEF Procs, KeyTypes
<1>2. key \in Key /\ key.conf = k.key.conf /\ key.adm = adm.ver
  BY <1>1 DEF Key, KeyTypes, File, Hand
<1>3. act' = [act EXCEPT ![q] = h]
  BY <1>1 DEF StatAdmin
<1> HIDE DEF k, key
<1>4. h \in Hand
  BY <1>1, <1>2, HandMoves DEF Steps
<1>5. h.pc = "enter" /\ h.tok = k.tok /\ h.key = key /\ h.was = k.was
  BY <1>1 DEF Hand
<1> HIDE DEF h
<1>6. act' \in [Procs -> Hand] /\ act'[q] = h /\ Others(q)
  BY <1>1, <1>3, <1>4, Puts DEF Others
<1> QED
  BY <1>2, <1>5, <1>6 DEF StatDoes, k

AnswerDoes(q, table) ==
  /\ act' \in [Procs -> Hand] /\ Others(q) /\ act'[q].pc = "told" /\ act'[q].tok = act[q].tok
  /\ act'[q].table = table \intersect {act[q].tok} /\ act'[q].was = act[q].was
LEMMA Answers ==
  ASSUME KeyTypes, NEW q \in Askers, NEW table \in SUBSET Tokens, Answer(q, table)
  PROVE  AnswerDoes(q, table)
<1> DEFINE k == act[q]
           part == table \intersect {k.tok}
           h == [k EXCEPT !.pc = "told", !.table = part, !.key = NoKey]
<1>1. q \in Procs /\ act \in [Procs -> Hand] /\ k \in Hand /\ part \in SUBSET Tokens
  BY DEF Procs, KeyTypes
<1>2. act' = [act EXCEPT ![q] = h]
  BY <1>1 DEF Answer
<1> HIDE DEF k, part
<1>3. h \in Hand
  BY <1>1, RestIsHand, HandMoves DEF Steps
<1>4. h.pc = "told" /\ h.tok = k.tok /\ h.table = part /\ h.was = k.was
  BY <1>1 DEF Hand
<1> HIDE DEF h
<1>5. act' \in [Procs -> Hand] /\ act'[q] = h /\ Others(q)
  BY <1>1, <1>2, <1>3, Puts DEF Others
<1> QED
  BY <1>4, <1>5 DEF AnswerDoes, k, part

BuildDoes(q) ==
  /\ act' \in [Procs -> Hand] /\ Others(q) /\ act'[q].pc = "build" /\ act'[q].tok = act[q].tok
  /\ act'[q].table = Contributes(conf) /\ act'[q].key = act[q].key /\ act'[q].was = act[q].was
LEMMA HeldAreTokens ==
  ASSUME KeyTypes
  PROVE  /\ Held(conf) \subseteq Tokens /\ Held(adm) \subseteq Tokens
         /\ Contributes(conf) \subseteq Held(conf) /\ Contributes(adm) \subseteq Held(adm)
<1>1. \A n \in Names : conf.toks[n] \in 0..MaxTokens /\ adm.toks[n] \in 0..MaxTokens
  BY DEF KeyTypes, File
<1>2. Held(conf) \subseteq Tokens /\ Held(adm) \subseteq Tokens
  BY <1>1, TokensAssumption DEF Held, Tokens, Gone
<1> QED
  BY <1>2 DEF Contributes
LEMMA Enters ==
  ASSUME KeyTypes, NEW q \in Askers, Enter(q)
  PROVE  \/ known.key = act[q].key /\ AnswerDoes(q, known.table) /\ busy' = busy
         \/ busy' = q /\ BuildDoes(q)
<1>1. CASE known.key = act[q].key
  <2>1. known.table \in SUBSET Tokens
    BY DEF KeyTypes
  <2>2. Answer(q, known.table) /\ busy' = busy
    BY <1>1 DEF Enter
  <2>3. AnswerDoes(q, known.table)
    BY <2>1, <2>2, Answers
  <2> QED
    BY <1>1, <2>2, <2>3
<1>2. CASE known.key # act[q].key
  <2> DEFINE k == act[q]
             table == Contributes(conf)
             h == [k EXCEPT !.pc = "build", !.table = table]
  <2>1. q \in Procs /\ act \in [Procs -> Hand] /\ k \in Hand /\ table \in SUBSET Tokens
    BY HeldAreTokens DEF Procs, KeyTypes
  <2>2. act' = [act EXCEPT ![q] = h] /\ busy' = q
    BY <1>2, <2>1 DEF Enter
  <2> HIDE DEF k, table
  <2>3. h \in Hand
    BY <2>1, HandMoves DEF Steps
  <2>4. h.pc = "build" /\ h.tok = k.tok /\ h.table = table /\ h.key = k.key /\ h.was = k.was
    BY <2>1 DEF Hand
  <2> HIDE DEF h
  <2>5. act' \in [Procs -> Hand] /\ act'[q] = h /\ Others(q)
    BY <2>1, <2>2, <2>3, Puts DEF Others
  <2> QED
    BY <2>2, <2>4, <2>5 DEF BuildDoes, k, table
<1> QED
  BY <1>1, <1>2

-----------------------------------------------------------------------------
(* A request moves: what is right stays right. *)

\* What the invariant says of one request, one table and one reader.
Served(q, k, table) ==      \* q, with k in hand, may be served from the table under that key
  /\ act[q].pc \in {"stat", "enter"} /\ act[q].key.conf = k.conf /\ act[q].tok \notin Paged => Verdict(table, act[q].tok) \in act[q].was
  /\ At(q, "enter") /\ act[q].key.adm = k.adm /\ act[q].tok \in Paged => Verdict(table, act[q].tok) \in act[q].was
Timed(q) ==
  /\ act[q].pc \in Asking => act[q].key.conf \in 1..conf.ver /\ Valid(conf, adm, act[q].tok) \in act[q].was
  /\ act[q].pc \in {"enter", "build"} => act[q].key.adm \in 1..adm.ver
Reads(p, q) ==
  act[q].pc \in Asking /\ act[q].key.conf = act[p].key.conf /\ act[q].tok \notin Paged => Verdict(act[p].table, act[q].tok) \in act[q].was
Half(p) == act[p].table \intersect Paged = {} /\ (act[p].key.conf = conf.ver => act[p].table = Contributes(conf))
LEMMA InParts ==
  /\ AskedRight <=> \A q \in Askers : Timed(q) /\ Served(q, known.key, known.table)
  /\ HalfRight <=> \A p \in Askers : At(p, "build") => Half(p) /\ \A q \in Askers : Reads(p, q)
<1>1. AskedRight <=> \A q \in Askers : Timed(q) /\ Served(q, known.key, known.table)
  BY DEF AskedRight, Timed, Served
<1>2. HalfRight <=> \A p \in Askers : At(p, "build") => Half(p) /\ \A q \in Askers : Reads(p, q)
  BY DEF HalfRight, Half, Reads
<1> QED
  BY <1>1, <1>2

\* Of those who do not move the same is true as before.
LEMMA OthersAsBefore ==
  ASSUME UNCHANGED <<conf, adm, ended>>, NEW p \in Askers, act'[p] = act[p]
  PROVE  /\ Timed(p)' <=> Timed(p)
         /\ \A k, table : Served(p, k, table)' <=> Served(p, k, table)
         /\ Half(p)' <=> Half(p)
         /\ \A r \in Askers : act'[r] = act[r] => (Reads(p, r)' <=> Reads(p, r))
<1>1. Paged' = Paged /\ Contributes(conf)' = Contributes(conf) /\ Contributes(adm)' = Contributes(adm)
  BY DEF Paged, Held, Contributes
<1>2. Timed(p)' <=> Timed(p)
  BY <1>1 DEF Timed, Valid
<1>3. \A k, table : Served(p, k, table)' <=> Served(p, k, table)
  BY <1>1 DEF Served, At
<1>4. Half(p)' <=> Half(p)
  BY <1>1 DEF Half
<1>5. \A r \in Askers : act'[r] = act[r] => (Reads(p, r)' <=> Reads(p, r))
  BY <1>1 DEF Reads
<1> QED
  BY <1>2, <1>3, <1>4, <1>5

\* One request moves, and does not start to read: it is enough to look at that one.
LEMMA OneMoves ==
  ASSUME AskedRight, HalfRight, UNCHANGED <<conf, adm, ended, known>>,
         NEW q \in Askers, \A p \in Askers : p # q => act'[p] = act[p],
         Timed(q)', Served(q, known.key, known.table)', act'[q].pc # "build",
         \A p \in Askers : p # q /\ At(p, "build") => Reads(p, q)'
  PROVE  AskedRight' /\ HalfRight'
<1>1. AskedRight'
  <2>1. \A p \in Askers : p # q => Timed(p)' /\ Served(p, known.key, known.table)'
    BY OthersAsBefore, InParts
  <2>2. \A p \in Askers : Timed(p)' /\ Served(p, known.key, known.table)'
    BY <2>1
  <2> QED
    BY <2>2 DEF AskedRight, Timed, Served
<1>2. HalfRight'
  <2> SUFFICES ASSUME NEW p \in Askers, At(p, "build")'
               PROVE  Half(p)' /\ \A r \in Askers : Reads(p, r)'
    BY DEF HalfRight, Half, Reads
  <2>1. p # q /\ act'[p] = act[p] /\ At(p, "build")
    BY DEF At
  <2>2. Half(p)' /\ \A r \in Askers : r # q => Reads(p, r)'
    BY <2>1, OthersAsBefore, InParts
  <2> QED
    BY <2>1, <2>2
<1> QED
  BY <1>1, <1>2

\* Who comes, and looks at the first file, is right about what it says.
LEMMA PresentRight ==
  ASSUME KeyTypes, PagedApart, KnownRight, AskedRight, HalfRight, AnswersCurrent, NEW q \in Askers, NEW t \in Tokens, Present(q, t)
  PROVE  KnownRight' /\ AskedRight' /\ HalfRight' /\ AnswersCurrent'
<1>1. PresentDoes(q, t)
  BY Presents
<1>2. UNCHANGED <<conf, adm, ended, known>>
  BY DEF Present, files, hist
<1>3. Paged' = Paged /\ Contributes(conf)' = Contributes(conf) /\ Contributes(adm)' = Contributes(adm)
  BY <1>2 DEF Paged, Held, Contributes
<1>4. \A p \in Askers : p # q => act'[p] = act[p]
  BY <1>1 DEF PresentDoes, Others, Procs
<1>5. act'[q].pc = "stat" /\ act'[q].tok = t /\ act'[q].key.conf = conf.ver /\ act'[q].was = {Valid(conf, adm, t)}
  BY <1>1 DEF PresentDoes
<1>6. KnownRight'
  BY <1>2, <1>3 DEF KnownRight
<1>7. Timed(q)'
  <2>1. conf.ver \in 1..conf.ver
    BY DEF KeyTypes, File
  <2> QED
    BY <1>2, <1>3, <1>5, <2>1 DEF Timed, Valid
<1>8. t \notin Paged => Valid(conf, adm, t) = Verdict(Contributes(conf), t)
  BY JudgedByOne
<1>9. Served(q, known.key, known.table)'
  <2>1. known.key.conf = conf.ver /\ t \notin Paged => Verdict(known.table, t) = Verdict(Contributes(conf), t)
    BY DEF KnownRight, Verdict
  <2> QED
    BY <1>2, <1>3, <1>5, <1>8, <2>1 DEF Served, At
<1>10. ASSUME NEW p \in Askers, p # q, At(p, "build")
       PROVE  Reads(p, q)'
  <2>1. Half(p) /\ act'[p] = act[p]
    BY <1>4, <1>10, InParts
  <2> QED
    BY <1>3, <1>5, <1>8, <2>1 DEF Reads, Half
<1>11. AskedRight' /\ HalfRight'
  BY <1>2, <1>4, <1>5, <1>7, <1>9, <1>10, OneMoves
<1>12. AnswersCurrent'
  BY <1>4, <1>5 DEF AnswersCurrent, At
<1> QED
  BY <1>6, <1>11, <1>12

\* Who looks at the second file finds it as it is.
LEMMA StatRight ==
  ASSUME KeyTypes, PagedApart, KnownRight, AskedRight, HalfRight, AnswersCurrent, NEW q \in Askers, StatAdmin(q)
  PROVE  KnownRight' /\ AskedRight' /\ HalfRight' /\ AnswersCurrent'
<1>1. StatDoes(q)
  BY Stats
<1>2. UNCHANGED <<conf, adm, ended, known>> /\ act[q].pc = "stat"
  BY DEF StatAdmin, files, hist, At
<1>3. Paged' = Paged /\ Contributes(conf)' = Contributes(conf) /\ Contributes(adm)' = Contributes(adm)
  BY <1>2 DEF Paged, Held, Contributes
<1>4. \A p \in Askers : p # q => act'[p] = act[p]
  BY <1>1 DEF StatDoes, Others, Procs
<1>5. act'[q].pc = "enter" /\ act'[q].tok = act[q].tok /\ act'[q].key.conf = act[q].key.conf /\ act'[q].key.adm = adm.ver /\ act'[q].was = act[q].was
  BY <1>1 DEF StatDoes
<1>6. KnownRight'
  BY <1>2, <1>3 DEF KnownRight
<1>7. Timed(q) /\ Served(q, known.key, known.table)
  BY InParts
<1>8. Timed(q)'
  <2>1. adm.ver \in 1..adm.ver
    BY DEF KeyTypes, File
  <2> QED
    BY <1>2, <1>3, <1>5, <1>7, <2>1 DEF Timed, Valid, Asking
<1>9. Served(q, known.key, known.table)'
  <2>1. act[q].tok \in Paged => Valid(conf, adm, act[q].tok) = Verdict(Contributes(adm), act[q].tok)
    BY JudgedByOne
  <2>2. known.key.adm = adm.ver /\ act[q].tok \in Paged => Verdict(known.table, act[q].tok) = Verdict(Contributes(adm), act[q].tok)
    BY DEF KnownRight, Verdict
  <2>3. Valid(conf, adm, act[q].tok) \in act[q].was
    BY <1>2, <1>7 DEF Timed, Asking
  <2> QED
    BY <1>2, <1>3, <1>5, <1>7, <2>1, <2>2, <2>3 DEF Served, At
<1>10. ASSUME NEW p \in Askers, p # q, At(p, "build")
       PROVE  Reads(p, q)'
  <2>1. Reads(p, q) /\ act'[p] = act[p]
    BY <1>4, <1>10, InParts
  <2> QED
    BY <1>2, <1>3, <1>5, <2>1 DEF Reads, Asking
<1>11. AskedRight' /\ HalfRight'
  BY <1>2, <1>4, <1>5, <1>8, <1>9, <1>10, OneMoves
<1>12. AnswersCurrent'
  BY <1>4, <1>5 DEF AnswersCurrent, At
<1> QED
  BY <1>6, <1>11, <1>12

\* Who is answered is told what a table says of the token it came with.
LEMMA ToldRight ==
  ASSUME AskedRight, HalfRight, AnswersCurrent, UNCHANGED <<conf, adm, ended, known>>,
         NEW q \in Askers, NEW table, AnswerDoes(q, table), Verdict(table, act[q].tok) \in act[q].was
  PROVE  AskedRight' /\ HalfRight' /\ AnswersCurrent'
<1>1. \A p \in Askers : p # q => act'[p] = act[p]
  BY DEF AnswerDoes, Others, Procs
<1>2. act'[q].pc = "told" /\ act'[q].tok = act[q].tok /\ act'[q].table = table \intersect {act[q].tok} /\ act'[q].was = act[q].was
  BY DEF AnswerDoes
<1>3. Timed(q)' /\ Served(q, known.key, known.table)' /\ \A p \in Askers : Reads(p, q)'
  BY <1>2 DEF Timed, Served, Reads, Asking, At
<1>4. AskedRight' /\ HalfRight'
  BY <1>1, <1>2, <1>3, OneMoves
<1>5. Verdict(act'[q].table, act'[q].tok) \in act'[q].was
  BY <1>2 DEF Verdict
<1>6. AnswersCurrent'
  BY <1>1, <1>2, <1>5 DEF AnswersCurrent, At
<1> QED
  BY <1>4, <1>6

\* Who finds the table under its own key is served from it; who does not reads the first
\* file again, and nobody else is reading.
LEMMA EnterRight ==
  ASSUME KeyTypes, Stands, PagedApart, KnownRight, AskedRight, HalfRight, AnswersCurrent, NEW q \in Askers, Enter(q)
  PROVE  KnownRight' /\ AskedRight' /\ HalfRight' /\ AnswersCurrent'
<1>1. UNCHANGED <<conf, adm, ended, known>> /\ act[q].pc = "enter" /\ busy = Nobody
  BY DEF Enter, files, hist, At
<1>2. Paged' = Paged /\ Contributes(conf)' = Contributes(conf) /\ Contributes(adm)' = Contributes(adm)
  BY <1>1 DEF Paged, Held, Contributes
<1>3. KnownRight'
  BY <1>1, <1>2 DEF KnownRight
<1>4. Timed(q) /\ Served(q, known.key, known.table)
  BY InParts
<1>5. CASE known.key = act[q].key /\ AnswerDoes(q, known.table)
  <2>1. Verdict(known.table, act[q].tok) \in act[q].was
    BY <1>1, <1>4, <1>5 DEF Served, At
  <2> QED
    BY <1>1, <1>3, <1>5, <2>1, ToldRight
<1>6. CASE BuildDoes(q)
  <2>1. \A p \in Askers : p # q => act'[p] = act[p]
    BY <1>6 DEF BuildDoes, Others, Procs
  <2>2. act'[q].pc = "build" /\ act'[q].tok = act[q].tok /\ act'[q].table = Contributes(conf) /\ act'[q].key = act[q].key /\ act'[q].was = act[q].was
    BY <1>6 DEF BuildDoes
  <2>3. Timed(q)' /\ Served(q, known.key, known.table)'
    BY <1>1, <1>2, <1>4, <2>2 DEF Timed, Served, Valid, Asking, At
  <2>4. AskedRight'
    <3>1. \A p \in Askers : p # q => Timed(p)' /\ Served(p, known.key, known.table)'
      BY <1>1, <2>1, OthersAsBefore, InParts
    <3>2. \A p \in Askers : Timed(p)' /\ Served(p, known.key, known.table)'
      BY <2>3, <3>1
    <3> QED
      BY <3>2 DEF AskedRight, Timed, Served
  <2>5. \A p \in Askers : At(p, "build")' => p = q
    <3>1. \A p \in Askers : ~At(p, "build")
      BY <1>1, TokensAssumption DEF Stands, Procs
    <3> QED
      BY <2>1, <3>1 DEF At
  <2>6. Half(q)'
    <3>1. Contributes(conf) \intersect Paged = {}
      BY JudgedByOne
    <3> QED
      BY <1>2, <2>2, <3>1 DEF Half
  <2>7. ASSUME NEW r \in Askers
        PROVE  Reads(q, r)'
    <3>1. act'[r].pc \in Asking => act[r].pc \in Asking /\ act'[r].tok = act[r].tok /\ act'[r].was = act[r].was
      BY <1>1, <2>1, <2>2 DEF Asking
    <3>2. act[r].pc \in Asking => Valid(conf, adm, act[r].tok) \in act[r].was
      BY InParts DEF Timed
    <3>3. act[r].tok \notin Paged => Valid(conf, adm, act[r].tok) = Verdict(Contributes(conf), act[r].tok)
      BY JudgedByOne
    <3> QED
      BY <1>2, <2>2, <3>1, <3>2, <3>3 DEF Reads
  <2>8. HalfRight'
    BY <2>5, <2>6, <2>7 DEF HalfRight, Half, Reads
  <2>9. AnswersCurrent'
    BY <2>1, <2>2 DEF AnswersCurrent, At
  <2> QED
    BY <1>3, <2>4, <2>8, <2>9
<1> QED
  BY <1>5, <1>6, Enters

\* The finished table says of the page's tokens what the page's file says now, and of all
\* others what was read before; both are right under the key the reader came with.
LEMMA BuildRight ==
  ASSUME KeyTypes, Stands, PagedApart, KnownRight, AskedRight, HalfRight, AnswersCurrent, NEW q \in Askers, Build(q)
  PROVE  KnownRight' /\ AskedRight' /\ HalfRight' /\ AnswersCurrent'
<1> DEFINE table == act[q].table \union Contributes(adm)
<1>1. UNCHANGED <<conf, adm, ended>> /\ act[q].pc = "build" /\ busy = q
  BY DEF Build, Stands, files, hist, At
<1>2. known'.key = act[q].key /\ known'.table = table /\ Answer(q, table)
  BY DEF Build, Keyed
<1>3. q \in Procs /\ act[q] \in Hand
  BY DEF KeyTypes, Procs
<1>4. AnswerDoes(q, table)
  <2>1. table \in SUBSET Tokens
    BY <1>3, HeldAreTokens DEF Hand
  <2> QED
    BY <1>2, <2>1, Answers
<1>5. Half(q) /\ Timed(q) /\ \A r \in Askers : Reads(q, r)
  BY <1>1, InParts DEF At
<1>6. Paged' = Paged /\ Contributes(conf)' = Contributes(conf) /\ Contributes(adm)' = Contributes(adm)
  BY <1>1 DEF Paged, Held, Contributes
<1>7. \A t : /\ t \notin Paged => (t \in table <=> t \in act[q].table) /\ Verdict(table, t) = Verdict(act[q].table, t)
             /\ t \in Paged => (t \in table <=> t \in Contributes(adm)) /\ Verdict(table, t) = Verdict(Contributes(adm), t)
  BY <1>5, JudgedByOne DEF Half, Verdict
<1> HIDE DEF table
<1>8. KnownRight'
  <2>1. known'.key.conf <= conf.ver /\ known'.key.adm <= adm.ver
    <3>1. act[q].key.conf \in 1..conf.ver /\ act[q].key.adm \in 1..adm.ver
      BY <1>1, <1>5 DEF Timed, Asking
    <3>2. conf.ver \in Nat /\ adm.ver \in Nat
      BY DEF KeyTypes, File
    <3> QED
      BY <1>2, <3>1, <3>2
  <2>2. known'.key.conf = conf.ver => \A t \in Tokens \ Paged : t \in known'.table <=> t \in Contributes(conf)
    BY <1>2, <1>5, <1>7 DEF Half
  <2>3. \A t \in Paged : t \in known'.table <=> t \in Contributes(adm)
    BY <1>2, <1>7
  <2> QED
    BY <1>1, <1>6, <2>1, <2>2, <2>3 DEF KnownRight
<1>9. \A p \in Askers : p # q => act'[p] = act[p] /\ ~At(p, "build")
  BY <1>1, <1>4 DEF AnswerDoes, Others, Procs, Stands
<1>10. act'[q].pc = "told" /\ act'[q].tok = act[q].tok /\ act'[q].table = table \intersect {act[q].tok} /\ act'[q].was = act[q].was
  BY <1>4 DEF AnswerDoes
<1>11. \A r \in Askers : /\ act[r].tok \in Paged => Valid(conf, adm, act[r].tok) = Verdict(table, act[r].tok)
                         /\ act[r].pc \in Asking => Valid(conf, adm, act[r].tok) \in act[r].was
  BY <1>7, JudgedByOne, InParts DEF Timed
<1>12. AskedRight'
  <2>1. ASSUME NEW r \in Askers, r # q
        PROVE  Timed(r)' /\ Served(r, known.key, known.table)'
    <3>1. Timed(r)'
      BY <1>1, <1>9, <2>1, OthersAsBefore, InParts
    <3>2. act[r].pc \in {"stat", "enter"} /\ act[r].key.conf = act[q].key.conf /\ act[r].tok \notin Paged => Verdict(table, act[r].tok) \in act[r].was
      BY <1>5, <1>7 DEF Reads, Asking
    <3>3. At(r, "enter") /\ act[r].tok \in Paged => Verdict(table, act[r].tok) \in act[r].was
      BY <1>11 DEF Asking, At
    <3> QED
      BY <1>2, <1>6, <1>9, <2>1, <3>1, <3>2, <3>3 DEF Served, At
  <2>2. Timed(q)' /\ Served(q, known.key, known.table)'
    BY <1>10 DEF Timed, Served, Asking, At
  <2>3. \A r \in Askers : Timed(r)' /\ Served(r, known.key, known.table)'
    BY <2>1, <2>2
  <2> QED
    BY <2>3 DEF AskedRight, Timed, Served
<1>13. HalfRight'
  BY <1>9, <1>10 DEF HalfRight, At
<1>14. AnswersCurrent'
  <2>1. Verdict(table, act[q].tok) \in act[q].was
    BY <1>1, <1>5, <1>7, <1>11 DEF Reads, Asking
  <2>2. Verdict(act'[q].table, act'[q].tok) \in act'[q].was
    BY <1>10, <2>1 DEF Verdict
  <2> QED
    BY <1>9, <2>2 DEF AnswersCurrent, At
<1> QED
  BY <1>8, <1>12, <1>13, <1>14

\* Who leaves takes nothing along.
LEMMA LeaveRight ==
  ASSUME KeyTypes, KnownRight, AskedRight, HalfRight, AnswersCurrent, NEW q \in Askers, Leave(q)
  PROVE  KnownRight' /\ AskedRight' /\ HalfRight' /\ AnswersCurrent'
<1>1. UNCHANGED <<conf, adm, ended, known>> /\ act' = [act EXCEPT ![q] = Rest]
  BY DEF Leave, files, hist
<1>2. act'[q] = Rest /\ \A p \in Askers : p # q => act'[p] = act[p]
  BY <1>1, RestIsHand, Puts DEF KeyTypes, Procs
<1>3. act'[q].pc = "rest"
  <2>1. Rest.pc = "rest"
    BY DEF Rest
  <2> QED
    BY <1>2, <2>1
<1>4. Paged' = Paged /\ Contributes(conf)' = Contributes(conf) /\ Contributes(adm)' = Contributes(adm)
  BY <1>1 DEF Paged, Held, Contributes
<1>5. KnownRight'
  BY <1>1, <1>4 DEF KnownRight
<1>6. Timed(q)' /\ Served(q, known.key, known.table)' /\ \A p \in Askers : Reads(p, q)'
  BY <1>3 DEF Timed, Served, Reads, Asking, At
<1>7. AskedRight' /\ HalfRight'
  BY <1>1, <1>2, <1>3, <1>6, OneMoves
<1>8. AnswersCurrent'
  BY <1>2, <1>3 DEF AnswersCurrent, At
<1> QED
  BY <1>5, <1>7, <1>8

-----------------------------------------------------------------------------
(* A request moves: the page and the host rest. *)

Page == PagedApart /\ Made /\ HomeBefore
LEMMA PageRests ==
  ASSUME Page, UNCHANGED <<conf, adm, flock, fresh, given, ended, hosted>>,
         \A p \in Admins \union Hosts : act'[p] = act[p]
  PROVE  Page'
<1>1. Paged' = Paged /\ Held(adm)' = Held(adm)
  BY DEF Paged, Held
<1>2. PagedApart'
  BY <1>1 DEF Page, PagedApart, At
<1>3. Made'
  BY DEF Page, Made, At
<1>4. \A n : Writing(n)' <=> Writing(n)
  BY DEF Writing
<1>5. HomeBefore'
  BY <1>4 DEF Page, HomeBefore
<1> QED
  BY <1>2, <1>3, <1>5 DEF Page

\* Where one request moves, and is where it says.
LEMMA RequestMoves ==
  ASSUME KeyTypes, Stands, Brought, Page, NEW q \in Askers, act' \in [Procs -> Hand], Others(q),
         UNCHANGED <<conf, adm, flock, fresh, given, ended, hosted>>,
         busy' \in Askers \union {Nobody}, \A p \in Askers : p # q => (busy' = p <=> busy = p),
         act'[q].pc \in {"rest", "stat", "enter", "build", "told"}, At(q, "build")' <=> busy' = q,
         act'[q].tok <= fresh, At(q, "build")' => \A t \in act'[q].table : t <= fresh,
         known' \in [key : Key, table : SUBSET Tokens]
  PROVE  KeyTypes' /\ Stands' /\ Brought' /\ Page'
<1>1. \A p \in Admins \union Hosts : p \in Procs /\ p # q
  BY TokensAssumption DEF Procs
<1>2. \A p \in Admins \union Hosts : act'[p] = act[p]
  BY <1>1 DEF Others
<1>3. \A p \in Askers : p # q => act'[p] = act[p]
  BY DEF Others, Procs
<1>4. KeyTypes'
  BY DEF KeyTypes
<1>5. Stands'
  BY <1>2, <1>3 DEF Stands, At
<1>6. Brought'
  BY <1>3 DEF Brought, At
<1>7. Page'
  BY <1>2, PageRests
<1> QED
  BY <1>4, <1>5, <1>6, <1>7

Right == KnownRight /\ AskedRight /\ HalfRight /\ AnswersCurrent
LEMMA PresentKeeps ==
  ASSUME KeyTypes, Stands, Brought, Page, Right, NEW q \in Askers, NEW t \in Tokens, Present(q, t)
  PROVE  KeyTypes' /\ Stands' /\ Brought' /\ Page' /\ Right'
<1>1. Right'
  BY PresentRight DEF Right, Page
<1>2. PresentDoes(q, t)
  BY Presents
<1>3. UNCHANGED <<conf, adm, flock, fresh, given, ended, hosted, busy, known>> /\ t <= fresh /\ ~At(q, "build")
  BY DEF Present, files, hist, At
<1>4. act'[q].pc = "stat" /\ act'[q].tok = t /\ act' \in [Procs -> Hand] /\ Others(q)
  BY <1>2 DEF PresentDoes
<1>5. busy' # q
  BY <1>3 DEF Stands
<1>6. busy \in Askers \union {Nobody} /\ known \in [key : Key, table : SUBSET Tokens]
  BY DEF KeyTypes
<1> QED
  BY <1>1, <1>3, <1>4, <1>5, <1>6, RequestMoves DEF At

LEMMA StatKeeps ==
  ASSUME KeyTypes, Stands, Brought, Page, Right, NEW q \in Askers, StatAdmin(q)
  PROVE  KeyTypes' /\ Stands' /\ Brought' /\ Page' /\ Right'
<1>1. Right'
  BY StatRight DEF Right, Page
<1>2. StatDoes(q)
  BY Stats
<1>3. UNCHANGED <<conf, adm, flock, fresh, given, ended, hosted, busy, known>> /\ ~At(q, "build")
  BY DEF StatAdmin, files, hist, At
<1>4. act'[q].pc = "enter" /\ act'[q].tok = act[q].tok /\ act' \in [Procs -> Hand] /\ Others(q)
  BY <1>2 DEF StatDoes
<1>5. busy' # q
  BY <1>3 DEF Stands
<1>6. busy \in Askers \union {Nobody} /\ known \in [key : Key, table : SUBSET Tokens] /\ act[q].tok <= fresh
  BY DEF KeyTypes, Brought
<1> QED
  BY <1>1, <1>3, <1>4, <1>5, <1>6, RequestMoves DEF At

LEMMA EnterKeeps ==
  ASSUME KeyTypes, Stands, Brought, Page, Right, NEW q \in Askers, Enter(q)
  PROVE  KeyTypes' /\ Stands' /\ Brought' /\ Page' /\ Right'
<1>1. Right'
  BY EnterRight DEF Right, Page
<1>2. UNCHANGED <<conf, adm, flock, fresh, given, ended, hosted, known>> /\ busy = Nobody
  BY DEF Enter, files, hist
<1>3. known \in [key : Key, table : SUBSET Tokens] /\ act[q].tok <= fresh /\ q # Nobody /\ \A p \in Askers : p # Nobody
  BY TokensAssumption DEF KeyTypes, Brought, Procs
<1>4. CASE AnswerDoes(q, known.table) /\ busy' = busy
  <2>1. act'[q].pc = "told" /\ act'[q].tok = act[q].tok /\ act' \in [Procs -> Hand] /\ Others(q)
    BY <1>4 DEF AnswerDoes
  <2> QED
    BY <1>1, <1>2, <1>3, <1>4, <2>1, RequestMoves DEF At
<1>5. CASE BuildDoes(q) /\ busy' = q
  <2>1. act'[q].pc = "build" /\ act'[q].tok = act[q].tok /\ act'[q].table = Contributes(conf) /\ act' \in [Procs -> Hand] /\ Others(q)
    BY <1>5 DEF BuildDoes
  <2>2. \A t \in Contributes(conf) : t <= fresh
    BY DEF Contributes, Held, Page, Made
  <2> QED
    BY <1>1, <1>2, <1>3, <1>5, <2>1, <2>2, RequestMoves DEF At
<1> QED
  BY <1>4, <1>5, Enters

LEMMA BuildKeeps ==
  ASSUME KeyTypes, Stands, Brought, Page, Right, NEW q \in Askers, Build(q)
  PROVE  KeyTypes' /\ Stands' /\ Brought' /\ Page' /\ Right'
<1> DEFINE table == act[q].table \union Contributes(adm)
<1>1. Right'
  BY BuildRight DEF Right, Page
<1>2. UNCHANGED <<conf, adm, flock, fresh, given, ended, hosted>> /\ busy = q /\ busy' = Nobody
  BY DEF Build, Stands, files, hist, At
<1>3. act[q] \in Hand /\ act[q].tok <= fresh /\ \A p \in Askers : p # Nobody
  BY TokensAssumption DEF KeyTypes, Brought, Procs
<1>4. table \in SUBSET Tokens /\ act[q].key \in Key
  BY <1>3, HeldAreTokens DEF Hand
<1>5. known' \in [key : Key, table : SUBSET Tokens]
  <2>1. known' = [key |-> act[q].key, table |-> table]
    BY DEF Build, Keyed
  <2> QED
    BY <1>4, <2>1
<1>6. AnswerDoes(q, table)
  <2>1. Answer(q, table)
    BY DEF Build
  <2> QED
    BY <1>4, <2>1, Answers
<1>7. act'[q].pc = "told" /\ act'[q].tok = act[q].tok /\ act' \in [Procs -> Hand] /\ Others(q)
  BY <1>6 DEF AnswerDoes
<1> QED
  BY <1>1, <1>2, <1>3, <1>5, <1>7, RequestMoves DEF At

LEMMA LeaveKeeps ==
  ASSUME KeyTypes, Stands, Brought, Page, Right, NEW q \in Askers, Leave(q)
  PROVE  KeyTypes' /\ Stands' /\ Brought' /\ Page' /\ Right'
<1>1. Right'
  BY LeaveRight DEF Right
<1>2. UNCHANGED <<conf, adm, flock, fresh, given, ended, hosted, busy, known>> /\ act' = [act EXCEPT ![q] = Rest] /\ ~At(q, "build")
  BY DEF Leave, files, hist, At
<1>3. act' \in [Procs -> Hand] /\ act'[q] = Rest /\ Others(q)
  BY <1>2, RestIsHand, Puts DEF KeyTypes, Procs, Others
<1>4. Rest.pc = "rest" /\ Rest.tok = 0
  BY DEF Rest, Gone
<1>5. busy' # q
  BY <1>2 DEF Stands
<1>6. busy \in Askers \union {Nobody} /\ known \in [key : Key, table : SUBSET Tokens] /\ 0 <= fresh
  BY TokensAssumption DEF KeyTypes
<1> QED
  BY <1>1, <1>2, <1>3, <1>4, <1>5, <1>6, RequestMoves DEF At

-----------------------------------------------------------------------------
(* The page and the host, while no file is replaced. *)

LEMMA OneOtherMoves ==
  ASSUME KeyTypes, Stands, Brought, Right, NEW p \in Admins \union Hosts, act' \in [Procs -> Hand], Others(p),
         UNCHANGED <<conf, adm, known, busy, fresh, ended>>,
         given' \subseteq Tokens, hosted' \subseteq Names, flock' \in Admins \union {Nobody},
         \A w \in Admins : w # p => (flock' = w <=> flock = w),
         p \in Admins => act'[p].pc \in {"rest", "wait", "write", "reply"} /\ (act'[p].pc = "write" <=> flock' = p)
                         /\ (act'[p].pc # "rest" => act'[p].name \in Names),
         p \in Hosts => act'[p].pc \in {"rest", "write"} /\ (act'[p].pc = "write" => act'[p].name \in Names)
  PROVE  KeyTypes' /\ Stands' /\ Brought' /\ Right'
<1>1. \A q \in Askers : q \in Procs /\ q # p
  BY TokensAssumption DEF Procs
<1>2. \A q \in Askers : act'[q] = act[q]
  BY <1>1 DEF Others
<1>3. \A r \in Admins \union Hosts : r # p => act'[r] = act[r]
  BY DEF Others, Procs
<1>4. KeyTypes'
  BY DEF KeyTypes
<1>5. Stands'
  <2>1. \A q \in Askers : act'[q].pc \in {"rest", "stat", "enter", "build", "told"} /\ (act'[q].pc = "build" <=> busy' = q)
    BY <1>2 DEF Stands, At
  <2>2. \A w \in Admins : /\ act'[w].pc \in {"rest", "wait", "write", "reply"} /\ (act'[w].pc = "write" <=> flock' = w)
                          /\ act'[w].pc # "rest" => act'[w].name \in Names
    BY <1>3 DEF Stands, At
  <2>3. \A h \in Hosts : act'[h].pc \in {"rest", "write"} /\ (act'[h].pc = "write" => act'[h].name \in Names)
    BY <1>3 DEF Stands, At
  <2> QED
    BY <2>1, <2>2, <2>3 DEF Stands, At
<1>6. Brought'
  BY <1>2 DEF Brought, At
<1>7. Right'
  BY <1>2, RequestsRest DEF Right
<1> QED
  BY <1>4, <1>5, <1>6, <1>7

LEMMA ChangeKeeps ==
  ASSUME KeyTypes, Stands, Brought, Page, Right, NEW w \in Admins, NEW n \in Names, NEW by,
         NEW what \in {"issue", "rotate", "revoke"}, Change(w, n, what, by)
  PROVE  KeyTypes' /\ Stands' /\ Brought' /\ Page' /\ Right'
<1> DEFINE h == [Rest EXCEPT !.pc = "wait", !.name = n, !.what = what]
<1>1. h \in Hand /\ h.pc = "wait" /\ h.name = n
  BY RestIsHand DEF Hand, Steps, Rest
<1>2. act' = [act EXCEPT ![w] = h] /\ UNCHANGED <<conf, adm, known, busy, flock, fresh, given, ended, hosted>> /\ At(w, "rest")
  BY DEF Change, files, hist
<1>3. w \in Procs /\ act \in [Procs -> Hand]
  BY DEF KeyTypes, Procs
<1> HIDE DEF h
<1>4. act' \in [Procs -> Hand] /\ act'[w] = h /\ Others(w)
  BY <1>1, <1>2, <1>3, Puts DEF Others
<1>5. w \notin Hosts /\ flock # w
  BY <1>2, TokensAssumption DEF Stands, At
<1>6. given \subseteq Tokens /\ hosted \subseteq Names /\ flock \in Admins \union {Nobody}
  BY DEF KeyTypes
<1>7. KeyTypes' /\ Stands' /\ Brought' /\ Right'
  BY <1>1, <1>2, <1>4, <1>5, <1>6, OneOtherMoves
<1>8. Page'
  <2>1. Paged' = Paged /\ Held(adm)' = Held(adm)
    BY <1>2 DEF Paged, Held
  <2>2. \A p \in Admins \union Hosts : act'[p] = act[p] \/ act'[p].pc = "wait"
    BY <1>1, <1>4 DEF Others, Procs
  <2>3. PagedApart'
    BY <1>2, <2>1, <2>2 DEF Page, PagedApart, At
  <2>4. Made'
    BY <1>2, <2>2 DEF Page, Made, At
  <2>5. \A m : Writing(m)' => Writing(m)
    BY <1>2, <1>4, <1>5 DEF Writing, Others, Procs
  <2>6. HomeBefore'
    BY <1>2, <2>5 DEF Page, HomeBefore
  <2> QED
    BY <2>3, <2>4, <2>6 DEF Page
<1> QED
  BY <1>7, <1>8

\* Somebody is at rest again; what was begun is left.
LEMMA Retires ==
  ASSUME KeyTypes, Stands, Brought, Page, Right, NEW p \in Admins \union Hosts, act' = [act EXCEPT ![p] = Rest],
         (flock' = flock /\ flock # p) \/ (flock' = Nobody /\ flock = p),
         UNCHANGED <<conf, adm, known, busy, fresh, ended, hosted>>, given' \subseteq Paged \intersect Tokens
  PROVE  KeyTypes' /\ Stands' /\ Brought' /\ Page' /\ Right'
<1>1. p \in Procs /\ p # Nobody /\ act \in [Procs -> Hand]
  BY TokensAssumption DEF KeyTypes, Procs
<1>2. act' \in [Procs -> Hand] /\ act'[p] = Rest /\ Others(p)
  BY <1>1, RestIsHand, Puts DEF Others
<1>3. Rest.pc = "rest"
  BY DEF Rest
<1>4. hosted \subseteq Names /\ flock' \in Admins \union {Nobody} /\ flock' # p
  BY <1>1 DEF KeyTypes
<1>5. \A w \in Admins : w # Nobody
  BY TokensAssumption DEF Procs
<1>6. KeyTypes' /\ Stands' /\ Brought' /\ Right'
  BY <1>2, <1>3, <1>4, <1>5, OneOtherMoves
<1>7. Page'
  <2>1. Paged' = Paged /\ Held(adm)' = Held(adm)
    BY DEF Paged, Held
  <2>2. \A r \in Admins \union Hosts : act'[r] = act[r] \/ act'[r].pc = "rest"
    BY <1>2, <1>3 DEF Others, Procs
  <2>3. PagedApart'
    BY <2>1, <2>2 DEF Page, PagedApart, At
  <2>4. Made'
    BY <2>2 DEF Page, Made, At
  <2>5. \A m : Writing(m)' => Writing(m)
    BY <1>2, <1>4, <1>5 DEF Writing, Others, Procs
  <2>6. HomeBefore'
    BY <2>5 DEF Page, HomeBefore
  <2> QED
    BY <2>3, <2>4, <2>6 DEF Page
<1> QED
  BY <1>6, <1>7

LEMMA GivenOfPage ==
  ASSUME KeyTypes, Page
  PROVE  given \subseteq Paged \intersect Tokens
  BY DEF KeyTypes, Page, PagedApart

LEMMA ReplyKeeps ==
  ASSUME KeyTypes, Stands, Brought, Page, Right, NEW w \in Admins, Reply(w)
  PROVE  KeyTypes' /\ Stands' /\ Brought' /\ Page' /\ Right'
<1>1. act' = [act EXCEPT ![w] = Rest] /\ UNCHANGED <<conf, adm, known, busy, flock, fresh, ended, hosted>> /\ At(w, "reply")
  BY DEF Reply, files
<1>2. flock # w
  BY <1>1 DEF Stands, At
<1>3. act[w].tok \in 0..MaxTokens
  BY DEF KeyTypes, Procs, Hand
<1>4. given' \subseteq Paged \intersect Tokens
  <2>1. given' = given \union ({act[w].tok} \ {Gone})
    BY DEF Reply
  <2>2. act[w].tok = Gone \/ act[w].tok \in Paged \intersect Tokens
    BY <1>1, <1>3, TokensAssumption DEF Page, PagedApart, Gone, Tokens
  <2> QED
    BY <2>1, <2>2, GivenOfPage
<1> QED
  BY <1>1, <1>2, <1>4, Retires

LEMMA DiesKeeps ==
  ASSUME KeyTypes, Stands, Brought, Page, Right, NEW p \in Admins \union Hosts, Dies(p)
  PROVE  KeyTypes' /\ Stands' /\ Brought' /\ Page' /\ Right'
<1>1. act' = [act EXCEPT ![p] = Rest] /\ UNCHANGED <<conf, adm, known, busy, fresh, given, ended, hosted>>
  BY DEF Dies, files, hist
<1>2. (flock' = flock /\ flock # p) \/ (flock' = Nobody /\ flock = p)
  BY DEF Dies
<1> QED
  BY <1>1, <1>2, GivenOfPage, Retires

LEMMA TakeKeeps ==
  ASSUME KeyTypes, Stands, Brought, Page, Right, NEW w \in Admins, Take(w)
  PROVE  KeyTypes' /\ Stands' /\ Brought' /\ Page' /\ Right'
<1>1. UNCHANGED <<conf, adm, known, busy, fresh, given, ended, hosted>> /\ At(w, "wait") /\ flock = Nobody
  BY DEF Take, Free, files, hist
<1>2. w \in Procs /\ w # Nobody /\ w \notin Hosts /\ act \in [Procs -> Hand] /\ act[w] \in Hand /\ \A p \in Admins : p # Nobody
  BY TokensAssumption DEF KeyTypes, Procs
<1>3. CASE Refused(w)
  <2>1. act' = [act EXCEPT ![w] = Rest] /\ flock' = flock
    BY <1>3 DEF Take
  <2> QED
    BY <1>1, <1>2, <2>1, GivenOfPage, Retires
<1>4. CASE ~Refused(w)
  <2> DEFINE k == act[w]
             h == [k EXCEPT !.pc = "write", !.seen = adm.toks]
  <2>1. act' = [act EXCEPT ![w] = h] /\ flock' = w
    BY <1>2, <1>4 DEF Take
  <2>2. k \in Hand /\ adm.toks \in [Names -> 0..MaxTokens] /\ k.name \in Names
    BY <1>1, <1>2 DEF KeyTypes, File, Stands, At
  <2> HIDE DEF k
  <2>3. h \in Hand /\ h.pc = "write" /\ h.seen = adm.toks /\ h.name = k.name
    <3>1. h.pc = "write" /\ h.seen = adm.toks /\ h.name = k.name
      BY <2>2 DEF Hand
    <3> QED
      BY <2>2, <3>1, HandMoves DEF Steps
  <2> HIDE DEF h
  <2>4. act' \in [Procs -> Hand] /\ act'[w] = h /\ Others(w)
    BY <1>2, <2>1, <2>3, Puts DEF Others
  <2>5. given \subseteq Tokens /\ hosted \subseteq Names
    BY DEF KeyTypes
  <2>6. KeyTypes' /\ Stands' /\ Brought' /\ Right'
    BY <1>1, <1>2, <2>1, <2>2, <2>3, <2>4, <2>5, OneOtherMoves
  <2>7. Paged' = Paged /\ Held(adm)' = Held(adm)
    BY <1>1 DEF Paged, Held
  <2>8. \A r \in Admins \union Hosts : r # w => act'[r] = act[r]
    BY <2>4 DEF Others, Procs
  <2>9. PagedApart'
    BY <1>1, <1>2, <2>3, <2>4, <2>7, <2>8 DEF Page, PagedApart, At
  <2>10. Made'
    BY <1>1, <1>2, <2>8 DEF Page, Made, At
  <2>11. \A m \in Names : Writing(m)' => m = k.name
    BY <2>1, <2>3, <2>4 DEF Writing
  <2>12. conf.ok /\ conf.toks[k.name] # Gone => adm.toks[k.name] # Gone
    BY <1>4 DEF Refused, Elsewhere, k
  <2>13. HomeBefore'
    BY <1>1, <2>11, <2>12 DEF Page, HomeBefore
  <2> QED
    BY <2>6, <2>9, <2>10, <2>13 DEF Page
<1> QED
  BY <1>3, <1>4

LEMMA HostReadsKeeps ==
  ASSUME KeyTypes, Stands, Brought, Page, Right, NEW p \in Hosts, NEW n \in Names,
         NEW what \in {"issue", "rotate", "revoke"}, HostReads(p, n, what)
  PROVE  KeyTypes' /\ Stands' /\ Brought' /\ Page' /\ Right'
<1> DEFINE h == [Rest EXCEPT !.pc = "write", !.name = n, !.what = what, !.seen = conf.toks]
<1>1. act' = [act EXCEPT ![p] = h] /\ UNCHANGED <<conf, adm, known, busy, flock, fresh, given, ended, hosted>>
  BY DEF HostReads, files, hist
<1>2. p \in Procs /\ p \notin Admins /\ act \in [Procs -> Hand] /\ conf.toks \in [Names -> 0..MaxTokens]
  BY TokensAssumption DEF KeyTypes, Procs, File
<1>3. h \in Hand /\ h.pc = "write" /\ h.name = n /\ h.seen = conf.toks
  BY <1>2, RestIsHand DEF Hand, Steps, Rest
<1> HIDE DEF h
<1>4. act' \in [Procs -> Hand] /\ act'[p] = h /\ Others(p)
  BY <1>1, <1>2, <1>3, Puts DEF Others
<1>5. given \subseteq Tokens /\ hosted \subseteq Names /\ flock \in Admins \union {Nobody} /\ flock # p
  BY <1>2, TokensAssumption DEF KeyTypes, Procs
<1>6. KeyTypes' /\ Stands' /\ Brought' /\ Right'
  BY <1>1, <1>2, <1>3, <1>4, <1>5, OneOtherMoves
<1>7. Page'
  <2>1. Paged' = Paged /\ Held(adm)' = Held(adm)
    BY <1>1 DEF Paged, Held
  <2>2. \A r \in Admins \union Hosts : r # p => act'[r] = act[r]
    BY <1>4 DEF Others, Procs
  <2>3. PagedApart'
    BY <1>1, <1>2, <1>3, <1>4, <2>1, <2>2 DEF Page, PagedApart, At
  <2>4. Made'
    BY <1>1, <1>3, <1>4, <2>2 DEF Page, Made, At
  <2>5. \A m : Writing(m)' => Writing(m)
    BY <1>1, <1>2, <2>2 DEF Writing
  <2>6. HomeBefore'
    BY <1>1, <2>5 DEF Page, HomeBefore
  <2> QED
    BY <2>3, <2>4, <2>6 DEF Page
<1> QED
  BY <1>6, <1>7

-----------------------------------------------------------------------------
(* Files are replaced. *)

\* What a file holds with one name's token put in.
LEMMA OneTokenPut ==
  ASSUME KeyTypes, NEW f \in File, NEW n \in Names, NEW t \in 0..MaxTokens
  PROVE  /\ WithToken(f, n, t) \in File /\ WithToken(f, n, t).ver = f.ver + 1 /\ WithToken(f, n, t).ok = f.ok
         /\ \A m \in Names : WithToken(f, n, t).toks[m] = IF m = n THEN t ELSE f.toks[m]
<1> DEFINE toks == [f.toks EXCEPT ![n] = t]
<1>1. f.ver \in Nat \ {0} /\ f.ok \in BOOLEAN /\ f.toks \in [Names -> 0..MaxTokens]
  BY DEF File
<1>2. toks \in [Names -> 0..MaxTokens] /\ \A m \in Names : toks[m] = IF m = n THEN t ELSE f.toks[m]
  BY <1>1
<1>3. WithToken(f, n, t) = [f EXCEPT !.ver = f.ver + 1, !.toks = toks]
  BY <1>1 DEF WithToken, File
<1> HIDE DEF toks
<1>4. WithToken(f, n, t) = [ver |-> f.ver + 1, ok |-> f.ok, toks |-> toks]
  BY <1>3 DEF File
<1> QED
  BY <1>1, <1>2, <1>4 DEF File

\* Every request sees a replacement, and nobody else moves but who makes it.
LEMMA AllWatch ==
  ASSUME KeyTypes, NEW p \in Admins \union Hosts, NEW h \in Hand, NEW c, NEW a, act' = [Watched(c, a) EXCEPT ![p] = h]
  PROVE  /\ act' \in [Procs -> Hand] /\ act'[p] = h
         /\ \A r \in Admins \union Hosts : r # p => act'[r] = act[r]
         /\ \A q \in Askers : Sees(q, act'[q], Valid(c, a, act[q].tok))
<1> DEFINE watched == Watched(c, a)
<1>1. act \in [Procs -> Hand]
  BY DEF KeyTypes
<1>2. /\ watched \in [Procs -> Hand]
      /\ \A r \in Procs : r \notin Askers => watched[r] = act[r]
      /\ \A q \in Askers : Sees(q, watched[q], Valid(c, a, act[q].tok))
  BY <1>1, Watching
<1>3. act' = [watched EXCEPT ![p] = h]
  OBVIOUS
<1> HIDE DEF watched
<1>4. p \in Procs
  BY DEF Procs
<1>5. act' \in [Procs -> Hand] /\ act'[p] = h /\ \A r \in Procs : r # p => act'[r] = watched[r]
  BY <1>2, <1>3, <1>4
<1>6. \A r \in Admins \union Hosts : r \in Procs /\ r \notin Askers
  BY TokensAssumption DEF Procs
<1>7. \A q \in Askers : q \in Procs /\ q # p
  BY <1>6 DEF Procs
<1> QED
  BY <1>2, <1>5, <1>6, <1>7

\* What the replacement of a file does not touch: requests, and who holds the locks.
LEMMA ReplacingKeeps ==
  ASSUME KeyTypes, Stands, Brought, Right, Replacing,
         act' \in [Procs -> Hand], \A q \in Askers : Sees(q, act'[q], Valid(conf', adm', act[q].tok)),
         conf' \in File, adm' \in File, fresh' \in fresh..MaxTokens, UNCHANGED <<known, busy, given>>,
         flock' \in Admins \union {Nobody}, ended' \subseteq Tokens, hosted' \subseteq Names,
         \A w \in Admins : /\ act'[w].pc \in {"rest", "wait", "write", "reply"} /\ (act'[w].pc = "write" <=> flock' = w)
                           /\ act'[w].pc # "rest" => act'[w].name \in Names,
         \A h \in Hosts : act'[h].pc \in {"rest", "write"} /\ (act'[h].pc = "write" => act'[h].name \in Names)
  PROVE  KeyTypes' /\ Stands' /\ Brought' /\ Right'
<1>1. fresh \in Nat /\ fresh' \in 0..MaxTokens /\ fresh <= fresh'
  BY TokensAssumption DEF KeyTypes
<1>2. KeyTypes'
  BY <1>1 DEF KeyTypes
<1>3. \A q \in Askers : act'[q].pc = act[q].pc /\ act'[q].tok = act[q].tok /\ act'[q].table = act[q].table
  BY DEF Sees
<1>4. Stands'
  BY <1>3 DEF Stands, At
<1>5. Brought'
  <2>1. \A q \in Askers : act[q].tok \in Nat /\ act[q].table \subseteq Nat
    <3>1. \A q \in Askers : act[q] \in Hand
      BY DEF KeyTypes, Procs
    <3>2. \A q \in Askers : act[q].tok \in 0..MaxTokens /\ act[q].table \subseteq Tokens
      BY <3>1 DEF Hand
    <3> QED
      BY <3>2, TokensAssumption DEF Tokens
  <2> QED
    BY <1>1, <1>3, <2>1 DEF Brought, At
<1>6. Right'
  BY RequestsWatch DEF Right
<1> QED
  BY <1>2, <1>4, <1>5, <1>6

\* The page writes: the token it replaces has ended, the one it makes is of the page.
WriteDoes(w, n, t) ==
  /\ t \in {Gone, fresh + 1} /\ t \in 0..MaxTokens /\ fresh' \in fresh..MaxTokens /\ t <= fresh'
  /\ adm' \in File /\ adm'.ver = adm.ver + 1 /\ adm'.ok = adm.ok
  /\ \A m \in Names : adm'.toks[m] = IF m = n THEN t ELSE adm.toks[m]
  /\ ended' = ended \union ({adm.toks[n]} \ {Gone})
  /\ act' \in [Procs -> Hand] /\ act'[w].pc = "reply" /\ act'[w].tok = t /\ act'[w].name = n
  /\ \A r \in Admins \union Hosts : r # w => act'[r] = act[r]
  /\ \A q \in Askers : Sees(q, act'[q], Valid(conf', adm', act[q].tok))
  /\ flock = w /\ flock' = Nobody /\ UNCHANGED <<conf, known, busy, given, hosted>>
LEMMA Writes ==
  ASSUME KeyTypes, Stands, Page, NEW w \in Admins, Write(w)
  PROVE  act[w].name \in Names /\ \E t \in 0..MaxTokens : WriteDoes(w, act[w].name, t)
<1> DEFINE k == act[w]
           n == k.name
           t == IF k.what = "revoke" THEN Gone ELSE fresh + 1
           new == WithToken([adm EXCEPT !.toks = k.seen], n, t)
           h == [k EXCEPT !.pc = "reply", !.tok = t]
<1>1. At(w, "write") /\ (k.what = "revoke" \/ fresh < MaxTokens)
  BY DEF Write
<1>2. k.seen = adm.toks /\ n \in Names /\ flock = w
  BY <1>1 DEF Page, PagedApart, Stands, At
<1>3. w \in Procs /\ w \notin Askers /\ k \in Hand /\ adm \in File /\ fresh \in 0..MaxTokens
  BY TokensAssumption DEF KeyTypes, Procs
<1>4. [adm EXCEPT !.toks = k.seen] = adm
  BY <1>2, <1>3 DEF File
<1>5. t \in {Gone, fresh + 1} /\ t \in 0..MaxTokens
  BY <1>1, <1>3, TokensAssumption DEF Gone
<1>6. fresh' = IF t = Gone THEN fresh ELSE t
  BY DEF Write
<1>7. fresh' \in fresh..MaxTokens /\ t <= fresh'
  BY <1>3, <1>5, <1>6, TokensAssumption DEF Gone
<1>8. adm' = new /\ ended' = ended \union ({adm.toks[n]} \ {Gone}) /\ flock' = Nobody /\ UNCHANGED <<conf, known, busy, given, hosted>>
  BY <1>2 DEF Write
<1>9. new = WithToken(adm, n, t)
  BY <1>4
<1>10. act' = [Watched(conf, new) EXCEPT ![w].pc = "reply", ![w].tok = t]
  BY DEF Write
<1> HIDE DEF t, new
<1>11. adm' \in File /\ adm'.ver = adm.ver + 1 /\ adm'.ok = adm.ok /\ \A m \in Names : adm'.toks[m] = IF m = n THEN t ELSE adm.toks[m]
  BY <1>2, <1>3, <1>5, <1>8, <1>9, OneTokenPut
<1>12. Watched(conf, new)[w] = act[w] /\ Watched(conf, new) \in [Procs -> Hand]
  BY <1>3, Watching DEF KeyTypes
<1>13. act' = [Watched(conf, new) EXCEPT ![w] = h]
  BY <1>3, <1>10, <1>12
<1>14. h.pc = "reply" /\ h.tok = t /\ h.name = n
  BY <1>3, ZenonT(40) DEF Hand
<1>15. h \in Hand
  BY <1>3, <1>5, HandMoves DEF Steps
<1> HIDE DEF h
<1>16. /\ act' \in [Procs -> Hand] /\ act'[w] = h
       /\ \A r \in Admins \union Hosts : r # w => act'[r] = act[r]
       /\ \A q \in Askers : Sees(q, act'[q], Valid(conf, new, act[q].tok))
  BY <1>13, <1>15, AllWatch
<1>17. WriteDoes(w, n, t)
  BY <1>2, <1>5, <1>7, <1>8, <1>11, <1>14, <1>16 DEF WriteDoes
<1> QED
  BY <1>2, <1>5, <1>17

\* The tokens of the page after it has written: one more at most, and each still under one name.
LEMMA WritePages ==
  ASSUME KeyTypes, Page, NEW w \in Admins, NEW n \in Names, NEW t \in 0..MaxTokens, WriteDoes(w, n, t)
  PROVE  /\ Paged' = Paged \union ({t} \ {Gone}) /\ Held(adm)' \intersect ended' = {}
         /\ \A x, y \in Names : adm'.toks[x] = adm'.toks[y] => x = y \/ adm'.toks[x] = Gone
<1> DEFINE was == adm.toks
           is  == adm'.toks
<1>1. \A m \in Names : was[m] \in Nat /\ was[m] <= fresh
  BY TokensAssumption DEF KeyTypes, File, Page, Made
<1>2. \A x \in ended : x \in Nat /\ x <= fresh
  BY TokensAssumption DEF KeyTypes, Tokens, Page, Made
<1>3. fresh \in Nat /\ t \in {0, fresh + 1}
  BY TokensAssumption DEF KeyTypes, WriteDoes, Gone
<1>4. \A m \in Names : is[m] = IF m = n THEN t ELSE was[m]
  BY DEF WriteDoes
<1>5. \A x : x \in Held(adm)' <=> x # 0 /\ \E m \in Names : is[m] = x
  BY DEF Held, Gone
<1>6. \A x : x \in Held(adm) <=> x # 0 /\ \E m \in Names : was[m] = x
  BY DEF Held, Gone
<1>7. \A x : x \in ended' <=> x \in ended \/ (x = was[n] /\ x # 0)
  BY DEF WriteDoes, Gone
<1>8. \A x, y \in Names : was[x] = was[y] => x = y \/ was[x] = 0
  BY DEF Page, PagedApart, Gone
<1>9. \A x \in ended : x \notin Held(adm)
  BY DEF Page, PagedApart
<1> HIDE DEF was, is
<1>10. \A x : x \in Paged' <=> x \in Paged \/ (x = t /\ x # 0)
  <2>1. \A x : x \in Paged' => x \in Paged \/ (x = t /\ x # 0)
    BY <1>4, <1>5, <1>6, <1>7 DEF Paged
  <2>2. ASSUME NEW x \in Held(adm)
        PROVE  x \in Paged'
    <3>1. PICK m \in Names : was[m] = x
      BY <1>6
    <3>2. x # 0
      BY <1>6
    <3>3. CASE m = n
      BY <1>7, <3>1, <3>2, <3>3 DEF Paged
    <3>4. CASE m # n
      BY <1>4, <1>5, <3>1, <3>2, <3>4 DEF Paged
    <3> QED
      BY <3>3, <3>4
  <2>3. t # 0 => t \in Paged'
    BY <1>4, <1>5 DEF Paged
  <2> QED
    BY <1>7, <2>1, <2>2, <2>3 DEF Paged
<1>11. ASSUME NEW x \in Held(adm)', x \in ended'
       PROVE  FALSE
  <2>1. PICK m \in Names : is[m] = x
    BY <1>5
  <2>2. x # 0
    BY <1>5
  <2>3. x \in Nat /\ x <= fresh
    BY <1>1, <1>2, <1>7, <1>11
  <2>4. m # n /\ was[m] = x
    BY <1>3, <1>4, <2>1, <2>2, <2>3
  <2>5. x \in Held(adm)
    BY <1>6, <2>2, <2>4
  <2> QED
    BY <1>7, <1>8, <1>9, <1>11, <2>2, <2>4, <2>5
<1>12. ASSUME NEW x \in Names, NEW y \in Names, is[x] = is[y], is[x] # 0
       PROVE  x = y
  <2>1. CASE x = n \/ y = n
    BY <1>1, <1>3, <1>4, <1>12, <2>1
  <2>2. CASE x # n /\ y # n
    BY <1>4, <1>8, <1>12, <2>2
  <2> QED
    BY <2>1, <2>2
<1> QED
  BY <1>10, <1>11, <1>12 DEF Gone, is

LEMMA WriteKeeps ==
  ASSUME KeyTypes, Stands, Brought, Page, Right, NEW w \in Admins, Write(w)
  PROVE  KeyTypes' /\ Stands' /\ Brought' /\ Page' /\ Right'
<1> DEFINE n == act[w].name
<1>1. n \in Names
  BY Writes
<1>2. PICK t \in 0..MaxTokens : WriteDoes(w, n, t)
  BY Writes
<1> HIDE DEF n
<1>3. Paged' = Paged \union ({t} \ {0}) /\ Held(adm)' \intersect ended' = {}
  BY <1>1, <1>2, WritePages DEF Gone
<1>4. \A x, y \in Names : adm'.toks[x] = adm'.toks[y] => x = y \/ adm'.toks[x] = Gone
  BY <1>1, <1>2, WritePages
<1>5. fresh \in Nat /\ t \in {0, fresh + 1} /\ t <= fresh' /\ fresh' \in fresh..MaxTokens
  BY <1>2, TokensAssumption DEF KeyTypes, WriteDoes, Gone
<1>6. fresh' \in Nat /\ fresh <= fresh'
  BY <1>5, TokensAssumption
<1>7. \A x : x \in Nat /\ x <= fresh /\ x \in Paged' => x \in Paged
  BY <1>3, <1>5
<1>8. flock = w /\ flock' = Nobody /\ UNCHANGED <<conf, known, busy, given, hosted>> /\ act' \in [Procs -> Hand]
  BY <1>2 DEF WriteDoes
<1>9. adm' \in File /\ adm'.ver = adm.ver + 1 /\ adm'.ok = adm.ok /\ \A m \in Names : adm'.toks[m] = IF m = n THEN t ELSE adm.toks[m]
  BY <1>2 DEF WriteDoes
<1>10. /\ act'[w].pc = "reply" /\ act'[w].tok = t /\ act'[w].name = n
       /\ \A r \in Admins \union Hosts : r # w => act'[r] = act[r]
       /\ \A q \in Askers : Sees(q, act'[q], Valid(conf', adm', act[q].tok))
  BY <1>2 DEF WriteDoes
<1>11. \A p \in Admins : p # Nobody /\ p \notin Hosts
  BY TokensAssumption DEF Procs
<1>12. ended' \subseteq Tokens
  <2>1. adm.toks[n] \in 0..MaxTokens
    BY <1>1 DEF KeyTypes, File
  <2>2. ended' = ended \union ({adm.toks[n]} \ {Gone})
    BY <1>2 DEF WriteDoes
  <2>3. {adm.toks[n]} \ {Gone} \subseteq Tokens
    BY <2>1, TokensAssumption DEF Tokens, Gone
  <2> QED
    BY <2>2, <2>3 DEF KeyTypes
<1>13. Replacing
  BY <1>3, <1>5, <1>7, <1>8, <1>9 DEF Replacing
<1>14. KeyTypes' /\ Stands' /\ Brought' /\ Right'
  <2>1. conf' \in File /\ hosted' \subseteq Names /\ flock' \in Admins \union {Nobody}
    BY <1>8 DEF KeyTypes
  <2>2. \A p \in Admins : /\ act'[p].pc \in {"rest", "wait", "write", "reply"} /\ (act'[p].pc = "write" <=> flock' = p)
                          /\ act'[p].pc # "rest" => act'[p].name \in Names
    BY <1>1, <1>8, <1>10, <1>11 DEF Stands, At
  <2>3. \A h \in Hosts : act'[h].pc \in {"rest", "write"} /\ (act'[h].pc = "write" => act'[h].name \in Names)
    BY <1>10, <1>11 DEF Stands, At
  <2> QED
    BY <1>5, <1>8, <1>9, <1>10, <1>12, <1>13, <2>1, <2>2, <2>3, ReplacingKeeps
<1>15. \A m \in Names : conf.toks[m] \in Nat /\ conf.toks[m] <= fresh /\ adm.toks[m] \in Nat /\ adm.toks[m] <= fresh
  BY TokensAssumption DEF KeyTypes, File, Page, Made
<1>16. \A h \in Hosts : act'[h] = act[h] /\ (At(h, "write") => \A m \in Names : act[h].seen[m] \in Nat /\ act[h].seen[m] <= fresh)
  <2>1. \A h \in Hosts : act[h] \in Hand
    BY DEF KeyTypes, Procs
  <2>2. \A h \in Hosts, m \in Names : act[h].seen[m] \in 0..MaxTokens
    BY <2>1 DEF Hand
  <2> QED
    BY <1>10, <1>11, <2>2, TokensAssumption DEF Page, Made
<1>17. PagedApart'
  <2>1. adm'.ok /\ given' \subseteq Paged'
    BY <1>3, <1>8, <1>9 DEF Page, PagedApart
  <2>2. \A m \in Names : conf'.toks[m] \notin Paged'
    BY <1>7, <1>8, <1>15 DEF Page, PagedApart
  <2>3. \A h \in Hosts : act'[h].pc = "write" => \A m \in Names : act'[h].seen[m] \notin Paged'
    BY <1>7, <1>16 DEF Page, PagedApart, At
  <2>4. \A p \in Admins : act'[p].pc # "write"
    BY <1>8, <1>10, <1>11 DEF Stands, At
  <2>5. \A p \in Admins : act'[p].pc = "reply" => act'[p].tok = Gone \/ act'[p].tok \in Paged'
    BY <1>3, <1>10 DEF Page, PagedApart, At, Gone
  <2> QED
    BY <1>3, <1>4, <2>1, <2>2, <2>3, <2>4, <2>5 DEF PagedApart, At
<1>18. Made'
  <2>1. \A m \in Names : conf'.toks[m] <= fresh' /\ adm'.toks[m] <= fresh'
    BY <1>5, <1>6, <1>8, <1>9, <1>15
  <2>2. \A x \in ended' : x <= fresh'
    <3>1. \A x \in ended : x \in Nat /\ x <= fresh
      BY TokensAssumption DEF KeyTypes, Tokens, Page, Made
    <3>2. ended' = ended \union ({adm.toks[n]} \ {Gone})
      BY <1>2 DEF WriteDoes
    <3> QED
      BY <1>1, <1>5, <1>6, <1>15, <3>1, <3>2
  <2>3. \A h \in Hosts : act'[h].pc = "write" => \A m \in Names : act'[h].seen[m] <= fresh'
    BY <1>5, <1>6, <1>16 DEF At
  <2> QED
    BY <2>1, <2>2, <2>3 DEF Made, At
<1>19. HomeBefore'
  <2>1. \A m : Writing(m)' => FALSE
    BY <1>8, <1>11 DEF Writing
  <2>2. Writing(n)
    BY <1>8 DEF Writing, n
  <2>3. \A m \in Names : adm'.toks[m] # Gone => adm.toks[m] # Gone \/ m = n
    BY <1>9
  <2> QED
    BY <1>8, <2>1, <2>2, <2>3 DEF Page, HomeBefore
<1> QED
  BY <1>14, <1>17, <1>18, <1>19 DEF Page

\* A script of the host writes config/auth.json: with what it read, or a token made since.
HostWriteDoes(h, n, t) ==
  /\ t \in {Gone, fresh + 1} /\ t \in 0..MaxTokens /\ fresh' \in fresh..MaxTokens /\ t <= fresh'
  /\ conf' \in File /\ conf'.ver = conf.ver + 1
  /\ \A m \in Names : conf'.toks[m] = IF m = n THEN t ELSE act[h].seen[m]
  /\ hosted' = hosted \union {m \in Names : conf'.toks[m] # Gone /\ (adm.toks[m] # Gone \/ Writing(m))}
  /\ act' \in [Procs -> Hand] /\ act'[h].pc = "rest"
  /\ \A r \in Admins \union Hosts : r # h => act'[r] = act[r]
  /\ \A q \in Askers : Sees(q, act'[q], Valid(conf', adm', act[q].tok))
  /\ UNCHANGED <<adm, known, busy, flock, given, ended>>
LEMMA HostWritesSo ==
  ASSUME KeyTypes, Stands, NEW h \in Hosts, HostWrites(h)
  PROVE  act[h].name \in Names /\ \E t \in 0..MaxTokens : HostWriteDoes(h, act[h].name, t)
<1> DEFINE k == act[h]
           n == k.name
           t == IF k.what = "revoke" THEN Gone ELSE fresh + 1
           base == [conf EXCEPT !.toks = k.seen, !.ok = TRUE]
           new == WithToken(base, n, t)
<1>1. At(h, "write") /\ (k.what = "revoke" \/ fresh < MaxTokens)
  BY DEF HostWrites
<1>2. n \in Names
  BY <1>1 DEF Stands, At
<1>3. h \in Procs /\ k \in Hand /\ conf \in File /\ fresh \in 0..MaxTokens
  BY DEF KeyTypes, Procs
<1>4. base \in File /\ base.ver = conf.ver /\ base.toks = k.seen
  BY <1>3 DEF File, Hand
<1>5. t \in {Gone, fresh + 1} /\ t \in 0..MaxTokens
  BY <1>1, <1>3, TokensAssumption DEF Gone
<1>6. fresh' = IF t = Gone THEN fresh ELSE t
  BY DEF HostWrites
<1>7. fresh' \in fresh..MaxTokens /\ t <= fresh'
  BY <1>3, <1>5, <1>6, TokensAssumption DEF Gone
<1>8. /\ conf' = new /\ hosted' = hosted \union {m \in Names : new.toks[m] # Gone /\ (adm.toks[m] # Gone \/ Writing(m))}
      /\ UNCHANGED <<adm, known, busy, flock, given, ended>> /\ act' = [Watched(new, adm) EXCEPT ![h] = Rest]
  BY DEF HostWrites
<1> HIDE DEF t, base
<1>9. new \in File /\ new.ver = conf.ver + 1 /\ \A m \in Names : new.toks[m] = IF m = n THEN t ELSE k.seen[m]
  BY <1>2, <1>4, <1>5, OneTokenPut
<1> HIDE DEF new
<1>10. /\ act' \in [Procs -> Hand] /\ act'[h] = Rest
       /\ \A r \in Admins \union Hosts : r # h => act'[r] = act[r]
       /\ \A q \in Askers : Sees(q, act'[q], Valid(new, adm, act[q].tok))
  BY <1>8, RestIsHand, AllWatch
<1>11. act'[h].pc = "rest"
  <2>1. Rest.pc = "rest"
    BY DEF Rest
  <2> QED
    BY <1>10, <2>1
<1>12. hosted' = hosted \union {m \in Names : conf'.toks[m] # Gone /\ (adm.toks[m] # Gone \/ Writing(m))}
  BY <1>8
<1>13. HostWriteDoes(h, n, t)
  BY <1>5, <1>7, <1>8, <1>9, <1>10, <1>11, <1>12 DEF HostWriteDoes
<1> QED
  BY <1>2, <1>5, <1>13

LEMMA HostWritesKeeps ==
  ASSUME KeyTypes, Stands, Brought, Page, Right, NEW h \in Hosts, HostWrites(h)
  PROVE  KeyTypes' /\ Stands' /\ Brought' /\ Page' /\ Right'
<1> DEFINE n == act[h].name
<1>1. n \in Names
  BY HostWritesSo
<1>2. PICK t \in 0..MaxTokens : HostWriteDoes(h, n, t)
  BY HostWritesSo
<1> HIDE DEF n
<1>3. fresh \in Nat /\ t \in {0, fresh + 1} /\ t <= fresh' /\ fresh' \in fresh..MaxTokens
  BY <1>2, TokensAssumption DEF KeyTypes, HostWriteDoes, Gone
<1>4. fresh' \in Nat /\ fresh <= fresh'
  BY <1>3, TokensAssumption
<1>5. UNCHANGED <<adm, known, busy, flock, given, ended>> /\ act' \in [Procs -> Hand]
  BY <1>2 DEF HostWriteDoes
<1>6. conf' \in File /\ conf'.ver = conf.ver + 1 /\ \A m \in Names : conf'.toks[m] = IF m = n THEN t ELSE act[h].seen[m]
  BY <1>2 DEF HostWriteDoes
<1>7. hosted' = hosted \union {m \in Names : conf'.toks[m] # Gone /\ (adm.toks[m] # Gone \/ Writing(m))}
  BY <1>2 DEF HostWriteDoes
<1>8. /\ act'[h].pc = "rest"
      /\ \A r \in Admins \union Hosts : r # h => act'[r] = act[r]
      /\ \A q \in Askers : Sees(q, act'[q], Valid(conf', adm', act[q].tok))
  BY <1>2 DEF HostWriteDoes
<1>9. Paged' = Paged /\ Held(adm)' = Held(adm)
  BY <1>5 DEF Paged, Held
<1>10. \A p \in Admins : p # h
  BY TokensAssumption
<1>11. Replacing
  BY <1>5, <1>6, <1>9 DEF Replacing
<1>12. At(h, "write")
  BY DEF HostWrites
<1>13. KeyTypes' /\ Stands' /\ Brought' /\ Right'
  <2>1. adm' \in File /\ flock' \in Admins \union {Nobody} /\ ended' \subseteq Tokens
    BY <1>5 DEF KeyTypes
  <2>2. hosted' \subseteq Names
    BY <1>7 DEF KeyTypes
  <2>3. \A p \in Admins : /\ act'[p].pc \in {"rest", "wait", "write", "reply"} /\ (act'[p].pc = "write" <=> flock' = p)
                          /\ act'[p].pc # "rest" => act'[p].name \in Names
    BY <1>5, <1>8, <1>10 DEF Stands, At
  <2>4. \A p \in Hosts : act'[p].pc \in {"rest", "write"} /\ (act'[p].pc = "write" => act'[p].name \in Names)
    BY <1>8 DEF Stands, At
  <2> QED
    BY <1>3, <1>5, <1>6, <1>8, <1>11, <2>1, <2>2, <2>3, <2>4, ReplacingKeeps
<1>14. \A x \in Paged : x \in Nat /\ x # 0 /\ x <= fresh
  <2>1. \A m \in Names : adm.toks[m] \in Nat /\ adm.toks[m] <= fresh
    BY TokensAssumption DEF KeyTypes, File, Page, Made
  <2>2. \A x \in Held(adm) : x \in Nat /\ x # 0 /\ x <= fresh
    BY <2>1 DEF Held, Gone
  <2>3. \A x \in ended : x \in Nat /\ x # 0 /\ x <= fresh
    <3>1. ended \subseteq 1..MaxTokens /\ \A x \in ended : x <= fresh
      BY DEF KeyTypes, Tokens, Page, Made
    <3> QED
      BY <3>1, TokensAssumption
  <2> QED
    BY <2>2, <2>3 DEF Paged
<1>15. t \notin Paged
  BY <1>3, <1>14
<1>16. PagedApart'
  <2>1. \A m \in Names : conf'.toks[m] \notin Paged'
    BY <1>6, <1>9, <1>12, <1>15 DEF Page, PagedApart
  <2>2. \A p \in Hosts : act'[p].pc = "write" => \A m \in Names : act'[p].seen[m] \notin Paged'
    BY <1>8, <1>9 DEF Page, PagedApart, At
  <2>3. \A p \in Admins : act'[p] = act[p]
    BY <1>8, <1>10
  <2> QED
    BY <1>5, <1>9, <2>1, <2>2, <2>3 DEF Page, PagedApart, At
<1>17. Made'
  <2>1. \A m \in Names : act[h].seen[m] \in Nat /\ act[h].seen[m] <= fresh
    <3>1. act[h] \in Hand
      BY DEF KeyTypes, Procs
    <3>2. \A m \in Names : act[h].seen[m] \in 0..MaxTokens
      BY <3>1 DEF Hand
    <3> QED
      BY <1>12, <3>2, TokensAssumption DEF Page, Made
  <2>2. \A m \in Names : conf'.toks[m] <= fresh'
    BY <1>3, <1>4, <1>6, <2>1
  <2>3. \A m \in Names : adm'.toks[m] <= fresh'
    BY <1>4, <1>3, <1>5, TokensAssumption DEF KeyTypes, File, Page, Made
  <2>4. \A x \in ended' : x <= fresh'
    BY <1>3, <1>4, <1>5, <1>14 DEF Paged
  <2>5. \A p \in Hosts : act'[p].pc = "write" => \A m \in Names : act'[p].seen[m] <= fresh'
    <3>1. \A p \in Hosts : act[p] \in Hand
      BY DEF KeyTypes, Procs
    <3>2. \A p \in Hosts, m \in Names : act[p].seen[m] \in 0..MaxTokens
      BY <3>1 DEF Hand
    <3> QED
      BY <1>3, <1>4, <1>8, <3>2, TokensAssumption DEF Page, Made, At
  <2> QED
    BY <2>2, <2>3, <2>4, <2>5 DEF Made, At
<1>18. HomeBefore'
  <2>1. \A m : Writing(m)' => Writing(m)
    BY <1>5, <1>8, <1>10 DEF Writing
  <2> QED
    BY <1>5, <1>7, <2>1 DEF HomeBefore
<1> QED
  BY <1>13, <1>16, <1>17, <1>18 DEF Page

LEMMA ByHandKeeps ==
  ASSUME KeyTypes, Stands, Brought, Page, Right, ByHand
  PROVE  KeyTypes' /\ Stands' /\ Brought' /\ Page' /\ Right'
<1> DEFINE new == [conf EXCEPT !.ver = @ + 1, !.ok = ~@]
<1>1. new \in File /\ new.ver = conf.ver + 1 /\ new.toks = conf.toks
  <2>1. conf.ver \in Nat \ {0} /\ conf.ok \in BOOLEAN /\ conf.toks \in [Names -> 0..MaxTokens] /\ conf \in File
    BY DEF KeyTypes, File
  <2> DEFINE v == ~conf.ok
  <2>2. v \in BOOLEAN
    OBVIOUS
  <2>3. new = [conf EXCEPT !.ver = conf.ver + 1, !.ok = v]
    BY <2>1 DEF File
  <2> HIDE DEF v, new
  <2>4. new = [ver |-> conf.ver + 1, ok |-> v, toks |-> conf.toks]
    BY <2>1, <2>3 DEF File
  <2> QED
    BY <2>1, <2>2, <2>4 DEF File
<1>2. /\ conf' = new /\ hosted' = hosted \union {m \in Names : new.toks[m] # Gone /\ (adm.toks[m] # Gone \/ Writing(m))}
      /\ act' = Watched(new, adm) /\ UNCHANGED <<adm, known, busy, flock, fresh, given, ended>>
  BY DEF ByHand
<1> HIDE DEF new
<1>3. /\ act' \in [Procs -> Hand] /\ \A p \in Procs : p \notin Askers => act'[p] = act[p]
      /\ \A q \in Askers : Sees(q, act'[q], Valid(conf', adm', act[q].tok))
  BY <1>2, Watching DEF KeyTypes
<1>4. \A p \in Admins \union Hosts : act'[p] = act[p]
  BY <1>3, TokensAssumption DEF Procs
<1>5. Paged' = Paged /\ Held(adm)' = Held(adm)
  BY <1>2 DEF Paged, Held
<1>6. Replacing
  BY <1>1, <1>2, <1>5 DEF Replacing
<1>7. KeyTypes' /\ Stands' /\ Brought' /\ Right'
  <2>1. conf' \in File /\ adm' \in File /\ flock' \in Admins \union {Nobody} /\ ended' \subseteq Tokens /\ fresh' \in fresh..MaxTokens
    BY <1>1, <1>2, TokensAssumption DEF KeyTypes
  <2>2. hosted' \subseteq Names
    BY <1>2 DEF KeyTypes
  <2>3. \A p \in Admins : /\ act'[p].pc \in {"rest", "wait", "write", "reply"} /\ (act'[p].pc = "write" <=> flock' = p)
                          /\ act'[p].pc # "rest" => act'[p].name \in Names
    BY <1>2, <1>4 DEF Stands, At
  <2>4. \A p \in Hosts : act'[p].pc \in {"rest", "write"} /\ (act'[p].pc = "write" => act'[p].name \in Names)
    BY <1>4 DEF Stands, At
  <2> QED
    BY <1>2, <1>3, <1>6, <2>1, <2>2, <2>3, <2>4, ReplacingKeeps
<1>8. PagedApart'
  BY <1>1, <1>2, <1>4, <1>5 DEF Page, PagedApart, At
<1>9. Made'
  BY <1>1, <1>2, <1>4 DEF Page, Made, At
<1>10. HomeBefore'
  <2>1. \A m : Writing(m)' => Writing(m)
    BY <1>2, <1>4 DEF Writing
  <2> QED
    BY <1>1, <1>2, <2>1 DEF HomeBefore
<1> QED
  BY <1>7, <1>8, <1>9, <1>10 DEF Page

-----------------------------------------------------------------------------
(* The invariant. *)

LEMMA InvInParts ==
  /\ KeyInv <=> KeyTypes /\ Stands /\ Brought /\ Page /\ Right
  /\ KeyInv' <=> KeyTypes' /\ Stands' /\ Brought' /\ Page' /\ Right'
  BY DEF KeyInv, Page, Right

LEMMA KeysStart ==
  TokensInit => KeyInv
<1> SUFFICES ASSUME TokensInit
             PROVE  KeyInv
  OBVIOUS
<1>1. Rest \in Hand /\ NoKey \in Key /\ NoTokens \in [Names -> 0..MaxTokens]
  BY RestIsHand
<1>2. /\ conf = [ver |-> 1, ok |-> TRUE, toks |-> NoTokens] /\ adm = [ver |-> 1, ok |-> TRUE, toks |-> NoTokens]
      /\ known = [key |-> NoKey, table |-> {}] /\ busy = Nobody /\ flock = Nobody
      /\ act = [p \in Procs |-> Rest] /\ fresh = 0 /\ given = {} /\ ended = {} /\ hosted = {}
  BY DEF TokensInit
<1>3. \A p \in Procs : act[p] = Rest /\ p # Nobody
  BY <1>2, TokensAssumption
<1>4. Rest.pc = "rest" /\ Rest.tok = 0
  BY DEF Rest, Gone
<1>5. \A n \in Names : NoTokens[n] = 0
  BY DEF NoTokens, Gone
<1>6. Held(adm) = {} /\ Paged = {} /\ \A n \in Names : conf.toks[n] = 0 /\ adm.toks[n] = 0
  BY <1>2, <1>5 DEF Held, Paged, Gone
<1>7. Contributes(conf) = {} /\ Contributes(adm) = {}
  BY <1>2, <1>5 DEF Contributes, Held, Gone
<1>8. KeyTypes
  <2>1. conf \in File /\ adm \in File
    BY <1>1, <1>2 DEF File
  <2> QED
    BY <1>1, <1>2, <2>1, TokensAssumption DEF KeyTypes
<1>9. \A q \in Askers : At(q, "rest") /\ act[q].tok = 0 /\ busy # q
  BY <1>2, <1>3, <1>4 DEF At, Procs
<1>10. \A p \in Admins \union Hosts : At(p, "rest") /\ flock # p
  BY <1>2, <1>3, <1>4 DEF At, Procs
<1>11. Stands
  BY <1>9, <1>10 DEF Stands, At
<1>12. Brought
  BY <1>2, <1>9 DEF Brought, At
<1>13. PagedApart
  BY <1>2, <1>6, <1>10 DEF PagedApart, At, Gone
<1>14. Made
  BY <1>2, <1>6, <1>10 DEF Made, At
<1>15. HomeBefore
  BY <1>6 DEF HomeBefore, Gone
<1>16. KnownRight
  BY <1>2, <1>6, <1>7 DEF KnownRight, NoKey
<1>17. AskedRight /\ HalfRight /\ AnswersCurrent
  BY <1>9 DEF AskedRight, HalfRight, AnswersCurrent, At, Asking
<1> QED
  BY <1>8, <1>11, <1>12, <1>13, <1>14, <1>15, <1>16, <1>17 DEF KeyInv

LEMMA KeysStep ==
  KeyInv /\ [TokensNext]_tokenVars => KeyInv'
<1> SUFFICES ASSUME KeyTypes, Stands, Brought, Page, Right, [TokensNext]_tokenVars
             PROVE  KeyTypes' /\ Stands' /\ Brought' /\ Page' /\ Right'
  BY InvInParts
<1>1. ASSUME NEW q \in Askers, NEW t \in Tokens, Present(q, t)
      PROVE  KeyTypes' /\ Stands' /\ Brought' /\ Page' /\ Right'
  BY <1>1, PresentKeeps
<1>2. ASSUME NEW q \in Askers, StatAdmin(q) \/ Enter(q) \/ Build(q) \/ Leave(q)
      PROVE  KeyTypes' /\ Stands' /\ Brought' /\ Page' /\ Right'
  BY <1>2, StatKeeps, EnterKeeps, BuildKeeps, LeaveKeeps
<1>3. ASSUME NEW w \in Admins, NEW n \in Names, NEW by, NEW what \in {"issue", "rotate", "revoke"}, Change(w, n, what, by)
      PROVE  KeyTypes' /\ Stands' /\ Brought' /\ Page' /\ Right'
  BY <1>3, ChangeKeeps
<1>4. ASSUME NEW w \in Admins, Take(w) \/ Write(w) \/ Reply(w) \/ Dies(w)
      PROVE  KeyTypes' /\ Stands' /\ Brought' /\ Page' /\ Right'
  BY <1>4, TakeKeeps, WriteKeeps, ReplyKeeps, DiesKeeps
<1>5. ASSUME NEW h \in Hosts, NEW n \in Names, NEW what \in {"issue", "rotate", "revoke"}, HostReads(h, n, what)
      PROVE  KeyTypes' /\ Stands' /\ Brought' /\ Page' /\ Right'
  BY <1>5, HostReadsKeeps
<1>6. ASSUME NEW h \in Hosts, HostWrites(h) \/ Dies(h)
      PROVE  KeyTypes' /\ Stands' /\ Brought' /\ Page' /\ Right'
  BY <1>6, HostWritesKeeps, DiesKeeps
<1>7. ASSUME ByHand
      PROVE  KeyTypes' /\ Stands' /\ Brought' /\ Page' /\ Right'
  BY <1>7, ByHandKeeps
<1>8. ASSUME UNCHANGED tokenVars
      PROVE  KeyTypes' /\ Stands' /\ Brought' /\ Page' /\ Right'
  <2>1. UNCHANGED <<conf, adm, known, busy, flock, act, fresh, given, ended, hosted>>
    BY <1>8 DEF tokenVars
  <2>2. Paged' = Paged /\ Held(adm)' = Held(adm)
    BY <2>1 DEF Paged, Held
  <2>3. KeyTypes' /\ Stands' /\ Brought'
    BY <2>1 DEF KeyTypes, Stands, Brought, At
  <2>4. Right'
    BY <2>1, RequestsRest DEF Right
  <2>5. PagedApart' /\ Made'
    BY <2>1, <2>2 DEF Page, PagedApart, Made, At
  <2>6. HomeBefore'
    BY <2>1 DEF Page, HomeBefore, Writing
  <2> QED
    BY <2>3, <2>4, <2>5, <2>6 DEF Page
<1>9. CASE TokensNext
  <2>1. CASE \E q \in Askers \intersect team : (\E t \in Tokens : Present(q, t)) \/ StatAdmin(q) \/ Enter(q) \/ Build(q) \/ Leave(q)
    BY <1>1, <1>2, <2>1
  <2>2. CASE \E w \in Admins \intersect team :
               \/ \E n \in Names, by \in Names \union {Nobody}, what \in {"issue", "rotate", "revoke"} : Change(w, n, what, by)
               \/ Take(w) \/ Write(w) \/ Reply(w) \/ Dies(w)
    BY <1>3, <1>4, <2>2
  <2>3. CASE \E h \in Hosts \intersect team :
               (\E n \in Names, what \in {"issue", "rotate", "revoke"} : HostReads(h, n, what)) \/ HostWrites(h) \/ Dies(h)
    BY <1>5, <1>6, <2>3
  <2> QED
    BY <1>7, <1>9, <2>1, <2>2, <2>3 DEF TokensNext
<1> QED
  BY <1>8, <1>9

\* principal.py, admin_tokens.py: requests are judged by the files of their time, the
\* tokens the page has shown are in its file until it ends them and never after, and a
\* name has two homes only by the host's doing -- however many requests,
\* administrators and scripts there are.
THEOREM KeysStayTrue ==
  TokensSpec => []KeysAgree
<1>1. KeyInv => KeysAgree
  <2> SUFFICES ASSUME KeyInv
               PROVE  KeysAgree
    OBVIOUS
  <2>1. conf.toks \in [Names -> 0..MaxTokens] /\ adm.toks \in [Names -> 0..MaxTokens]
    BY DEF KeyInv, KeyTypes, File
  <2>2. TokensTypeOK
    BY <2>1 DEF KeyInv, KeyTypes, TokensTypeOK
  <2>3. AnswersCurrent /\ OneHome
    BY DEF KeyInv, HomeBefore, OneHome
  <2>4. ShownIsKept /\ EndedIsOut
    BY DEF KeyInv, PagedApart, Paged, ShownIsKept, EndedIsOut
  <2> QED
    BY <2>2, <2>3, <2>4 DEF KeysAgree
<1> QED
  BY <1>1, KeysStart, KeysStep, PTL DEF TokensSpec

-----------------------------------------------------------------------------
(* Answers. *)

\* How often the model was asked before each stage.
TimesAsked ==
  /\ stage \in {"search", "ask"} => heard = 0
  /\ stage = "again" => heard = 1
  /\ stage = "rewrite" => heard \in 1..2
  /\ stage = "stream" => heard <= MaxDeltas
\* The answer is the model's text until the code adds to it; its citations stay the
\* model's, but where a stream is given a list.
Kept ==
  /\ stage \notin {"finalize", "done"} => answer = model
  /\ llmError = "no" /\ (~Stream \/ model.cites # {}) => answer.cites = model.cites
\* Nothing is said of an answer before the end.
Unsaid == (stage # "done" => result = NoResult) /\ (stage = "search" => llmError = "no")
AnswersInv == AnswersAreEarned /\ asked \in Inquiry /\ IsFiniteSet(model.cites) /\ TimesAsked /\ Kept /\ Unsaid

LEMMA LevelsAre ==
  ASSUME asked \in Inquiry
  PROVE  Retrieval \in 1..4 /\ Levels.abstain = 0
<1>1. asked.found.trust \in {"empty", "weak", "medium", "strong"}
  BY AnswersAssumption
<1>2. Levels["empty"] = 1 /\ Levels["weak"] = 2 /\ Levels["medium"] = 3 /\ Levels["strong"] = 4 /\ Levels.abstain = 0
  BY DEF Levels, Weak, Medium, Strong
<1> QED
  BY <1>1, <1>2 DEF Retrieval

\* What a level takes.
LEMMA LevelTakes ==
  ASSUME asked \in Inquiry, NEW n, NEW faith
  PROVE  /\ Level(n, faith) \in 0..4
         /\ n \in Nat => /\ Level(n, faith) >= Medium => Retrieval >= Level(n, faith)
                         /\ Level(n, faith) = Medium => n >= 1
                         /\ Level(n, faith) = Strong => n >= 2
                         /\ Level(n, faith) # 0 /\ Retrieval = Weak => n >= 1
<1>1. Retrieval \in 1..4 /\ Levels.abstain = 0
  BY LevelsAre
<1>2. /\ Evidence(n) \in {2, 3, 4} /\ (Evidence(n) = 4 => n >= 2) /\ (Evidence(n) = 3 => n >= 1)
  BY DEF Evidence, Weak, Medium, Strong
<1> QED
  BY <1>1, <1>2 DEF Level, Lesser, Weak, Medium, Strong

\* Before the end of the text nothing is at stake but the types.
SaysOn == asked' = asked /\ llmError' \in {"no", "empty", "error"} /\ result' = result /\ result = NoResult
LEMMA StillWriting ==
  ASSUME AnswersInv, SaysOn, stage' \in {"ask", "again", "rewrite", "stream", "finish", "broken"},
         model' \in Text, answer' = model', IsFiniteSet(model'.cites), heard' \in 0..(MaxDeltas + 3), TimesAsked'
  PROVE  AnswersInv'
<1>1. result'.used = {} /\ result'.level = 0
  BY DEF SaysOn, NoResult
<1>2. AnswersTypeOK'
  BY <1>1 DEF AnswersTypeOK, SaysOn
<1>3. TrustIsEarned' /\ FailureIsHonest'
  BY DEF TrustIsEarned, FailureIsHonest, Done
<1>4. asked' \in Inquiry /\ Kept' /\ Unsaid'
  BY DEF AnswersInv, SaysOn, Kept, Unsaid
<1> QED
  BY <1>2, <1>3, <1>4 DEF AnswersInv, AnswersAreEarned

LEMMA WritingOn ==
  ASSUME AnswersInv,
         Prepare \/ EndOfStream \/ Fail \/ Break \/ \E r \in Says : Complete(r) \/ Again(r) \/ Rewrite(r) \/ Delta(r)
  PROVE  AnswersInv'
<1> USE AnswersAssumption
<1>1. model \in Text /\ IsFiniteSet(model.cites) /\ asked \in Inquiry /\ llmError \in {"no", "empty", "error"} /\ heard \in 0..(MaxDeltas + 3)
  BY DEF AnswersInv, AnswersAreEarned, AnswersTypeOK
<1>2. stage \notin {"finalize", "done"} => answer = model /\ result = NoResult
  BY DEF AnswersInv, Kept, Unsaid
<1>3. \A r \in Says : r \in Text /\ IsFiniteSet(r.cites)
  OBVIOUS
<1>4. TimesAsked
  BY DEF AnswersInv
<1>5. CASE Prepare
  <2>1. stage = "search" /\ UNCHANGED <<asked, model, answer, llmError, heard>> /\ llmError = "no" /\ heard = 0
    BY <1>4, <1>5 DEF Prepare, AnswersInv, Unsaid, TimesAsked
  <2>2. CASE stage' = "done"
    <3>1. result' = Refuse /\ packed' = packed
      BY <1>5, <2>2 DEF Prepare
    <3>2. result'.used = {} /\ result'.level = 0 /\ result'.shown = "refusal"
      BY <3>1 DEF Refuse
    <3>3. AnswersTypeOK'
      BY <2>1, <2>2, <3>2 DEF AnswersInv, AnswersAreEarned, AnswersTypeOK
    <3>4. TrustIsEarned' /\ FailureIsHonest'
      BY <2>1, <3>2 DEF TrustIsEarned, FailureIsHonest, Medium
    <3>5. TimesAsked' /\ Kept' /\ Unsaid'
      BY <1>2, <2>1, <2>2 DEF TimesAsked, Kept, Unsaid
    <3> QED
      BY <1>1, <2>1, <3>3, <3>4, <3>5 DEF AnswersInv, AnswersAreEarned
  <2>3. CASE stage' # "done"
    <3>1. stage' \in {"ask", "stream"} /\ result' = result
      BY <1>5, <2>3 DEF Prepare
    <3>2. TimesAsked'
      BY <2>1, <3>1 DEF TimesAsked
    <3> QED
      BY <1>1, <1>2, <2>1, <3>1, <3>2, StillWriting DEF SaysOn
  <2> QED
    BY <2>2, <2>3
<1>6. CASE EndOfStream
  <2>1. stage' = "finish" /\ stage = "stream" /\ UNCHANGED <<asked, model, answer, llmError, heard, result>>
    BY <1>6 DEF EndOfStream
  <2> QED
    BY <1>1, <1>2, <2>1, StillWriting DEF SaysOn, TimesAsked
<1>7. CASE Fail \/ Break
  <2>1. /\ stage' \in {"finish", "broken"} /\ stage \in {"ask", "again", "rewrite", "stream"}
        /\ UNCHANGED <<asked, model, answer, heard, result>> /\ llmError' \in {llmError, "error"}
    BY <1>7 DEF Fail, Break
  <2> QED
    BY <1>1, <1>2, <2>1, StillWriting DEF SaysOn, TimesAsked
<1>8. ASSUME NEW r \in Says, Complete(r)
      PROVE  AnswersInv'
  <2>1. stage = "ask" /\ stage' \in {"again", "rewrite", "finish"} /\ model' = r /\ answer' = r /\ heard' = heard + 1
        /\ UNCHANGED <<asked, llmError, result>> /\ heard = 0
    BY <1>4, <1>8 DEF Complete, Says1, TimesAsked
  <2>2. TimesAsked'
    BY <2>1 DEF TimesAsked
  <2> QED
    BY <1>1, <1>2, <1>3, <2>1, <2>2, StillWriting DEF SaysOn
<1>9. ASSUME NEW r \in Says, Again(r)
      PROVE  AnswersInv'
  <2>1. stage = "again" /\ stage' \in {"rewrite", "finish"} /\ model' = r /\ answer' = r /\ heard' = heard + 1
        /\ UNCHANGED <<asked, llmError, result>> /\ heard = 1
    BY <1>4, <1>9 DEF Again, Says1, TimesAsked
  <2>2. TimesAsked'
    BY <2>1 DEF TimesAsked
  <2> QED
    BY <1>1, <1>2, <1>3, <2>1, <2>2, StillWriting DEF SaysOn
<1>10. ASSUME NEW r \in Says, Rewrite(r)
       PROVE  AnswersInv'
  <2>1. stage = "rewrite" /\ stage' = "finish" /\ heard' = heard + 1 /\ UNCHANGED <<asked, llmError, result>> /\ heard \in 1..2
    BY <1>4, <1>10 DEF Rewrite, Says1, TimesAsked
  <2>2. model' \in {model, r} /\ answer' = model'
    BY <1>2, <1>10, <2>1 DEF Rewrite, Says1
  <2>3. TimesAsked'
    BY <2>1 DEF TimesAsked
  <2> QED
    BY <1>1, <1>2, <1>3, <2>1, <2>2, <2>3, StillWriting DEF SaysOn
<1>11. ASSUME NEW r \in Says, Delta(r)
       PROVE  AnswersInv'
  <2>1. stage = "stream" /\ stage' = "stream" /\ heard' = heard + 1 /\ UNCHANGED <<asked, llmError, result>> /\ heard < MaxDeltas
    BY <1>11 DEF Delta
  <2>2. model' = Joined(model, r) /\ answer' = model'
    BY <1>11 DEF Delta
  <2>3. Joined(model, r) \in Text
    BY <1>1, <1>3 DEF Joined, Text
  <2>4. IsFiniteSet(Joined(model, r).cites)
    <3>1. IsFiniteSet(model.cites \union r.cites)
      BY <1>1, <1>3, FS_Union
    <3> QED
      BY <1>3, <3>1 DEF Joined
  <2>5. TimesAsked'
    BY <1>1, <2>1 DEF TimesAsked
  <2>6. heard' \in 0..(MaxDeltas + 3)
    BY <1>1, <2>1
  <2> QED
    BY <1>1, <1>2, <2>1, <2>2, <2>3, <2>4, <2>5, <2>6, StillWriting DEF SaysOn
<1> QED
  BY <1>5, <1>6, <1>7, <1>8, <1>9, <1>10, <1>11

\* What the code adds to a text that cites nothing is no citation, but in a stream.
LEMMA Closing ==
  ASSUME AnswersInv, Close
  PROVE  AnswersInv'
<1>1. stage = "finish" /\ stage' = "finalize" /\ UNCHANGED <<asked, packed, model, heard, result>>
  BY DEF Close
<1>2. model \in Text /\ answer = model /\ result = NoResult /\ llmError \in {"no", "empty", "error"} /\ heard \in 0..(MaxDeltas + 3)
  BY <1>1 DEF AnswersInv, AnswersAreEarned, AnswersTypeOK, Kept, Unsaid
<1>3. llmError' \in {"no", "empty", "error"} /\ (llmError' = "no" => llmError = "no")
  BY <1>2 DEF Close
<1>4. Listed \subseteq Nat /\ Marked \in {Listed, {}} /\ (~Stream => Marked = {})
  BY DEF Listed, Marked
<1> DEFINE marked == [answer EXCEPT !.cites = Marked, !.long = TRUE]
<1>5. answer' = IF llmError = "no" /\ Uncited(answer) THEN marked ELSE answer
  BY DEF Close
<1>6. marked \in Text /\ marked.cites = Marked
  BY <1>2, <1>4 DEF Text
<1> HIDE DEF marked
<1>7. answer' \in Text
  BY <1>2, <1>5, <1>6
<1>8. llmError = "no" /\ (~Stream \/ model.cites # {}) => answer'.cites = model.cites
  BY <1>2, <1>4, <1>5, <1>6 DEF Uncited
<1>9. Kept'
  BY <1>1, <1>3, <1>8 DEF Kept, Stream
<1>10. AnswersTypeOK' /\ TimesAsked' /\ Unsaid'
  BY <1>1, <1>2, <1>3, <1>7 DEF AnswersInv, AnswersAreEarned, AnswersTypeOK, TimesAsked, Unsaid
<1>11. TrustIsEarned' /\ FailureIsHonest'
  BY <1>1 DEF TrustIsEarned, FailureIsHonest, Done
<1> QED
  BY <1>1, <1>9, <1>10, <1>11 DEF AnswersInv, AnswersAreEarned

\* The level rests on the citations that count, and those are the model's.
LEMMA Finalizing ==
  ASSUME AnswersInv, NEW faith, Finalize(faith)
  PROVE  AnswersInv'
<1> DEFINE n == Verified(Used)
           level == Level(n, faith)
<1>1. stage = "finalize" /\ stage' = "done" /\ UNCHANGED <<asked, packed, model, answer, llmError, heard>>
  BY DEF Finalize
<1>2. result' = [used |-> Used, abstained |-> level = Levels.abstain,
                 level |-> IF llmError # "no" THEN Lesser(level, Weak) ELSE level,
                 shown |-> IF llmError # "no" THEN "snippets" ELSE IF level = Levels.abstain THEN "sources" ELSE "text"]
  BY DEF Finalize
<1>3. asked \in Inquiry /\ Levels.abstain = 0 /\ Retrieval' = Retrieval
  BY <1>1, LevelsAre DEF AnswersInv, Retrieval
<1> HIDE DEF n
<1>4. /\ level \in 0..4
      /\ n \in Nat => /\ level >= Medium => Retrieval >= level
                      /\ level = Medium => n >= 1
                      /\ level = Strong => n >= 2
                      /\ level # 0 /\ Retrieval = Weak => n >= 1
  BY <1>3, LevelTakes
<1> HIDE DEF level
<1>5. /\ result'.used = Used
      /\ llmError # "no" => result'.level = Lesser(level, Weak) /\ result'.shown = "snippets"
      /\ llmError = "no" => result'.level = level /\ (result'.shown = "text" => level # 0)
  BY <1>2, <1>3
<1>6. Lesser(level, Weak) \in 0..2
  BY <1>4 DEF Lesser, Weak
<1>7. Used \subseteq DOMAIN packed /\ (llmError # "no" => Used = {})
  BY DEF Used
<1>8. AnswersTypeOK'
  BY <1>1, <1>4, <1>5, <1>6, <1>7 DEF AnswersInv, AnswersAreEarned, AnswersTypeOK
<1>9. FailureIsHonest'
  BY <1>1, <1>5, <1>6, <1>7 DEF FailureIsHonest, Weak
<1>10. TrustIsEarned'
  <2> SUFFICES ASSUME ~Stream \/ model.cites # {}
               PROVE  /\ result'.level >= Medium => Cardinality(OwnVerified) >= result'.level - Weak /\ Retrieval >= result'.level
                      /\ result'.shown = "text" /\ Retrieval = Weak => OwnVerified # {}
    BY <1>1, <1>3 DEF TrustIsEarned, Done, OwnVerified, Stream
  <2>1. CASE llmError # "no"
    BY <1>5, <1>6, <2>1 DEF Medium
  <2>2. CASE llmError = "no"
    <3>1. Used = model.cites \intersect DOMAIN packed
      BY <2>2 DEF AnswersInv, Kept, Used
    <3>2. n = Cardinality(OwnVerified)
      BY <3>1 DEF n, Verified, OwnVerified
    <3>3. IsFiniteSet(OwnVerified)
      <4>1. OwnVerified \subseteq model.cites /\ IsFiniteSet(model.cites)
        BY DEF OwnVerified, AnswersInv
      <4> QED
        BY <4>1, FS_Subset
    <3>4. n \in Nat /\ (OwnVerified = {} => n = 0)
      BY <3>2, <3>3, FS_CardinalityType, FS_EmptySet
    <3> QED
      BY <1>4, <1>5, <2>2, <3>2, <3>4 DEF Medium, Strong, Weak
  <2> QED
    BY <2>1, <2>2
<1>11. TimesAsked' /\ Kept' /\ Unsaid'
  BY <1>1 DEF AnswersInv, TimesAsked, Kept, Unsaid, Stream
<1> QED
  BY <1>1, <1>3, <1>8, <1>9, <1>10, <1>11 DEF AnswersInv, AnswersAreEarned

\* rag/pipeline.py, trust/engine.py: whatever the model says, in whatever pieces, and
\* wherever it fails, an answer is called no better than the sources the model cited
\* allow, and an answer without the model claims none.
THEOREM TrustStays ==
  AnswersSpec => []AnswersAreEarned
<1>1. AnswersInit => AnswersInv
  <2> SUFFICES ASSUME AnswersInit
               PROVE  AnswersInv
    OBVIOUS
  <2>1. NoText \in Text /\ NoText.cites = {} /\ IsFiniteSet({})
    BY FS_EmptySet DEF NoText, Text
  <2>2. NoResult.used = {} /\ NoResult.level = 0
    BY DEF NoResult
  <2>3. AnswersTypeOK
    BY <2>1, <2>2, AnswersAssumption DEF AnswersInit, AnswersTypeOK
  <2>4. TrustIsEarned /\ FailureIsHonest
    BY DEF AnswersInit, TrustIsEarned, FailureIsHonest, Done
  <2> QED
    BY <2>1, <2>3, <2>4 DEF AnswersInit, AnswersInv, AnswersAreEarned, TimesAsked, Kept, Unsaid
<1>2. AnswersInv /\ [AnswersNext]_answerVars => AnswersInv'
  <2> SUFFICES ASSUME AnswersInv, [AnswersNext]_answerVars
               PROVE  AnswersInv'
    OBVIOUS
  <2>1. CASE UNCHANGED answerVars
    BY <2>1 DEF answerVars, AnswersInv, AnswersAreEarned, AnswersTypeOK, TrustIsEarned, FailureIsHonest, Done, OwnVerified, Stream,
       Retrieval, TimesAsked, Kept, Unsaid
  <2>2. CASE AnswersNext
    BY <2>2, WritingOn, Closing, Finalizing DEF AnswersNext
  <2> QED
    BY <2>1, <2>2
<1>3. AnswersInv => AnswersAreEarned
  BY DEF AnswersInv
<1> QED
  BY <1>1, <1>2, <1>3, PTL DEF AnswersSpec
=============================================================================
