--------------------------- MODULE BackfillProofs ---------------------------
(***************************************************************************)
(* The state file of the backfill is true, for any sources, pages, calls,   *)
(* processes, failures and deaths, and any limits: what it shows as crawled *)
(* has a file or is on record as missing, and its `ok' means that all of it *)
(* is ingested and embedded.                                                *)
(***************************************************************************)
EXTENDS MapBackfill, TLAPS

Waiting  == {"loaded", "locking"}
Crawling == {"crawl", "record", "again", "retry"}
Closing  == {"ingest", "ingested", "embed", "finish", "unlock"}
Holding  == Crawling \union Closing

Item    == {"page", "list"} \X Pages \X Nat
SrcRow  == [status : {"none", "crawled", "error"}, attempts : Nat]
Phases  == {"idle", "starting", "crawl", "retry-source", "retry", "ingest", "embed", "done"}
Memory  == [phase : Phases, src : [Sources -> SrcRow], left : SUBSET Item,
            ingest : {"none", "done", "error"}, ok : {"unknown", "yes", "no"}]
Place   == {"idle"} \union Waiting \union Holding
Process == [pc : Place, st : Memory, todo : SUBSET Sources, seen : SUBSET Sources,
            again : SUBSET Sources, fails : SUBSET Item, crawled : BOOLEAN, try : Nat, clean : BOOLEAN]
Types ==
  /\ state \in Memory /\ act \in [Runs -> Process] /\ lock \subseteq Runs
  /\ raw \subseteq Pages /\ docs \subseteq raw /\ vecs \subseteq docs

\* The lock is held by one process at a time, by those that are past it.
OneHolder ==
  /\ \A r, q \in lock : r = q
  /\ \A r \in Runs : r \in lock <=> act[r].pc \in Holding

\* What the run that holds the lock has on its list of failures.
InHand == UNION {Forgotten(act[r].fails) : r \in lock}
Known  == raw \union gap \union InHand
OnFile == Forgotten(state.left)
Listed(st, S) == \A s \in Sources : st.src[s].status = "crawled" => PagesOf(s) \subseteq S

\* The leftovers and the crawled sources that the file, a run that waits for the lock and
\* the run that has it know of.
Kept ==
  /\ lock # {} => OnFile \subseteq Known
  /\ Listed(state, Known \union OnFile)
  /\ \A r \in Runs : act[r].pc \in Waiting =>
       /\ act[r].fails = act[r].st.left
       /\ Forgotten(act[r].st.left) \subseteq Known \union OnFile
       /\ Listed(act[r].st, Known \union OnFile)
  /\ \A r \in lock : Forgotten(act[r].st.left) \subseteq Known /\ Listed(act[r].st, Known)
  /\ \A r \in lock : act[r].pc \in Closing =>
       act[r].st.left = act[r].fails /\ Forgotten(act[r].fails) \subseteq raw \union gap \union OnFile

\* Files without a document are accounted for while somebody says that the ingest is done.
AllIngested == raw \subseteq docs \union gap
Ingested ==
  /\ state.ingest = "done" /\ (\A r \in lock : act[r].pc \notin Crawling \union {"ingest", "ingested"}) => AllIngested
  /\ \A r \in lock :
       /\ act[r].pc \in Closing \ {"ingest"} /\ (act[r].st.ingest = "done" \/ act[r].clean) => AllIngested
       /\ act[r].pc \in Crawling \union {"ingest"} /\ ~act[r].crawled /\ act[r].st.ingest = "done" => AllIngested

Inv == Types /\ OneHolder /\ Kept /\ Ingested /\ OkIsTrue

-----------------------------------------------------------------------------
(* Lists of failures, and records.                                           *)

\* The places of a process by name.
LEMMA Places ==
  /\ "idle" \in Place /\ "loaded" \in Place /\ "locking" \in Place /\ Holding \subseteq Place
  /\ \A p \in {"crawl", "record", "again", "retry"} : p \in Holding /\ p \in Crawling /\ p \notin Closing /\ p \notin Waiting
  /\ \A p \in {"ingest", "ingested", "embed", "finish", "unlock"} : p \in Holding /\ p \notin Crawling /\ p \in Closing /\ p \notin Waiting
  /\ \A p \in {"idle", "loaded", "locking"} : p \notin Holding
BY DEF Place, Waiting, Holding, Crawling, Closing

\* A page is covered by a list of failures when one of them covers it.
LEMMA ListCovers ==
  ASSUME NEW S, NEW p
  PROVE  p \in Forgotten(S) <=> \E i \in S : p \in Covers(i)
BY DEF Forgotten

\* Longer lists cover more, and what is taken off a list is covered beside the rest.
LEMMA ListsGrow ==
  ASSUME NEW S, NEW T
  PROVE  /\ S \subseteq T => Forgotten(S) \subseteq Forgotten(T)
         /\ Forgotten(S) \subseteq Forgotten(S \ T) \union Forgotten(T)
         /\ Forgotten(S \union T) = Forgotten(S) \union Forgotten(T)
         /\ Forgotten({}) = {}
BY DEF Forgotten

\* A failure covers pages.
LEMMA CoversPages ==
  ASSUME NEW i \in Item
  PROVE  Covers(i) \subseteq Pages
BY DEF Item, Covers, Batch, Behind, PagesOf
LEMMA ListsCoverPages ==
  ASSUME NEW S \in SUBSET Item
  PROVE  Forgotten(S) \subseteq Pages
BY CoversPages, ListCovers

\* One run has the lock: what is in hand is its list.
LEMMA HandOfHolder ==
  ASSUME OneHolder, NEW r \in lock
  PROVE  lock = {r} /\ InHand = Forgotten(act[r].fails)
BY DEF OneHolder, InHand
LEMMA NoHand ==
  ASSUME lock = {}
  PROVE  InHand = {}
BY DEF InHand

\* `ok' stays true while nothing that is there is taken away.
LEMMA OkStays ==
  ASSUME OkIsTrue, state' = state \/ state'.phase # "done",
         raw \subseteq raw', docs \subseteq docs', vecs \subseteq vecs', gap \subseteq gap'
  PROVE  OkIsTrue'
<1>1. CASE state'.phase # "done"
  BY <1>1 DEF OkIsTrue
<1>2. CASE state' = state
  BY <1>2 DEF OkIsTrue, PagesOf
<1> QED
  BY <1>1, <1>2

\* What the run with the lock does to its memory and to the file leaves nobody
\* ignorant, if it keeps or fetches what it had on its list.
LEMMA HolderMoves ==
  ASSUME Types, OneHolder, Kept, NEW r \in Runs, r \in lock, NEW k,
         act' = [act EXCEPT ![r] = k], lock' = lock, k.pc \in Holding,
         raw \subseteq raw', gap \subseteq gap',
         Forgotten(act[r].fails) \subseteq raw' \union gap' \union Forgotten(k.fails),
         Forgotten(k.st.left) \subseteq raw' \union gap' \union Forgotten(k.fails),
         Listed(k.st, raw' \union gap' \union Forgotten(k.fails)),
         \/ state' = state
         \/ state'.left = act[r].st.left /\ state'.src = act[r].st.src
         \/ state'.left = k.st.left /\ state'.src = k.st.src,
         k.pc \in Closing => k.st.left = k.fails /\ Forgotten(k.fails) \subseteq raw' \union gap' \union Forgotten(state'.left)
  PROVE  OneHolder' /\ Kept'
<1>1. act'[r] = k /\ \A q \in Runs \ {r} : act'[q] = act[q]
  BY DEF Types
<1>2. lock = {r} /\ InHand = Forgotten(act[r].fails)
  BY HandOfHolder
<1>3. OneHolder'
  BY <1>1 DEF OneHolder
<1>4. InHand' = Forgotten(k.fails)
  BY <1>1, <1>2 DEF InHand
<1>5. Known \subseteq Known'
  BY <1>2, <1>4 DEF Known
<1>6. Forgotten(k.st.left) \subseteq Known' /\ Listed(k.st, Known')
  BY <1>4 DEF Known
<1>7. Forgotten(act[r].st.left) \subseteq Known' /\ Listed(act[r].st, Known')
  BY <1>5 DEF Kept, Listed
<1>8. OnFile \subseteq Known' /\ Listed(state, Known')
  BY <1>2, <1>5 DEF Kept, Listed
<1>9. OnFile' \subseteq Known' /\ Listed(state', Known')
  BY <1>6, <1>7, <1>8 DEF OnFile, Listed
<1>10. \A q \in Runs : act[q].pc \in Waiting => q # r
  BY DEF OneHolder, Waiting, Holding, Crawling, Closing
<1>11. ASSUME NEW q \in Runs, act'[q].pc \in Waiting
       PROVE  /\ act'[q].fails = act'[q].st.left
              /\ Forgotten(act'[q].st.left) \subseteq Known' /\ Listed(act'[q].st, Known')
  <2>1. q # r
    BY <1>1, <1>11 DEF Waiting, Holding, Crawling, Closing
  <2>2. act'[q] = act[q]
    BY <1>1, <2>1
  <2>3. OnFile \subseteq Known
    BY <1>2 DEF Kept
  <2>4. act[q].fails = act[q].st.left /\ Forgotten(act[q].st.left) \subseteq Known /\ Listed(act[q].st, Known)
    BY <1>11, <2>2, <2>3 DEF Kept, Listed
  <2> QED
    BY <1>5, <2>2, <2>4 DEF Listed
<1>12. \A q \in lock' : Forgotten(act'[q].st.left) \subseteq Known' /\ Listed(act'[q].st, Known')
  BY <1>1, <1>2, <1>6
<1>13. \A q \in lock' : act'[q].pc \in Closing =>
         act'[q].st.left = act'[q].fails /\ Forgotten(act'[q].fails) \subseteq raw' \union gap' \union OnFile'
  BY <1>1, <1>2 DEF OnFile
<1>14. Kept'
  BY <1>9, <1>11, <1>12, <1>13 DEF Kept, Listed
<1> QED
  BY <1>3, <1>14

\* The same for who says what is ingested.
LEMMA HolderIngests ==
  ASSUME Types, OneHolder, NEW r \in Runs, r \in lock, NEW k,
         act' = [act EXCEPT ![r] = k], lock' = lock,
         state'.ingest = "done" /\ k.pc \notin Crawling \union {"ingest", "ingested"} => AllIngested',
         k.pc \in Closing \ {"ingest"} /\ (k.st.ingest = "done" \/ k.clean) => AllIngested',
         k.pc \in Crawling \union {"ingest"} /\ ~k.crawled /\ k.st.ingest = "done" => AllIngested'
  PROVE  Ingested'
<1>1. act'[r] = k /\ lock' = {r}
  BY HandOfHolder DEF Types
<1> QED
  BY <1>1 DEF Ingested

\* What the run with the lock knows.
LEMMA Holder ==
  ASSUME Inv, NEW r \in Runs, act[r].pc \in Holding
  PROVE  /\ r \in lock /\ act[r] \in Process /\ act[r].st \in Memory
         /\ Forgotten(act[r].st.left) \subseteq raw \union gap \union Forgotten(act[r].fails)
         /\ Listed(act[r].st, raw \union gap \union Forgotten(act[r].fails))
<1>1. r \in lock
  BY DEF Inv, OneHolder
<1>2. Known = raw \union gap \union Forgotten(act[r].fails)
  BY <1>1, HandOfHolder DEF Inv, Known
<1>3. act[r] \in Process /\ act[r].st \in Memory
  BY DEF Inv, Types, Process
<1> QED
  BY <1>1, <1>2, <1>3 DEF Inv, Kept

\* A process changes only its own place.
LEMMA TypesOfMove ==
  ASSUME Types, NEW r \in Runs, NEW k \in Process, act' = [act EXCEPT ![r] = k], state' \in Memory,
         lock' \subseteq Runs, raw' \subseteq Pages, docs' \subseteq raw', vecs' \subseteq docs'
  PROVE  Types'
BY DEF Types

\* Steps of the run with the lock that keep its list and the files.
LEMMA HolderWrites ==
  ASSUME Inv, NEW r \in Runs, act[r].pc \in Holding, NEW k \in Process, k.pc \in Holding,
         act' = [act EXCEPT ![r] = k], UNCHANGED <<lock, raw, gap>>,
         k.fails = act[r].fails, k.st.src = act[r].st.src,
         docs \subseteq docs', docs' \subseteq raw, vecs \subseteq vecs', vecs' \subseteq docs',
         \/ k.st.left = act[r].st.left /\ (k.pc \in Closing => act[r].pc \in Closing)
         \/ k.st.left = k.fails /\ state'.left = k.st.left,
         \/ state' = state
         \/ state' \in Memory /\ state'.left = k.st.left /\ state'.src = k.st.src
  PROVE  Types' /\ OneHolder' /\ Kept'
<1>1. /\ Types /\ OneHolder /\ Kept /\ r \in lock
      /\ Forgotten(act[r].st.left) \subseteq raw \union gap \union Forgotten(act[r].fails)
      /\ Listed(act[r].st, raw \union gap \union Forgotten(act[r].fails))
  BY Holder DEF Inv
<1>2. Types'
  <2>1. state' \in Memory /\ raw' \subseteq Pages /\ lock' \subseteq Runs /\ raw' = raw
    BY <1>1 DEF Types
  <2> QED
    BY <1>1, <2>1, TypesOfMove
<1>3. k.pc \in Closing => k.st.left = k.fails /\ Forgotten(k.fails) \subseteq raw' \union gap' \union Forgotten(state'.left)
  <2>1. CASE k.st.left = k.fails /\ state'.left = k.st.left
    BY <2>1
  <2>2. CASE k.st.left = act[r].st.left /\ (k.pc \in Closing => act[r].pc \in Closing)
    <3> SUFFICES ASSUME k.pc \in Closing
                 PROVE  k.st.left = k.fails /\ Forgotten(k.fails) \subseteq raw' \union gap' \union Forgotten(state'.left)
      OBVIOUS
    <3>1. act[r].st.left = act[r].fails /\ Forgotten(act[r].fails) \subseteq raw \union gap \union OnFile
      BY <1>1, <2>2 DEF Kept
    <3> QED
      BY <2>2, <3>1 DEF OnFile
  <2> QED
    BY <2>1, <2>2
<1>4. Forgotten(k.st.left) \subseteq raw' \union gap' \union Forgotten(k.fails) /\ Listed(k.st, raw' \union gap' \union Forgotten(k.fails))
  BY <1>1 DEF Listed
<1>5. OneHolder' /\ Kept'
  <2>1. /\ act' = [act EXCEPT ![r] = k] /\ lock' = lock /\ raw \subseteq raw' /\ gap \subseteq gap'
        /\ Forgotten(act[r].fails) \subseteq raw' \union gap' \union Forgotten(k.fails)
        /\ \/ state' = state
           \/ state'.left = act[r].st.left /\ state'.src = act[r].st.src
           \/ state'.left = k.st.left /\ state'.src = k.st.src
    OBVIOUS
  <2> HIDE DEF Listed
  <2> QED
    BY <1>1, <1>3, <1>4, <2>1, HolderMoves
<1> QED
  BY <1>2, <1>5

-----------------------------------------------------------------------------
(* The steps of the run that has the lock.                                   *)

\* _touch() writes the memory it leaves behind.
LEMMA TouchWrites ==
  ASSUME NEW k \in Process, NEW phase \in Phases, NEW w, w = [k EXCEPT !.st.phase = phase],
         NEW m, m = [k.st EXCEPT !.phase = phase]
  PROVE  /\ w \in Process /\ m \in Memory /\ w.st = m /\ m.phase = phase
         /\ m.left = k.st.left /\ m.src = k.st.src /\ m.ingest = k.st.ingest /\ m.ok = k.st.ok
         /\ w.pc = k.pc /\ w.fails = k.fails /\ w.crawled = k.crawled /\ w.clean = k.clean
BY DEF Process, Memory

LEMMA SkipStep ==
  ASSUME Inv, NEW r \in Runs, Skip(r)
  PROVE  Inv'
<1>1. act[r].pc \in Holding /\ act[r].pc \in Crawling
  BY DEF Skip, Holding, Crawling
<1>2. r \in lock /\ act[r] \in Process
  BY <1>1, Holder
<1>3. PICK s \in act[r].todo : act' = [act EXCEPT ![r] = [act[r] EXCEPT !.todo = @ \ {s}]]
  BY DEF Skip, Go
<1> DEFINE k == [act[r] EXCEPT !.todo = @ \ {s}]
<1>4. /\ k \in Process /\ k.pc = act[r].pc /\ k.fails = act[r].fails /\ k.st = act[r].st
      /\ k.crawled = act[r].crawled /\ k.clean = act[r].clean
  BY <1>2 DEF Process
<1>5. act' = [act EXCEPT ![r] = k] /\ UNCHANGED <<state, lock, raw, docs, vecs, gap>>
  BY <1>3 DEF Skip, stores
<1> HIDE DEF k
<1>6. docs \subseteq raw /\ vecs \subseteq docs
  BY DEF Inv, Types
<1>7. k.pc \in Closing => act[r].pc \in Closing
  BY <1>4
<1>8. Types' /\ OneHolder' /\ Kept'
  BY <1>1, <1>4, <1>5, <1>6, <1>7, HolderWrites
<1>9. Ingested'
  <2>1. AllIngested' <=> AllIngested
    BY <1>5 DEF AllIngested
  <2>2. k.pc \in Crawling /\ k.pc \notin Closing
    BY <1>1, <1>4 DEF Crawling, Closing
  <2>3. k.pc \in Crawling \union {"ingest"} /\ ~k.crawled /\ k.st.ingest = "done" => AllIngested
    BY <1>1, <1>2, <1>4 DEF Inv, Ingested
  <2> QED
    BY <1>2, <1>5, <2>1, <2>2, <2>3, HolderIngests DEF Inv
<1> QED
  BY <1>5, <1>8, <1>9, OkStays DEF Inv

LEMMA RecordStep ==
  ASSUME Inv, NEW r \in Runs, Record(r)
  PROVE  Inv'
<1>1. act[r].pc \in Holding /\ act[r].pc \in Crawling
  BY DEF Record, Holding, Crawling
<1>2. r \in lock /\ act[r] \in Process
  BY <1>1, Holder
<1> DEFINE j == [act[r] EXCEPT !.pc = "crawl"]
           k == [j EXCEPT !.st.phase = "crawl"]
<1>3. /\ j \in Process /\ j.pc = "crawl" /\ j.fails = act[r].fails /\ j.st = act[r].st
      /\ j.crawled = act[r].crawled /\ j.clean = act[r].clean
  BY <1>2, Places DEF Process
<1>4. state' = [j.st EXCEPT !.phase = "crawl"] /\ act' = [act EXCEPT ![r] = k] /\ UNCHANGED <<lock, raw, docs, vecs, gap>>
  BY DEF Record, Touch, Go, stores
<1> HIDE DEF j
<1>5. /\ k \in Process /\ state' \in Memory /\ k.st = state' /\ state'.phase = "crawl" /\ k.st.left = act[r].st.left
      /\ k.st.src = act[r].st.src /\ k.st.ingest = act[r].st.ingest
      /\ k.pc = "crawl" /\ k.fails = act[r].fails /\ k.crawled = act[r].crawled /\ k.clean = act[r].clean
  <2>1. "crawl" \in Phases
    BY DEF Phases
  <2> QED
    BY <1>3, <1>4, <2>1, TouchWrites
<1> HIDE DEF k
<1>6. docs \subseteq raw /\ vecs \subseteq docs
  BY DEF Inv, Types
<1>7. k.pc \in Holding /\ k.pc \in Crawling /\ k.pc \notin Closing
  BY <1>5 DEF Holding, Crawling, Closing
<1>8. Types' /\ OneHolder' /\ Kept'
  BY <1>1, <1>4, <1>5, <1>6, <1>7, HolderWrites
<1>9. Ingested'
  <2>1. AllIngested' <=> AllIngested
    BY <1>4 DEF AllIngested
  <2>3. k.pc \in Crawling \union {"ingest"} /\ ~k.crawled /\ k.st.ingest = "done" => AllIngested
    BY <1>1, <1>2, <1>5 DEF Inv, Ingested
  <2> QED
    BY <1>2, <1>4, <1>7, <2>1, <2>3, HolderIngests DEF Inv
<1> QED
  BY <1>4, <1>5, <1>8, <1>9, OkStays DEF Inv

LEMMA CrawlsDoneStep ==
  ASSUME Inv, NEW r \in Runs, CrawlsDone(r)
  PROVE  Inv'
<1>1. act[r].pc \in Holding /\ act[r].pc \in Crawling
  BY DEF CrawlsDone, Holding, Crawling
<1>2. r \in lock /\ act[r] \in Process
  BY <1>1, Holder
<1>3. PICK k \in Process :
        /\ act' = [act EXCEPT ![r] = k] /\ k.pc \in {"again", "retry"} /\ k.fails = act[r].fails /\ k.st = act[r].st
        /\ k.crawled = act[r].crawled /\ k.clean = act[r].clean
  <2>1. CASE act[r].again # {} /\ act[r].try < RetryLimit
    <3> DEFINE k == [act[r] EXCEPT !.pc = "again", !.todo = act[r].again, !.again = {}, !.try = @ + 1]
    <3>1. /\ k \in Process /\ k.pc = "again" /\ k.fails = act[r].fails /\ k.st = act[r].st
          /\ k.crawled = act[r].crawled /\ k.clean = act[r].clean
      <4>1. "again" \in Place /\ act[r].again \in SUBSET Sources /\ {} \in SUBSET Sources /\ act[r].try + 1 \in Nat
        BY <1>2, Places DEF Process
      <4> DEFINE try == act[r].try + 1  empty == {}
      <4> HIDE DEF try, empty
      <4>2. k = [act[r] EXCEPT !.pc = "again", !.todo = act[r].again, !.again = empty, !.try = try]
        BY DEF try, empty
      <4>3. try \in Nat /\ empty \in SUBSET Sources
        BY <4>1 DEF try, empty
      <4> HIDE DEF k
      <4> QED
        BY <1>2, <4>1, <4>2, <4>3 DEF Process
    <3>2. act' = [act EXCEPT ![r] = k]
      BY <2>1 DEF CrawlsDone, Go
    <3> QED
      BY <3>1, <3>2
  <2>2. CASE ~(act[r].again # {} /\ act[r].try < RetryLimit)
    <3> DEFINE k == [act[r] EXCEPT !.pc = "retry", !.try = 0]
    <3>1. /\ k \in Process /\ k.pc = "retry" /\ k.fails = act[r].fails /\ k.st = act[r].st
          /\ k.crawled = act[r].crawled /\ k.clean = act[r].clean
      BY <1>2, Places DEF Process
    <3>2. act' = [act EXCEPT ![r] = k]
      BY <2>2 DEF CrawlsDone, Go
    <3> QED
      BY <3>1, <3>2
  <2> QED
    BY <2>1, <2>2
<1>5. UNCHANGED <<state, lock, raw, docs, vecs, gap>>
  BY DEF CrawlsDone, stores
<1>6. docs \subseteq raw /\ vecs \subseteq docs
  BY DEF Inv, Types
<1>7. k.pc \in Holding /\ k.pc \in Crawling /\ k.pc \notin Closing
  BY <1>3 DEF Holding, Crawling, Closing
<1>8. Types' /\ OneHolder' /\ Kept'
  BY <1>1, <1>3, <1>5, <1>6, <1>7, HolderWrites
<1>9. Ingested'
  <2>1. AllIngested' <=> AllIngested
    BY <1>5 DEF AllIngested
  <2>2. k.pc \in Crawling \union {"ingest"} /\ ~k.crawled /\ k.st.ingest = "done" => AllIngested
    BY <1>1, <1>2, <1>3 DEF Inv, Ingested
  <2> QED
    BY <1>2, <1>3, <1>5, <1>7, <2>1, <2>2, HolderIngests DEF Inv
<1> QED
  BY <1>5, <1>8, <1>9, OkStays DEF Inv

\* The list goes into the file.
LEMMA RetriesDoneStep ==
  ASSUME Inv, NEW r \in Runs, RetriesDone(r)
  PROVE  Inv'
<1>1. act[r].pc \in Holding /\ act[r].pc \in Crawling
  BY DEF RetriesDone, Holding, Crawling
<1>2. r \in lock /\ act[r] \in Process
  BY <1>1, Holder
<1> DEFINE j == Keep(act[r])
           k == [j EXCEPT !.st.phase = "retry"]
<1>3. /\ j \in Process /\ j.pc = "ingest" /\ j.fails = act[r].fails /\ j.st.left = act[r].fails /\ j.st.src = act[r].st.src
      /\ j.st.ingest = act[r].st.ingest /\ j.crawled = act[r].crawled /\ j.clean = act[r].clean
  BY <1>2, Places DEF Keep, Process, Memory
<1>4. state' = [j.st EXCEPT !.phase = "retry"] /\ act' = [act EXCEPT ![r] = k] /\ UNCHANGED <<lock, raw, docs, vecs, gap>>
  BY DEF RetriesDone, Touch, Go, stores
<1> HIDE DEF j
<1>5. /\ k \in Process /\ state' \in Memory /\ k.st = state' /\ state'.phase = "retry" /\ k.st.left = act[r].fails
      /\ k.st.src = act[r].st.src /\ k.st.ingest = act[r].st.ingest
      /\ k.pc = "ingest" /\ k.fails = act[r].fails /\ k.crawled = act[r].crawled /\ k.clean = act[r].clean
  <2>1. "retry" \in Phases
    BY DEF Phases
  <2> QED
    BY <1>3, <1>4, <2>1, TouchWrites
<1> HIDE DEF k
<1>6. docs \subseteq raw /\ vecs \subseteq docs
  BY DEF Inv, Types
<1>7. k.pc \in Holding /\ k.pc \notin Closing \ {"ingest"}
  BY <1>5 DEF Holding, Crawling, Closing
<1>8. Types' /\ OneHolder' /\ Kept'
  BY <1>1, <1>4, <1>5, <1>6, <1>7, HolderWrites
<1>9. Ingested'
  <2>1. AllIngested' <=> AllIngested
    BY <1>4 DEF AllIngested
  <2>2. k.pc \in Crawling \union {"ingest"} /\ ~k.crawled /\ k.st.ingest = "done" => AllIngested
    BY <1>1, <1>2, <1>5 DEF Inv, Ingested
  <2> QED
    BY <1>2, <1>4, <1>5, <1>7, <2>1, <2>2, HolderIngests DEF Inv
<1> QED
  BY <1>4, <1>5, <1>8, <1>9, OkStays DEF Inv

\* The ingest takes every file, or says that it failed.
LEMMA IngestStep ==
  ASSUME Inv, NEW r \in Runs, Ingest(r)
  PROVE  Inv'
<1>1. act[r].pc = "ingest" /\ act[r].pc \in Holding /\ act[r].pc \in Closing
  BY DEF Ingest, Holding, Closing
<1>2. r \in lock /\ act[r] \in Process /\ act[r].st \in Memory
  BY <1>1, Holder
<1>3. docs \subseteq raw /\ vecs \subseteq docs
  BY DEF Inv, Types
<1>4. UNCHANGED <<lock, raw, vecs, gap>>
  BY DEF Ingest
<1> DEFINE m == [act[r].st EXCEPT !.phase = "ingest"]
<1>5. m \in Memory /\ m.left = act[r].st.left /\ m.src = act[r].st.src /\ m.phase = "ingest"
  BY <1>2 DEF Memory, Phases
<1> DEFINE Result(k) ==
             /\ k \in Process /\ act' = [act EXCEPT ![r] = k] /\ k.fails = act[r].fails /\ k.st.left = act[r].st.left /\ k.st.src = act[r].st.src
             /\ k.pc \in {"ingest", "ingested"}
             /\ docs \subseteq docs' /\ docs' \subseteq raw /\ (state' = state \/ state' = m)
             /\ k.pc = "ingested" /\ (k.st.ingest = "done" \/ k.clean) => AllIngested'
             /\ k.pc = "ingest" => k.crawled = act[r].crawled /\ k.st.ingest = act[r].st.ingest
<1>6. \E k \in Process : Result(k)
  <2>1. CASE ~NeedIngest(act[r])
    <3> DEFINE k == [act[r] EXCEPT !.pc = "ingested", !.clean = TRUE]
    <3>1. k \in Process /\ k.pc = "ingested" /\ k.fails = act[r].fails /\ k.st = act[r].st
      BY <1>2, Places DEF Process
    <3>2. act' = [act EXCEPT ![r] = k] /\ state' = state /\ docs' = docs
      BY <2>1 DEF Ingest, Go
    <3>3. ~act[r].crawled /\ act[r].st.ingest = "done"
      BY <2>1 DEF NeedIngest
    <3>4. AllIngested
      BY <1>1, <1>2, <3>3 DEF Inv, Ingested
    <3>5. AllIngested'
      BY <1>4, <3>2, <3>4 DEF AllIngested
    <3> HIDE DEF k, m
    <3> QED
      BY <1>3, <3>1, <3>2, <3>5
  <2>2. CASE NeedIngest(act[r]) /\ docs' = raw /\ Go(r, EndIngest(act[r], "done"))
    <3> DEFINE k == EndIngest(act[r], "done")
    <3>1. k \in Process /\ k.pc = "ingested" /\ k.fails = act[r].fails /\ k.st.left = act[r].st.left /\ k.st.src = act[r].st.src
      BY <1>2, Places DEF EndIngest, Process, Memory
    <3>2. act' = [act EXCEPT ![r] = k] /\ state' = m
      BY <2>2 DEF Ingest, Go
    <3>3. AllIngested'
      BY <1>4, <2>2 DEF AllIngested
    <3> HIDE DEF k, m
    <3> QED
      BY <1>3, <2>2, <3>1, <3>2, <3>3
  <2>3. CASE /\ NeedIngest(act[r]) /\ (\E S \in SUBSET (raw \ docs) : docs' = docs \union S)
             /\ act[r].try + 1 = RetryLimit /\ Go(r, EndIngest(act[r], "error"))
    <3> DEFINE k == EndIngest(act[r], "error")
    <3>1. k \in Process /\ k.pc = "ingested" /\ k.fails = act[r].fails /\ k.st.left = act[r].st.left /\ k.st.src = act[r].st.src
          /\ k.st.ingest = "error" /\ ~k.clean
      BY <1>2, Places DEF EndIngest, Process, Memory
    <3>2. act' = [act EXCEPT ![r] = k] /\ state' = m
      BY <2>3 DEF Ingest, Go
    <3> HIDE DEF k, m
    <3> QED
      BY <1>3, <2>3, <3>1, <3>2
  <2>4. CASE /\ NeedIngest(act[r]) /\ (\E S \in SUBSET (raw \ docs) : docs' = docs \union S)
             /\ Go(r, [act[r] EXCEPT !.try = @ + 1])
    <3> DEFINE k == [act[r] EXCEPT !.try = @ + 1]
    <3>1. k \in Process /\ k.pc = "ingest" /\ k.fails = act[r].fails /\ k.st = act[r].st /\ k.crawled = act[r].crawled
      BY <1>1, <1>2 DEF Process
    <3>2. act' = [act EXCEPT ![r] = k] /\ state' = m
      BY <2>4 DEF Ingest, Go
    <3> HIDE DEF k, m
    <3> QED
      BY <1>3, <2>4, <3>1, <3>2
  <2> QED
    BY <2>1, <2>2, <2>3, <2>4 DEF Ingest
<1>7. PICK k \in Process : Result(k)
  BY <1>6
<1> HIDE DEF m
<1>8. k.pc \in Holding
  BY <1>7 DEF Holding, Closing
<1>9. Types' /\ OneHolder' /\ Kept'
  BY <1>1, <1>3, <1>4, <1>5, <1>7, <1>8, HolderWrites
<1>10. Ingested'
  <2>1. k.pc = "ingest" /\ ~k.crawled /\ k.st.ingest = "done" => AllIngested'
    <3> SUFFICES ASSUME k.pc = "ingest", ~k.crawled, k.st.ingest = "done"
                 PROVE  AllIngested'
      OBVIOUS
    <3>1. AllIngested
      BY <1>1, <1>2, <1>7 DEF Inv, Ingested
    <3> QED
      BY <1>4, <1>7, <3>1 DEF AllIngested
  <2>2. k.pc \notin Crawling /\ (k.pc \in Closing \ {"ingest"} => k.pc = "ingested")
    BY <1>7 DEF Crawling, Closing
  <2> QED
    BY <1>2, <1>4, <1>7, <2>1, <2>2, HolderIngests DEF Inv
<1>11. OkIsTrue'
  BY <1>4, <1>5, <1>7, OkStays DEF Inv
<1> QED
  BY <1>9, <1>10, <1>11 DEF Inv

LEMMA SayIngestedStep ==
  ASSUME Inv, NEW r \in Runs, SayIngested(r)
  PROVE  Inv'
<1>1. act[r].pc = "ingested" /\ act[r].pc \in Holding /\ act[r].pc \in Closing
  BY Places DEF SayIngested
<1>2. r \in lock /\ act[r] \in Process
  BY <1>1, Holder
<1> DEFINE j == [act[r] EXCEPT !.pc = "embed", !.try = 0]
           k == [j EXCEPT !.st.phase = "ingest"]
<1>3. /\ j \in Process /\ j.pc = "embed" /\ j.fails = act[r].fails /\ j.st = act[r].st /\ j.clean = act[r].clean
  BY <1>2, Places DEF Process
<1>4. state' = [j.st EXCEPT !.phase = "ingest"] /\ act' = [act EXCEPT ![r] = k] /\ UNCHANGED <<lock, raw, docs, vecs, gap>>
  BY DEF SayIngested, Touch, Go, stores
<1> HIDE DEF j
<1>5. /\ k \in Process /\ state' \in Memory /\ k.st = state' /\ state'.phase = "ingest" /\ k.st.left = act[r].st.left
      /\ k.st.src = act[r].st.src /\ k.st.ingest = act[r].st.ingest
      /\ k.pc = "embed" /\ k.fails = act[r].fails /\ k.clean = act[r].clean
  <2>1. "ingest" \in Phases
    BY DEF Phases
  <2> QED
    BY <1>3, <1>4, <2>1, TouchWrites
<1> HIDE DEF k
<1>6. docs \subseteq raw /\ vecs \subseteq docs
  BY DEF Inv, Types
<1>7. k.pc \in Holding /\ k.pc \notin Crawling \union {"ingest"}
  BY <1>5, Places
<1>8. Types' /\ OneHolder' /\ Kept'
  BY <1>1, <1>4, <1>5, <1>6, <1>7, HolderWrites
<1>9. Ingested'
  <2>1. AllIngested' <=> AllIngested
    BY <1>4 DEF AllIngested
  <2>2. k.st.ingest = "done" \/ k.clean => AllIngested
    BY <1>1, <1>2, <1>5 DEF Inv, Ingested
  <2> QED
    BY <1>2, <1>4, <1>5, <1>7, <2>1, <2>2, HolderIngests DEF Inv
<1> QED
  BY <1>4, <1>5, <1>8, <1>9, OkStays DEF Inv

LEMMA EmbedStep ==
  ASSUME Inv, NEW r \in Runs, Embed(r)
  PROVE  Inv'
<1>1. act[r].pc = "embed" /\ act[r].pc \in Holding /\ act[r].pc \in Closing
  BY Places DEF Embed
<1>2. r \in lock /\ act[r] \in Process /\ act[r].st \in Memory
  BY <1>1, Holder
<1>3. docs \subseteq raw /\ vecs \subseteq docs
  BY DEF Inv, Types
<1>4. UNCHANGED <<lock, raw, docs, gap>>
  BY DEF Embed
<1> DEFINE m == [act[r].st EXCEPT !.phase = "embed"]
<1>5. m \in Memory /\ m.left = act[r].st.left /\ m.src = act[r].st.src /\ m.ingest = act[r].st.ingest /\ m.phase = "embed"
  BY <1>2 DEF Memory, Phases
<1> DEFINE Result(k) ==
             /\ act' = [act EXCEPT ![r] = k] /\ k.fails = act[r].fails /\ k.st = act[r].st /\ k.clean = act[r].clean
             /\ k.pc \in {"embed", "finish"}
             /\ vecs \subseteq vecs' /\ vecs' \subseteq docs /\ (state' = state \/ state' = m)
<1>6. \E k \in Process : Result(k)
  <2>1. CASE docs = vecs \/ act[r].try > RetryLimit
    <3> DEFINE k == [act[r] EXCEPT !.pc = "finish"]
    <3>1. k \in Process /\ k.pc = "finish" /\ k.fails = act[r].fails /\ k.st = act[r].st /\ k.clean = act[r].clean
      BY <1>2, Places DEF Process
    <3>2. act' = [act EXCEPT ![r] = k] /\ state' = state /\ vecs' = vecs
      BY <2>1 DEF Embed, Go
    <3> HIDE DEF k, m
    <3> QED
      BY <1>3, <3>1, <3>2
  <2>2. CASE ~(docs = vecs \/ act[r].try > RetryLimit)
    <3> DEFINE k == [act[r] EXCEPT !.try = @ + 1]
    <3>1. k \in Process /\ k.pc = "embed" /\ k.fails = act[r].fails /\ k.st = act[r].st /\ k.clean = act[r].clean
      BY <1>1, <1>2 DEF Process
    <3>2. act' = [act EXCEPT ![r] = k] /\ state' = m
      BY <2>2 DEF Embed, Go
    <3>3. vecs' = docs \/ \E S \in SUBSET (docs \ vecs) : vecs' = vecs \union S
      BY <2>2 DEF Embed
    <3> HIDE DEF k, m
    <3> QED
      BY <1>3, <3>1, <3>2, <3>3
  <2> QED
    BY <2>1, <2>2
<1>7. PICK k \in Process : Result(k)
  BY <1>6
<1> HIDE DEF m
<1>8. k.pc \in Holding /\ k.pc \notin Crawling \union {"ingest"}
  BY <1>7, Places
<1>9. Types' /\ OneHolder' /\ Kept'
  BY <1>1, <1>3, <1>4, <1>5, <1>7, <1>8, HolderWrites
<1>10. Ingested'
  <2>1. AllIngested' <=> AllIngested
    BY <1>4 DEF AllIngested
  <2>2. k.st.ingest = "done" \/ k.clean => AllIngested
    BY <1>1, <1>2, <1>7 DEF Inv, Ingested
  <2>3. state'.ingest = "done" => AllIngested
    <3>1. state.ingest = "done" => AllIngested
      <4>1. \A q \in lock : q = r
        BY <1>2 DEF Inv, OneHolder
      <4> QED
        BY <1>1, <4>1, Places DEF Inv, Ingested
    <3>2. m.ingest = "done" => AllIngested
      BY <1>1, <1>2, <1>5 DEF Inv, Ingested
    <3> QED
      BY <1>7, <3>1, <3>2
  <2> QED
    BY <1>2, <1>4, <1>7, <1>8, <2>1, <2>2, <2>3, HolderIngests DEF Inv
<1>11. OkIsTrue'
  BY <1>4, <1>5, <1>7, OkStays DEF Inv
<1> QED
  BY <1>9, <1>10, <1>11 DEF Inv

\* The verdict `ok' is given by a run whose list is empty, with everything it crawled
\* ingested and embedded.
LEMMA FinishStep ==
  ASSUME Inv, NEW r \in Runs, Finish(r)
  PROVE  Inv'
<1>1. act[r].pc = "finish" /\ act[r].pc \in Holding /\ act[r].pc \in Closing
  BY Places DEF Finish
<1>2. r \in lock /\ act[r] \in Process /\ Listed(act[r].st, raw \union gap \union Forgotten(act[r].fails))
  BY <1>1, Holder
<1> DEFINE j == [act[r] EXCEPT !.pc = "unlock", !.st.ok = IF Verdict(act[r], docs \ vecs) THEN "yes" ELSE "no"]
           k == [j EXCEPT !.st.phase = "done"]
<1>3. /\ j \in Process /\ j.pc = "unlock" /\ j.fails = act[r].fails /\ j.st.left = act[r].st.left /\ j.st.src = act[r].st.src
      /\ j.st.ingest = act[r].st.ingest /\ j.clean = act[r].clean /\ j.st.ok = IF Verdict(act[r], docs \ vecs) THEN "yes" ELSE "no"
  <2> DEFINE ok == IF Verdict(act[r], docs \ vecs) THEN "yes" ELSE "no"
  <2>1. ok \in {"unknown", "yes", "no"}
    OBVIOUS
  <2>2. j = [act[r] EXCEPT !.pc = "unlock", !.st.ok = ok]
    OBVIOUS
  <2> HIDE DEF ok, j
  <2>3. /\ j \in Process /\ j.pc = "unlock" /\ j.fails = act[r].fails /\ j.st.left = act[r].st.left /\ j.st.src = act[r].st.src
        /\ j.st.ingest = act[r].st.ingest /\ j.clean = act[r].clean /\ j.st.ok = ok
    BY <1>2, <2>1, <2>2, Places DEF Process, Memory
  <2> QED
    BY <2>3 DEF ok
<1>4. state' = [j.st EXCEPT !.phase = "done"] /\ act' = [act EXCEPT ![r] = k] /\ UNCHANGED <<lock, raw, docs, vecs, gap>>
  BY DEF Finish, Touch, Go, stores
<1> HIDE DEF j
<1>5. /\ k \in Process /\ state' \in Memory /\ k.st = state' /\ state'.ok = j.st.ok /\ k.st.left = act[r].st.left
      /\ k.st.src = act[r].st.src /\ k.st.ingest = act[r].st.ingest
      /\ k.pc = "unlock" /\ k.fails = act[r].fails /\ k.clean = act[r].clean
  <2>1. "done" \in Phases
    BY DEF Phases
  <2> QED
    BY <1>3, <1>4, <2>1, TouchWrites
<1> HIDE DEF k
<1>6. docs \subseteq raw /\ vecs \subseteq docs
  BY DEF Inv, Types
<1>7. k.pc \in Holding /\ k.pc \notin Crawling \union {"ingest"}
  BY <1>5, Places
<1>8. Types' /\ OneHolder' /\ Kept'
  BY <1>1, <1>4, <1>5, <1>6, <1>7, HolderWrites
<1>9. act[r].st.ingest = "done" \/ act[r].clean => AllIngested
  BY <1>1, <1>2 DEF Inv, Ingested
<1>10. Ingested'
  <2>1. AllIngested' <=> AllIngested
    BY <1>4 DEF AllIngested
  <2> QED
    BY <1>2, <1>4, <1>5, <1>7, <1>9, <2>1, HolderIngests DEF Inv
<1>11. OkIsTrue'
  <2> SUFFICES ASSUME state'.ok = "yes", NEW s \in Sources, state'.src[s].status = "crawled"
               PROVE  PagesOf(s) \ gap \subseteq raw \intersect docs \intersect vecs
    BY <1>4 DEF OkIsTrue, PagesOf
  <2>1. Verdict(act[r], docs \ vecs)
    BY <1>3, <1>5
  <2>2. docs \subseteq vecs /\ act[r].fails = {} /\ AllIngested
    BY <1>9, <2>1 DEF Verdict
  <2>3. PagesOf(s) \subseteq raw \union gap
    BY <1>2, <1>5, <2>2, ListsGrow DEF Listed
  <2> QED
    BY <2>2, <2>3 DEF AllIngested
<1> QED
  BY <1>8, <1>10, <1>11 DEF Inv

\* A step of the run with the lock that fetches pages.  Its list covers what it had on it
\* and what the source just crawled lacks.
LEMMA HolderFetches ==
  ASSUME Inv, NEW r \in Runs, act[r].pc \in Crawling, NEW k \in Process, k.pc \in Crawling, k.crawled,
         act' = [act EXCEPT ![r] = k], UNCHANGED <<lock, docs, vecs>>,
         raw \subseteq raw', raw' \subseteq Pages, gap \subseteq gap',
         k.st.left = act[r].st.left,
         state' \in Memory, state'.phase # "done", state'.left = act[r].st.left, state'.src = act[r].st.src,
         Forgotten(act[r].fails) \subseteq raw' \union gap' \union Forgotten(k.fails),
         \A s \in Sources : k.st.src[s].status = "crawled" =>
           act[r].st.src[s].status = "crawled" \/ PagesOf(s) \subseteq raw' \union gap' \union Forgotten(k.fails)
  PROVE  Inv'
<1>1. act[r].pc \in Holding /\ k.pc \in Holding /\ k.pc \notin Closing
  BY Places DEF Holding, Crawling, Closing
<1>2. /\ Types /\ OneHolder /\ Kept /\ r \in lock
      /\ Forgotten(act[r].st.left) \subseteq raw \union gap \union Forgotten(act[r].fails)
      /\ Listed(act[r].st, raw \union gap \union Forgotten(act[r].fails))
  BY <1>1, Holder DEF Inv
<1>3. raw \union gap \union Forgotten(act[r].fails) \subseteq raw' \union gap' \union Forgotten(k.fails)
  OBVIOUS
<1>4. Listed(k.st, raw' \union gap' \union Forgotten(k.fails))
  BY <1>2, <1>3 DEF Listed
<1>5. Forgotten(k.st.left) \subseteq raw' \union gap' \union Forgotten(k.fails)
  BY <1>2, <1>3
<1>6. OneHolder' /\ Kept'
  BY <1>1, <1>2, <1>4, <1>5, HolderMoves
<1>7. Types'
  BY <1>2, TypesOfMove DEF Types
<1>8. Ingested'
  BY <1>1, <1>2, HolderIngests
<1>9. OkIsTrue'
  BY OkStays DEF Inv
<1> QED
  BY <1>6, <1>7, <1>8, <1>9 DEF Inv

\* What a crawl leaves in memory.
LEMMA OneSource ==
  ASSUME NEW j \in Process, NEW s \in Sources, NEW line \in SrcRow, NEW m, m = [j.st EXCEPT !.src[s] = line]
  PROVE  m \in Memory /\ m.left = j.st.left /\ m.src[s] = line /\ \A t \in Sources \ {s} : m.src[t] = j.st.src[t]
<1> DEFINE src == [j.st.src EXCEPT ![s] = line]
<1>1. j.st \in Memory /\ j.st.src \in [Sources -> SrcRow]
  BY DEF Process, Memory
<1>2. src \in [Sources -> SrcRow] /\ src[s] = line /\ \A t \in Sources \ {s} : src[t] = j.st.src[t]
  BY <1>1
<1>3. m = [j.st EXCEPT !.src = src]
  OBVIOUS
<1> HIDE DEF src
<1>4. m \in Memory /\ m.left = j.st.left /\ m.src = src
  BY <1>1, <1>2, <1>3 DEF Memory
<1> QED
  BY <1>2, <1>4
LEMMA CrawledMemory ==
  ASSUME NEW j \in Process, NEW s \in Sources, NEW gave \in Nat, NEW good, NEW bad \in SUBSET Item, NEW k,
         k = Crawled(j, s, good, bad, gave)
  PROVE  /\ k \in Process /\ k.pc = j.pc /\ k.crawled /\ k.fails = j.fails \union bad /\ k.st.left = j.st.left
         /\ \A t \in Sources \ {s} : k.st.src[t] = j.st.src[t]
<1> DEFINE line == [status |-> "crawled", attempts |-> gave]
           m == [j.st EXCEPT !.src[s] = line]
<1>1. line \in SrcRow
  BY DEF SrcRow
<1>2. k = [j EXCEPT !.st = m, !.fails = @ \union bad, !.crawled = TRUE]
  BY DEF Crawled
<1> HIDE DEF line
<1>3. m \in Memory /\ m.left = j.st.left /\ \A t \in Sources \ {s} : m.src[t] = j.st.src[t]
  BY <1>1, OneSource
<1> HIDE DEF m
<1>4. k \in Process /\ k.pc = j.pc /\ k.crawled /\ k.fails = j.fails \union bad /\ k.st = m
  BY <1>2, <1>3 DEF Process
<1> QED
  BY <1>3, <1>4
Broken(k, s, line, again) == [k EXCEPT !.st.src[s] = line, !.crawled = TRUE, !.again = again]
LEMMA BrokenMemory ==
  ASSUME NEW j \in Process, NEW s \in Sources, NEW line \in SrcRow, line.status = "error", NEW again \in SUBSET Sources,
         NEW k, k = Broken(j, s, line, again)
  PROVE  /\ k \in Process /\ k.pc = j.pc /\ k.crawled /\ k.fails = j.fails /\ k.st.left = j.st.left
         /\ k.st.src[s].status = "error" /\ \A t \in Sources \ {s} : k.st.src[t] = j.st.src[t]
<1> DEFINE m == [j.st EXCEPT !.src[s] = line]
<1>1. k = [j EXCEPT !.st = m, !.crawled = TRUE, !.again = again]
  BY DEF Broken
<1>2. m = [j.st EXCEPT !.src[s] = line]
  OBVIOUS
<1>3. m.src[s] = line
  BY DEF Process, Memory
<1> HIDE DEF m
<1>4. m \in Memory /\ m.left = j.st.left /\ \A t \in Sources \ {s} : m.src[t] = j.st.src[t]
  BY <1>2, OneSource
<1>5. k \in Process /\ k.pc = j.pc /\ k.crawled /\ k.fails = j.fails /\ k.st = m
  BY <1>1, <1>4 DEF Process
<1> QED
  BY <1>3, <1>4, <1>5

\* The crawl of a source, the first one and those that follow an exception.
LEMMA CrawlOneStep ==
  ASSUME Inv, NEW r \in Runs, act[r].pc \in Crawling, NEW s \in Sources, NEW j \in Process, NEW gave \in Nat,
         j.pc \in {"record", "again"}, j.fails = act[r].fails, j.st.left = act[r].st.left, j.st.src = act[r].st.src,
         CrawlOne(r, s, j, gave), UNCHANGED <<lock, docs, vecs>>, state' = [act[r].st EXCEPT !.phase = "crawl"]
  PROVE  Inv'
<1>1. j.pc \in Crawling
  BY Places
<1>2. raw \subseteq Pages /\ act[r].st \in Memory /\ j.fails \in SUBSET Item /\ j.again \in SUBSET Sources
  BY DEF Inv, Types, Process
<1>3. state' \in Memory /\ state'.phase # "done" /\ state'.left = act[r].st.left /\ state'.src = act[r].st.src
  BY <1>2 DEF Memory, Phases
<1>4. PagesOf(s) \subseteq Pages
  BY DEF PagesOf
\* A crawl that ends: `bad' covers what it did not fetch.
<1>5. ASSUME NEW good, NEW bad \in SUBSET Item, Go(r, Crawled(j, s, good, bad, gave)),
             raw \subseteq raw', raw' \subseteq Pages, gap \subseteq gap',
             PagesOf(s) \subseteq raw' \union gap' \union Forgotten(bad)
      PROVE  Inv'
  <2> DEFINE k == Crawled(j, s, good, bad, gave)
  <2>1. /\ k \in Process /\ k.pc = j.pc /\ k.crawled /\ k.fails = j.fails \union bad /\ k.st.left = j.st.left
        /\ \A t \in Sources \ {s} : k.st.src[t] = j.st.src[t]
    <3>1. k = Crawled(j, s, good, bad, gave)
      OBVIOUS
    <3> HIDE DEF k
    <3> QED
      BY <3>1, CrawledMemory
  <2>2. act' = [act EXCEPT ![r] = k]
    BY <1>5 DEF Go
  <2> HIDE DEF k
  <2>3. Forgotten(k.fails) = Forgotten(act[r].fails) \union Forgotten(bad)
    <3>1. k.fails = act[r].fails \union bad
      BY <2>1
    <3> QED
      BY <3>1 DEF Forgotten
  <2>4. \A t \in Sources : k.st.src[t].status = "crawled" =>
          act[r].st.src[t].status = "crawled" \/ PagesOf(t) \subseteq raw' \union gap' \union Forgotten(k.fails)
    BY <1>5, <2>1, <2>3
  <2>5. k \in Process /\ k.pc \in Crawling /\ k.crawled /\ k.st.left = act[r].st.left
    BY <1>1, <2>1
  <2>6. raw \subseteq raw' /\ raw' \subseteq Pages /\ gap \subseteq gap'
    BY <1>5
  <2>7. Forgotten(act[r].fails) \subseteq raw' \union gap' \union Forgotten(k.fails)
    BY <2>3
  <2> QED
    BY <1>3, <2>2, <2>4, <2>5, <2>6, <2>7, HolderFetches
<1>6. CASE raw' = raw \union PagesOf(s) /\ gap' = gap /\ Go(r, Crawled(j, s, PagesOf(s), {}, gave))
  BY <1>2, <1>4, <1>5, <1>6
<1>7. ASSUME NEW p \in PagesOf(s), raw' = raw \union (PagesOf(s) \ {p}), gap' = gap,
             Go(r, Crawled(j, s, PagesOf(s) \ {p}, {<<"page", p, 0>>}, gave))
      PROVE  Inv'
  <2> DEFINE i == <<"page", p, 0>>
  <2>1. i \in Item /\ Covers(i) = {p}
    BY <1>4 DEF Item, Covers
  <2> HIDE DEF i
  <2>2. PagesOf(s) \subseteq raw' \union gap' \union Forgotten({i})
    BY <1>7, <2>1, ListCovers
  <2>3. Go(r, Crawled(j, s, PagesOf(s) \ {p}, {i}, gave))
    BY <1>7 DEF i
  <2>4. {i} \in SUBSET Item /\ raw \subseteq raw' /\ raw' \subseteq Pages /\ gap \subseteq gap'
    BY <1>2, <1>4, <1>7, <2>1
  <2> QED
    BY <1>5, <2>2, <2>3, <2>4
<1>8. ASSUME NEW p \in PagesOf(s), raw' = raw \union (PagesOf(s) \ Behind(p)), gap' = gap \union (Behind(p) \ Batch(p)),
             Go(r, Crawled(j, s, PagesOf(s) \ Behind(p), {<<"list", p, 0>>}, gave))
      PROVE  Inv'
  <2> DEFINE i == <<"list", p, 0>>
  <2>1. i \in Item /\ Covers(i) = Batch(p)
    BY <1>4 DEF Item, Covers
  <2> HIDE DEF i
  <2>2. PagesOf(s) \subseteq raw' \union gap' \union Forgotten({i})
    BY <1>8, <2>1, ListCovers
  <2>3. Go(r, Crawled(j, s, PagesOf(s) \ Behind(p), {i}, gave))
    BY <1>8 DEF i
  <2>4. {i} \in SUBSET Item /\ raw \subseteq raw' /\ raw' \subseteq Pages /\ gap \subseteq gap'
    BY <1>2, <1>4, <1>8, <2>1
  <2> QED
    BY <1>5, <2>2, <2>3, <2>4
<1>9. ASSUME NEW good \in SUBSET PagesOf(s), raw' = raw \union good, gap' = gap,
             NEW again \in SUBSET Sources,
             Go(r, [j EXCEPT !.st.src[s] = [status |-> "error", attempts |-> gave], !.crawled = TRUE, !.again = again])
      PROVE  Inv'
  <2> DEFINE line == [status |-> "error", attempts |-> gave]
             k == Broken(j, s, line, again)
  <2>1. /\ k \in Process /\ k.pc = j.pc /\ k.crawled /\ k.fails = j.fails /\ k.st.left = j.st.left
        /\ k.st.src[s].status = "error" /\ \A t \in Sources \ {s} : k.st.src[t] = j.st.src[t]
    <3>1. line \in SrcRow /\ line.status = "error"
      BY DEF SrcRow
    <3> HIDE DEF line
    <3>2. k = Broken(j, s, line, again)
      OBVIOUS
    <3> HIDE DEF k
    <3> QED
      BY <1>9, <3>1, <3>2, BrokenMemory
  <2>2. act' = [act EXCEPT ![r] = k]
    BY <1>9 DEF Go, Broken
  <2> HIDE DEF k
  <2>3. \A t \in Sources : k.st.src[t].status = "crawled" => act[r].st.src[t].status = "crawled"
    BY <2>1
  <2>4. raw \subseteq raw' /\ raw' \subseteq Pages /\ gap \subseteq gap'
    BY <1>2, <1>4, <1>9
  <2>5. /\ k.pc \in Crawling /\ k.crawled /\ k.st.left = act[r].st.left
        /\ Forgotten(act[r].fails) \subseteq raw' \union gap' \union Forgotten(k.fails)
    BY <1>1, <2>1
  <2> QED
    BY <1>3, <2>1, <2>2, <2>3, <2>4, <2>5, HolderFetches
<1>10. CASE \E good \in SUBSET PagesOf(s) :
              /\ raw' = raw \union good /\ UNCHANGED gap
              /\ Go(r, [j EXCEPT !.st.src[s] = [status |-> "error", attempts |-> gave], !.crawled = TRUE,
                                 !.again = IF j.pc = "record" \/ gave < RetryLimit THEN @ \union {s} ELSE @])
  <2>1. (IF j.pc = "record" \/ gave < RetryLimit THEN j.again \union {s} ELSE j.again) \in SUBSET Sources
    BY <1>2
  <2> QED
    BY <1>9, <1>10, <2>1
<1> QED
  BY <1>6, <1>7, <1>8, <1>10 DEF CrawlOne

LEMMA CrawlSourceStep ==
  ASSUME Inv, NEW r \in Runs, CrawlSource(r)
  PROVE  Inv'
<1>1. act[r].pc = "crawl" /\ act[r].pc \in Crawling /\ act[r].pc \in Holding
  BY Places DEF CrawlSource
<1>2. act[r] \in Process
  BY <1>1, Holder
<1>3. PICK s \in act[r].todo :
        /\ state' = [act[r].st EXCEPT !.phase = "crawl"]
        /\ CrawlOne(r, s, [act[r] EXCEPT !.pc = "record", !.todo = @ \ {s}, !.st.phase = "crawl"], act[r].st.src[s].attempts)
  BY DEF CrawlSource
<1> DEFINE left == act[r].todo \ {s}
           i == [act[r] EXCEPT !.pc = "record", !.todo = left]
           j == [i EXCEPT !.st.phase = "crawl"]
<1>4. s \in Sources /\ act[r].st.src[s].attempts \in Nat
  BY <1>2 DEF Process, Memory, SrcRow
<1>5. i \in Process /\ i.pc = "record" /\ i.fails = act[r].fails /\ i.st = act[r].st
  BY <1>2, Places DEF Process
<1>6. CrawlOne(r, s, j, act[r].st.src[s].attempts)
  BY <1>3
<1> HIDE DEF i
<1>7. j \in Process /\ j.pc = "record" /\ j.fails = act[r].fails /\ j.st.left = act[r].st.left /\ j.st.src = act[r].st.src
  <2>1. "crawl" \in Phases
    BY DEF Phases
  <2> QED
    BY <1>5, <2>1, TouchWrites
<1> HIDE DEF j
<1> QED
  BY <1>1, <1>3, <1>4, <1>6, <1>7, CrawlOneStep DEF CrawlSource

LEMMA CrawlAgainStep ==
  ASSUME Inv, NEW r \in Runs, CrawlAgain(r)
  PROVE  Inv'
<1>1. act[r].pc = "again" /\ act[r].pc \in Crawling /\ act[r].pc \in Holding
  BY Places DEF CrawlAgain
<1>2. r \in lock /\ act[r] \in Process
  BY <1>1, Holder
<1>3. CASE act[r].todo # {}
  <2> DEFINE s == CHOOSE x \in act[r].todo : TRUE
             left == act[r].todo \ {s}
             j == [act[r] EXCEPT !.todo = left]
             gave == act[r].st.src[s].attempts + 1
  <2>1. CrawlOne(r, s, j, gave) /\ state' = [act[r].st EXCEPT !.phase = "crawl"]
    BY <1>3 DEF CrawlAgain
  <2>2. s \in act[r].todo
    BY <1>3
  <2> HIDE DEF s
  <2>3. s \in Sources /\ gave \in Nat
    BY <1>2, <2>2 DEF Process, Memory, SrcRow
  <2>4. j \in Process /\ j.pc = "again" /\ j.fails = act[r].fails /\ j.st = act[r].st
    BY <1>1, <1>2 DEF Process
  <2> HIDE DEF j, gave
  <2> QED
    BY <1>1, <2>1, <2>3, <2>4, CrawlOneStep DEF CrawlAgain
<1>4. CASE act[r].todo = {}
  <2> DEFINE j == [act[r] EXCEPT !.pc = "crawl"]
             k == [j EXCEPT !.st.phase = "retry-source"]
  <2>1. /\ j \in Process /\ j.pc = "crawl" /\ j.fails = act[r].fails /\ j.st = act[r].st
        /\ j.crawled = act[r].crawled /\ j.clean = act[r].clean
    BY <1>2, Places DEF Process
  <2>2. state' = [j.st EXCEPT !.phase = "retry-source"] /\ act' = [act EXCEPT ![r] = k] /\ UNCHANGED <<lock, raw, docs, vecs, gap>>
    BY <1>4 DEF CrawlAgain, Touch, Go
  <2> HIDE DEF j
  <2>3. /\ k \in Process /\ state' \in Memory /\ k.st = state' /\ state'.phase = "retry-source" /\ k.st.left = act[r].st.left
        /\ k.st.src = act[r].st.src /\ k.st.ingest = act[r].st.ingest
        /\ k.pc = "crawl" /\ k.fails = act[r].fails /\ k.crawled = act[r].crawled /\ k.clean = act[r].clean
    <3>1. "retry-source" \in Phases
      BY DEF Phases
    <3> QED
      BY <2>1, <2>2, <3>1, TouchWrites
  <2> HIDE DEF k
  <2>4. docs \subseteq raw /\ vecs \subseteq docs
    BY DEF Inv, Types
  <2>5. k.pc \in Holding /\ k.pc \in Crawling /\ k.pc \notin Closing
    BY <2>3, Places
  <2>6. Types' /\ OneHolder' /\ Kept'
    BY <1>1, <2>2, <2>3, <2>4, <2>5, HolderWrites
  <2>7. Ingested'
    <3>1. AllIngested' <=> AllIngested
      BY <2>2 DEF AllIngested
    <3>2. k.pc \in Crawling \union {"ingest"} /\ ~k.crawled /\ k.st.ingest = "done" => AllIngested
      BY <1>1, <1>2, <2>3 DEF Inv, Ingested
    <3> QED
      BY <1>2, <2>2, <2>5, <3>1, <3>2, HolderIngests DEF Inv
  <2> QED
    BY <2>2, <2>3, <2>6, <2>7, OkStays DEF Inv
<1> QED
  BY <1>3, <1>4

\* A failure retried once more covers what it covered.
LEMMA OnceMore ==
  ASSUME NEW i \in Item
  PROVE  <<i[1], i[2], i[3] + 1>> \in Item /\ Covers(<<i[1], i[2], i[3] + 1>>) = Covers(i)
BY DEF Item, Covers

\* The retries: what works now is fetched, the rest stays on the list.
LEMMA RetryRoundStep ==
  ASSUME Inv, NEW r \in Runs, RetryRound(r)
  PROVE  Inv'
<1>1. act[r].pc = "retry" /\ act[r].pc \in Crawling /\ act[r].pc \in Holding
  BY Places DEF RetryRound
<1>2. act[r] \in Process /\ act[r].st \in Memory /\ act[r].fails \in SUBSET Item /\ act[r].try \in Nat
  BY <1>1, Holder DEF Process
<1>3. PICK worse \in SUBSET {i \in act[r].fails : ~Spent(i)} :
        /\ raw' = raw \union Forgotten({i \in act[r].fails \ worse : ~Spent(i)})
        /\ Go(r, [act[r] EXCEPT !.fails = {i \in @ : Spent(i)} \union {<<i[1], i[2], i[3] + 1>> : i \in worse},
                                !.try = @ + 1, !.crawled = TRUE, !.st.phase = "retry"])
        /\ state' = [act[r].st EXCEPT !.phase = "retry"]
  BY DEF RetryRound
<1> DEFINE fails == {i \in act[r].fails : Spent(i)} \union {<<i[1], i[2], i[3] + 1>> : i \in worse}
           try == act[r].try + 1
           mended == {i \in act[r].fails \ worse : ~Spent(i)}
           j == [act[r] EXCEPT !.fails = fails, !.try = try, !.crawled = TRUE]
           k == [j EXCEPT !.st.phase = "retry"]
<1>4. act' = [act EXCEPT ![r] = k] /\ raw' = raw \union Forgotten(mended) /\ UNCHANGED <<lock, docs, vecs, gap>>
  BY <1>3 DEF Go, RetryRound
<1>5. fails \in SUBSET Item /\ mended \in SUBSET Item /\ try \in Nat
  <2>1. \A i \in worse : <<i[1], i[2], i[3] + 1>> \in Item
    BY <1>2, OnceMore
  <2> QED
    BY <1>2, <2>1
<1>6. Forgotten(act[r].fails) \subseteq Forgotten(mended) \union Forgotten(fails)
  <2> SUFFICES ASSUME NEW p, NEW i \in act[r].fails, p \in Covers(i)
               PROVE  p \in Forgotten(mended) \union Forgotten(fails)
    BY ListCovers
  <2>1. CASE i \in mended
    BY <2>1, ListCovers
  <2>2. CASE i \in worse
    <3>1. <<i[1], i[2], i[3] + 1>> \in fails
      BY <2>2
    <3>2. p \in Covers(<<i[1], i[2], i[3] + 1>>)
      BY <1>2, OnceMore
    <3> QED
      BY <3>1, <3>2, ListCovers
  <2>3. CASE Spent(i)
    <3>1. i \in fails
      BY <2>3
    <3> QED
      BY <3>1, ListCovers
  <2> QED
    BY <2>1, <2>2, <2>3
<1> HIDE DEF fails, try, mended
<1>7. j \in Process /\ j.pc = "retry" /\ j.fails = fails /\ j.st = act[r].st /\ j.crawled
  BY <1>1, <1>2, <1>5 DEF Process
<1> HIDE DEF j
<1>8. "retry" \in Phases /\ state' = [j.st EXCEPT !.phase = "retry"]
  BY <1>3, <1>7 DEF Phases
<1>9. /\ k \in Process /\ state' \in Memory /\ k.st = state' /\ state'.phase = "retry" /\ state'.left = act[r].st.left
      /\ state'.src = act[r].st.src /\ k.pc = "retry" /\ k.fails = fails /\ k.crawled
  BY <1>7, <1>8, TouchWrites
<1> HIDE DEF k
<1>10. raw' \subseteq Pages
  <2>1. Forgotten(mended) \subseteq Pages
    BY <1>5, ListsCoverPages
  <2> QED
    BY <1>4, <2>1 DEF Inv, Types
<1>11. Forgotten(act[r].fails) \subseteq raw' \union gap' \union Forgotten(k.fails)
  BY <1>4, <1>6, <1>9
<1>12. state'.phase # "done" /\ k.pc \in Crawling /\ k.st.left = act[r].st.left /\ raw \subseteq raw' /\ gap \subseteq gap'
       /\ state'.left = act[r].st.left /\ state'.src = act[r].st.src
       /\ \A s \in Sources : k.st.src[s].status = "crawled" => act[r].st.src[s].status = "crawled"
  BY <1>4, <1>9, Places
<1> QED
  BY <1>1, <1>4, <1>9, <1>10, <1>11, <1>12, HolderFetches

-----------------------------------------------------------------------------
(* The steps before the lock and those that give it up.                      *)

\* A process between two calls.
LEMMA Idle ==
  /\ Fresh \in Memory /\ Fresh.left = {} /\ \A s \in Sources : Fresh.src[s].status = "none"
  /\ IdleRun \in Process /\ IdleRun.pc = "idle"
<1>1. NoSource \in SrcRow /\ NoSource.status = "none"
  BY DEF NoSource, SrcRow
<1> DEFINE src == [s \in Sources |-> NoSource]
<1>2. src \in [Sources -> SrcRow] /\ \A s \in Sources : src[s].status = "none"
  BY <1>1
<1>3. Fresh = [phase |-> "idle", src |-> src, left |-> {}, ingest |-> "none", ok |-> "unknown"]
  BY DEF Fresh
<1> HIDE DEF src
<1>4. Fresh \in Memory /\ Fresh.left = {} /\ Fresh.src = src
  BY <1>2, <1>3 DEF Memory, Phases
<1>5. IdleRun \in Process /\ IdleRun.pc = "idle"
  BY <1>4, Places DEF IdleRun, Process
<1> QED
  BY <1>2, <1>4, <1>5

\* A process that gives up loses nothing, if what it had in hand is on record.
LEMMA Leaves ==
  ASSUME Types, OneHolder, Kept, NEW r \in Runs, act' = [act EXCEPT ![r] = IdleRun], lock' = lock \ {r},
         UNCHANGED <<state, raw>>, gap \subseteq gap',
         r \in lock => Forgotten(act[r].fails) \subseteq raw \union gap' \union OnFile
  PROVE  OneHolder' /\ Kept'
<1>1. act'[r].pc = "idle" /\ \A q \in Runs \ {r} : act'[q] = act[q]
  BY Idle DEF Types
<1>2. OneHolder'
  BY <1>1, Places DEF OneHolder
<1>3. OnFile' = OnFile
  BY DEF OnFile
<1>4. lock' # {} => lock' = lock /\ r \notin lock
  BY DEF OneHolder
<1>5. lock' = lock => Known \subseteq Known'
  <2> SUFFICES ASSUME lock' = lock
               PROVE  InHand \subseteq InHand'
    BY DEF Known
  <2>1. \A q \in lock : act'[q] = act[q]
    BY <1>1 DEF Types
  <2> QED
    BY <2>1 DEF InHand
<1>6. Known \union OnFile \subseteq Known' \union OnFile'
  <2>1. CASE lock' = lock
    BY <1>3, <1>5, <2>1
  <2>2. CASE lock' # lock
    <3>1. r \in lock
      BY <2>2
    <3>2. Known = raw \union gap \union Forgotten(act[r].fails)
      BY <3>1, HandOfHolder DEF Known
    <3> QED
      BY <1>3, <3>1, <3>2 DEF Known
  <2> QED
    BY <2>1, <2>2
<1>7. lock' # {} => OnFile' \subseteq Known'
  BY <1>3, <1>4, <1>5 DEF Kept
<1>8. Listed(state', Known' \union OnFile')
  BY <1>6 DEF Kept, Listed
<1>9. ASSUME NEW q \in Runs, act'[q].pc \in Waiting
      PROVE  /\ act'[q].fails = act'[q].st.left
             /\ Forgotten(act'[q].st.left) \subseteq Known' \union OnFile'
             /\ Listed(act'[q].st, Known' \union OnFile')
  <2>1. q # r
    BY <1>1, <1>9 DEF Waiting
  <2>2. act'[q] = act[q]
    BY <1>1, <2>1
  <2> QED
    BY <1>6, <1>9, <2>2 DEF Kept, Listed
<1>10. ASSUME NEW q \in lock'
       PROVE  /\ Forgotten(act'[q].st.left) \subseteq Known' /\ Listed(act'[q].st, Known')
              /\ act'[q].pc \in Closing =>
                   act'[q].st.left = act'[q].fails /\ Forgotten(act'[q].fails) \subseteq raw' \union gap' \union OnFile'
  <2>1. lock' = lock /\ q # r /\ q \in lock /\ act'[q] = act[q]
    BY <1>1, <1>4 DEF Types
  <2> QED
    BY <1>3, <1>5, <2>1 DEF Kept, Listed
<1> QED
  BY <1>2, <1>7, <1>8, <1>9, <1>10 DEF Kept

\* What a process that gives up had on its list, with the lock.
LEMMA HandOnRecord ==
  ASSUME Inv, NEW r \in lock
  PROVE  /\ r \in Runs /\ (act[r].pc \in Crawling \/ act[r].pc \in Closing)
         /\ act[r].pc \in Closing => Forgotten(act[r].fails) \subseteq raw \union gap \union OnFile
         /\ Forgotten(act[r].fails) \subseteq Forgotten(act[r].fails \ state.left) \union OnFile
<1>1. r \in lock /\ r \in Runs
  BY DEF Inv, Types
<1>2. act[r].pc \in Crawling \/ act[r].pc \in Closing
  BY <1>1 DEF Inv, OneHolder, Holding
<1>3. Forgotten(act[r].fails) \subseteq Forgotten(act[r].fails \ state.left) \union OnFile
  BY DEF Forgotten, OnFile
<1>4. act[r].pc \in Closing => Forgotten(act[r].fails) \subseteq raw \union gap \union OnFile
  BY DEF Inv, Kept
<1> QED
  BY <1>1, <1>2, <1>3, <1>4

LEMMA UnlockStep ==
  ASSUME Inv, NEW r \in Runs, Unlock(r)
  PROVE  Inv'
<1>1. act[r].pc = "unlock" /\ act[r].pc \in Closing /\ act[r].pc \in Holding /\ act[r].pc \notin Crawling \union {"ingest", "ingested"}
  BY Places DEF Unlock
<1>2. r \in lock
  BY <1>1, Holder
<1>3. lock = {r}
  BY <1>2, HandOfHolder DEF Inv
<1>4. act' = [act EXCEPT ![r] = IdleRun] /\ lock' = {} /\ UNCHANGED <<state, raw, docs, vecs, gap>>
  BY DEF Unlock, Go, stores
<1>5. OneHolder' /\ Kept'
  BY <1>1, <1>2, <1>3, <1>4, HandOnRecord, Leaves DEF Inv
<1>6. Types'
  BY <1>4, Idle, TypesOfMove DEF Inv, Types
<1>7. Ingested'
  <2>1. state.ingest = "done" => AllIngested
    BY <1>1, <1>3 DEF Inv, Ingested
  <2> QED
    BY <1>4, <2>1 DEF Ingested, AllIngested
<1> QED
  BY <1>4, <1>5, <1>6, <1>7, OkStays DEF Inv

\* A death: what only the dead knew is the gap.
LEMMA CrashStep ==
  ASSUME Inv, NEW r \in Runs, Crash(r)
  PROVE  Inv'
<1>1. /\ act' = [act EXCEPT ![r] = IdleRun] /\ lock' = lock \ {r} /\ UNCHANGED <<state, raw, docs, vecs>>
      /\ gap' = gap \union Unwritten(act[r]) \union (IF state.ingest = "done" THEN raw \ docs ELSE {})
  BY DEF Crash, Go, stores
<1>2. gap \subseteq gap' /\ Unwritten(act[r]) \subseteq gap'
  BY <1>1
<1>3. r \in lock => Forgotten(act[r].fails) \subseteq raw \union gap' \union OnFile
  <2> SUFFICES ASSUME r \in lock
               PROVE  Forgotten(act[r].fails) \subseteq raw \union gap' \union OnFile
    OBVIOUS
  <2>1. CASE act[r].pc \in Closing
    BY <1>2, <2>1, HandOnRecord
  <2>2. CASE act[r].pc \in Crawling
    <3>1. Unwritten(act[r]) = Forgotten(act[r].fails \ state.left)
      BY <2>2 DEF Unwritten, Crawling
    <3> QED
      BY <1>2, <3>1, HandOnRecord
  <2> QED
    BY <2>1, <2>2, HandOnRecord
<1>4. OneHolder' /\ Kept'
  BY <1>1, <1>2, <1>3, Leaves DEF Inv
<1>5. Types'
  BY <1>1, Idle, TypesOfMove DEF Inv, Types
<1>6. Ingested'
  <2>1. state'.ingest = "done" => AllIngested'
    BY <1>1 DEF AllIngested
  <2>2. AllIngested => AllIngested'
    BY <1>1, <1>2 DEF AllIngested
  <2>3. \A q \in lock' : q \in lock /\ act'[q] = act[q]
    BY <1>1 DEF Inv, Types
  <2> QED
    BY <2>1, <2>2, <2>3 DEF Inv, Ingested
<1> QED
  BY <1>1, <1>2, <1>4, <1>5, <1>6, OkStays DEF Inv

\* A process without the lock, before and after its step.
LEMMA NotHolder ==
  ASSUME Inv, NEW r \in Runs, act[r].pc \in {"idle", "loaded", "locking"}, NEW k, act' = [act EXCEPT ![r] = k]
  PROVE  /\ r \notin lock /\ act[r] \in Process /\ act'[r] = k /\ \A q \in Runs \ {r} : act'[q] = act[q]
         /\ \A q \in lock : act'[q] = act[q]
<1>1. r \notin lock
  BY Places DEF Inv, OneHolder
<1> QED
  BY <1>1 DEF Inv, Types

\* A process without the lock that goes on waiting for it.
LEMMA Waits ==
  ASSUME Inv, NEW r \in Runs, act[r].pc \in {"idle", "loaded", "locking"}, NEW k \in Process, k.pc \in Waiting,
         act' = [act EXCEPT ![r] = k], UNCHANGED <<lock, raw, docs, vecs>>, gap \subseteq gap',
         k.fails = k.st.left, Forgotten(k.st.left) \subseteq Known \union OnFile, Listed(k.st, Known \union OnFile),
         OnFile \subseteq gap' \union OnFile',
         \/ state' = state
         \/ state' \in Memory /\ state'.left = k.st.left /\ state'.src = k.st.src /\ state'.phase # "done",
         state'.ingest = "done" => state.ingest = "done" \/ AllIngested'
  PROVE  Inv'
<1>1. /\ r \notin lock /\ act[r] \in Process /\ act'[r] = k /\ \A q \in Runs \ {r} : act'[q] = act[q]
      /\ \A q \in lock : act'[q] = act[q]
  BY NotHolder
<1>2. InHand' = InHand
  BY <1>1 DEF InHand
<1>3. Known \subseteq Known' /\ Known \union OnFile \subseteq Known' \union OnFile'
  BY <1>2 DEF Known
<1>4. Types'
  BY TypesOfMove DEF Inv, Types
<1>5. OneHolder'
  BY <1>1 DEF Inv, OneHolder, Waiting, Holding, Crawling, Closing
<1>6. lock' # {} => OnFile' \subseteq Known'
  <2> SUFFICES ASSUME lock # {}
               PROVE  OnFile' \subseteq Known'
    OBVIOUS
  <2>1. OnFile \subseteq Known
    BY DEF Inv, Kept
  <2>2. OnFile' = OnFile \/ OnFile' = Forgotten(k.st.left)
    BY DEF OnFile
  <2> QED
    BY <1>3, <2>1, <2>2
<1>7. Listed(state', Known' \union OnFile')
  BY <1>3 DEF Inv, Kept, Listed
<1>8. ASSUME NEW q \in Runs, act'[q].pc \in Waiting
      PROVE  /\ act'[q].fails = act'[q].st.left
             /\ Forgotten(act'[q].st.left) \subseteq Known' \union OnFile'
             /\ Listed(act'[q].st, Known' \union OnFile')
  <2>1. CASE q = r
    BY <1>1, <1>3, <2>1 DEF Listed
  <2>2. CASE q # r
    BY <1>1, <1>3, <1>8, <2>2 DEF Inv, Kept, Listed
  <2> QED
    BY <2>1, <2>2
<1>9. ASSUME NEW q \in lock'
      PROVE  /\ Forgotten(act'[q].st.left) \subseteq Known' /\ Listed(act'[q].st, Known')
             /\ act'[q].pc \in Closing =>
                  act'[q].st.left = act'[q].fails /\ Forgotten(act'[q].fails) \subseteq raw' \union gap' \union OnFile'
  BY <1>1, <1>3 DEF Inv, Kept, Listed
<1>10. Kept'
  BY <1>6, <1>7, <1>8, <1>9 DEF Kept
<1>11. Ingested'
  <2>1. AllIngested => AllIngested'
    BY DEF AllIngested
  <2> QED
    BY <1>1, <2>1 DEF Inv, Ingested
<1> QED
  BY <1>4, <1>5, <1>10, <1>11, OkStays DEF Inv

LEMMA CallStep ==
  ASSUME Inv, NEW r \in Runs, NEW c \in Calls, Call(r, c)
  PROVE  Inv'
<1> DEFINE st == IF c.resume THEN state ELSE Fresh
           k == [IdleRun EXCEPT !.pc = "loaded", !.st = st, !.todo = c.ids, !.seen = c.ids, !.fails = st.left]
<1>1. /\ act[r].pc = "idle" /\ c.ids \subseteq Sources /\ act' = [act EXCEPT ![r] = k]
      /\ UNCHANGED <<state, lock, raw, docs, vecs, gap>>
  BY DEF Call, Go, stores
<1>2. st \in Memory /\ Forgotten(st.left) \subseteq Known \union OnFile /\ Listed(st, Known \union OnFile)
  <2>1. CASE st = state
    BY <2>1 DEF Inv, Types, Kept, OnFile
  <2>2. CASE st = Fresh
    BY <2>2, Idle DEF Listed, Forgotten
  <2> QED
    BY <2>1, <2>2
<1> HIDE DEF st
<1>3. k \in Process /\ k.pc = "loaded" /\ k.st = st /\ k.fails = st.left
  <2>1. st.left \in SUBSET Item
    BY <1>2 DEF Memory
  <2> QED
    BY <1>1, <1>2, <2>1, Idle, Places DEF Process
<1> HIDE DEF k
<1>4. k.pc \in Waiting /\ OnFile' = OnFile /\ gap' = gap
  BY <1>1, <1>3 DEF Waiting, OnFile
<1> QED
  BY <1>1, <1>2, <1>3, <1>4, Waits

\* What a memory does not know of the file, when it is written over or acted upon.
LEMMA StaleCovers ==
  ASSUME NEW st
  PROVE  /\ OnFile \subseteq Stale(st) \union Forgotten(st.left)
         /\ st.ingest = "done" /\ state.ingest # "done" => raw \ docs \subseteq Stale(st)
BY ListsGrow, ZenonT(40) DEF Stale, OnFile

LEMMA SayStartingStep ==
  ASSUME Inv, NEW r \in Runs, SayStarting(r)
  PROVE  Inv'
<1> DEFINE j == [act[r] EXCEPT !.pc = "locking", !.st.ok = "unknown"]
           k == [j EXCEPT !.st.phase = "starting"]
<1>1. /\ act[r].pc = "loaded" /\ act' = [act EXCEPT ![r] = k] /\ state' = [j.st EXCEPT !.phase = "starting"]
      /\ gap' = gap \union Stale(act[r].st) /\ UNCHANGED <<lock, raw, docs, vecs>>
  BY DEF SayStarting, Touch, Go, stores
<1>2. /\ act[r] \in Process /\ act[r].fails = act[r].st.left /\ Forgotten(act[r].st.left) \subseteq Known \union OnFile
      /\ Listed(act[r].st, Known \union OnFile)
  BY <1>1 DEF Inv, Types, Kept, Waiting
<1>3. /\ j \in Process /\ j.pc = "locking" /\ j.fails = act[r].fails /\ j.st.left = act[r].st.left /\ j.st.src = act[r].st.src
      /\ j.st.ingest = act[r].st.ingest
  BY <1>2, Places DEF Process, Memory
<1> HIDE DEF j
<1>4. /\ k \in Process /\ state' \in Memory /\ k.st = state' /\ state'.phase = "starting" /\ k.st.left = act[r].st.left
      /\ k.st.src = act[r].st.src /\ k.st.ingest = act[r].st.ingest /\ k.pc = "locking" /\ k.fails = act[r].fails
  <2>1. "starting" \in Phases
    BY DEF Phases
  <2> QED
    BY <1>1, <1>3, <2>1, TouchWrites
<1> HIDE DEF k
<1>5. OnFile \subseteq gap' \union OnFile'
  BY <1>1, <1>4, StaleCovers DEF OnFile
<1>6. state'.ingest = "done" => state.ingest = "done" \/ AllIngested'
  BY <1>1, <1>4, StaleCovers DEF AllIngested
<1>7. Forgotten(k.st.left) \subseteq Known \union OnFile /\ Listed(k.st, Known \union OnFile) /\ k.fails = k.st.left
  BY <1>2, <1>4 DEF Listed
<1>8. act[r].pc \in {"idle", "loaded", "locking"} /\ k.pc \in Waiting /\ gap \subseteq gap' /\ state'.phase # "done"
  BY <1>1, <1>4 DEF Waiting
<1> QED
  BY <1>1, <1>4, <1>5, <1>6, <1>7, <1>8, Waits

\* The lock is free, or the call ends there.
LEMMA TryLockStep ==
  ASSUME Inv, NEW r \in Runs, TryLock(r)
  PROVE  Inv'
<1>1. act[r].pc = "locking" /\ UNCHANGED <<state, raw, docs, vecs>>
  BY DEF TryLock, stores
<1>2. CASE lock = {}
  <2> DEFINE k == [act[r] EXCEPT !.pc = "crawl"]
  <2>1. act' = [act EXCEPT ![r] = k] /\ lock' = {r} /\ gap' = gap \union Stale(act[r].st)
    BY <1>2 DEF TryLock, Go
  <2>2. /\ act[r] \in Process /\ act[r].fails = act[r].st.left /\ Forgotten(act[r].st.left) \subseteq Known \union OnFile
        /\ Listed(act[r].st, Known \union OnFile)
    BY <1>1 DEF Inv, Types, Kept, Waiting
  <2>3. k \in Process /\ k.pc = "crawl" /\ k.st = act[r].st /\ k.fails = act[r].st.left
    BY <2>2, Places DEF Process
  <2>4. act'[r] = k /\ \A q \in Runs \ {r} : act'[q] = act[q]
    BY <1>1, <2>1, NotHolder
  <2> HIDE DEF k
  <2>5. InHand' = Forgotten(k.fails) /\ Known = raw \union gap /\ OnFile' = OnFile
    BY <1>1, <1>2, <2>1, <2>4, NoHand DEF InHand, Known, OnFile
  <2>6. Known \union OnFile \subseteq Known'
    BY <1>1, <2>1, <2>3, <2>5, StaleCovers DEF Known
  <2>7. Types'
    BY <1>1, <2>1, <2>3, TypesOfMove DEF Inv, Types
  <2>8. OneHolder'
    BY <1>2, <2>1, <2>3, <2>4, Places DEF Inv, OneHolder
  <2>9. ASSUME NEW q \in Runs, act'[q].pc \in Waiting
        PROVE  /\ act'[q].fails = act'[q].st.left
               /\ Forgotten(act'[q].st.left) \subseteq Known' \union OnFile'
               /\ Listed(act'[q].st, Known' \union OnFile')
    <3>1. q # r
      BY <2>3, <2>4, <2>9, Places
    <3> QED
      BY <2>4, <2>6, <2>9, <3>1 DEF Inv, Kept, Listed
  <2>10. Kept'
    <3>1. k.pc \notin Closing
      BY <2>3, Places
    <3>2. OnFile' \subseteq Known' /\ Forgotten(k.st.left) \subseteq Known' /\ Listed(k.st, Known') /\ Listed(state', Known')
      BY <1>1, <2>2, <2>3, <2>5, <2>6 DEF Inv, Kept, Listed
    <3>3. Listed(state', Known' \union OnFile')
      BY <3>2 DEF Listed
    <3> QED
      BY <2>1, <2>4, <2>9, <3>1, <3>2, <3>3 DEF Kept
  <2>11. Ingested'
    <3>1. k.pc \in Crawling /\ k.pc \notin Closing
      BY <2>3, Places
    <3>2. act[r].st.ingest = "done" => AllIngested'
      <4>1. state.ingest = "done" => AllIngested
        BY <1>2 DEF Inv, Ingested
      <4> QED
        BY <1>1, <2>1, <4>1, StaleCovers DEF AllIngested
    <3> QED
      BY <2>1, <2>3, <2>4, <3>1, <3>2 DEF Ingested
  <2> QED
    BY <1>1, <2>1, <2>7, <2>8, <2>10, <2>11, OkStays DEF Inv
<1>3. CASE lock # {}
  <2>1. act' = [act EXCEPT ![r] = IdleRun] /\ UNCHANGED <<lock, gap>>
    BY <1>3 DEF TryLock, Go
  <2>2. r \notin lock /\ \A q \in lock : act'[q] = act[q]
    BY <1>1, <2>1, NotHolder
  <2>3. lock' = lock \ {r}
    BY <2>1, <2>2
  <2>4. OneHolder' /\ Kept'
    BY <1>1, <2>1, <2>2, <2>3, Leaves DEF Inv
  <2>5. Types'
    BY <1>1, <2>1, Idle, TypesOfMove DEF Inv, Types
  <2>6. Ingested'
    BY <1>1, <2>1, <2>2 DEF Inv, Ingested, AllIngested
  <2> QED
    BY <1>1, <2>1, <2>4, <2>5, <2>6, OkStays DEF Inv
<1> QED
  BY <1>2, <1>3

-----------------------------------------------------------------------------
(* The theorems.                                                             *)

LEMMA InvInit == BackfillInit => Inv
<1> SUFFICES ASSUME BackfillInit
             PROVE  Inv
  OBVIOUS
<1>1. state = Fresh /\ lock = {} /\ act = [r \in Runs |-> IdleRun] /\ raw = {} /\ docs = {} /\ vecs = {} /\ gap = {}
  BY DEF BackfillInit
<1>2. Types
  BY <1>1, Idle DEF Types
<1>3. \A r \in Runs : act[r].pc = "idle"
  BY <1>1, Idle
<1>4. OneHolder
  BY <1>1, <1>3, Places DEF OneHolder
<1>5. Kept
  BY <1>1, <1>3, Idle DEF Kept, Listed, Waiting
<1>6. Ingested /\ OkIsTrue
  BY <1>1 DEF Ingested, AllIngested, OkIsTrue, Fresh
<1> QED
  BY <1>2, <1>4, <1>5, <1>6 DEF Inv

LEMMA InvNext == Inv /\ [BackfillNext]_backfillVars => Inv'
<1> SUFFICES ASSUME Inv, [BackfillNext]_backfillVars
             PROVE  Inv'
  OBVIOUS
<1>1. ASSUME NEW r \in Runs, Step(r)
      PROVE  Inv'
  BY <1>1, SayStartingStep, TryLockStep, SkipStep, CrawlSourceStep, RecordStep, CrawlsDoneStep, CrawlAgainStep,
     RetryRoundStep, RetriesDoneStep, IngestStep, SayIngestedStep, EmbedStep, FinishStep, UnlockStep DEF Step
<1>2. CASE UNCHANGED backfillVars
  <2>1. UNCHANGED <<state, lock, act, raw, docs, vecs, gap>>
    BY <1>2 DEF backfillVars
  <2>2. UNCHANGED <<OnFile, InHand, Known, AllIngested>>
    BY <2>1 DEF OnFile, InHand, Known, AllIngested
  <2>3. Types' /\ OneHolder' /\ Ingested'
    BY <2>1, <2>2 DEF Inv, Types, OneHolder, Ingested
  <2>4. Kept'
    BY <2>1, <2>2 DEF Inv, Kept, Listed
  <2> QED
    BY <2>1, <2>3, <2>4, OkStays DEF Inv
<1> QED
  BY <1>1, <1>2, CallStep, CrashStep DEF BackfillNext

\* The records of the state file and of the processes keep their form, and a page has
\* vectors only with a document, and a document only with a file.
THEOREM BackfillTypes == BackfillSpec => []Types
<1>1. Inv => Types
  BY DEF Inv
<1> QED
  BY <1>1, InvInit, InvNext, PTL DEF BackfillSpec

\* The lock is had by one process at a time, and only such a one crawls, ingests or embeds.
THEOREM BackfillHasOneHolder == BackfillSpec => []OneHolder
<1>1. Inv => OneHolder
  BY DEF Inv
<1> QED
  BY <1>1, InvInit, InvNext, PTL DEF BackfillSpec

\* The state file is true, of what is done (`ok') and, whenever no run has the lock, of
\* what the crawled sources lack.
THEOREM BackfillFileIsTrue == BackfillSpec => []FileIsTrue
<1>1. Inv => FileIsTrue
  <2> SUFFICES ASSUME Inv, lock = {}, NEW s \in Sources, state.src[s].status = "crawled"
               PROVE  PagesOf(s) \subseteq raw \union gap \union Forgotten(state.left)
    BY DEF FileIsTrue, FailuresKept, Inv
  <2>1. Known = raw \union gap
    BY NoHand DEF Known
  <2> QED
    BY <2>1 DEF Inv, Kept, Listed, OnFile
<1> QED
  BY <1>1, InvInit, InvNext, PTL DEF BackfillSpec
=============================================================================
