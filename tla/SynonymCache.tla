---------------------------- MODULE SynonymCache ----------------------------
(***************************************************************************)
(* synonyms/runtime.py: the approved groups, kept for TTL seconds by every   *)
(* process that searches.  The thread that finds them old reads them again;  *)
(* the others are given the old ones meanwhile.  Deciding a candidate clears *)
(* the cache of the process that served the request.                         *)
(*                                                                          *)
(* Searches run in threads, and runtime_groups() has no lock: each access to *)
(* the clock, to `_cache' and to the database is a step.  What is approved is *)
(* counted by `version'; reading it yields the version read.                 *)
(***************************************************************************)
EXTENDS Integers

CONSTANTS Threads, TTL, MaxTime, MaxVersion   \* the last two are bounds

\* _parse_ttl() takes no negative number.
ASSUME CacheAssumption == TTL \in Nat /\ MaxTime \in Nat /\ MaxVersion \in Nat

VARIABLES
  now,
  version,  \* of the approved groups
  cache,    \* what is cached: whether, since when, and of which version (-1: the empty list)
  thread,   \* the calls of runtime_groups() under way
  born,     \* version -> when it was approved (history)
  failed    \* the last reload could not read (history)
cacheVars == <<now, version, cache, thread, born, failed>>

Nothing == [there |-> FALSE, at |-> 0, of |-> -1]
NoCall  == [pc |-> "idle", at |-> 0, prev |-> -1, of |-> -1]
CacheInit ==
  /\ now = 0 /\ version = 0 /\ cache = Nothing /\ failed = FALSE
  /\ thread = [t \in Threads |-> NoCall]
  /\ born = [v \in 0..MaxVersion |-> 0]

Goes(t, k) == thread' = [thread EXCEPT ![t] = k]
Decide ==    \* set_status(), in the other process or before reset_cache()
  /\ version < MaxVersion /\ version' = version + 1 /\ born' = [born EXCEPT ![version + 1] = now]
  /\ UNCHANGED <<now, cache, thread, failed>>
Reset ==    \* reset_cache()
  /\ cache' = Nothing /\ UNCHANGED <<now, version, thread, born, failed>>

Ask(t) ==
  /\ thread[t].pc = "idle" /\ Goes(t, [NoCall EXCEPT !.pc = "look", !.at = now])
  /\ UNCHANGED <<now, version, cache, born, failed>>
Look(t) ==
  /\ thread[t].pc = "look" /\ Goes(t, [thread[t] EXCEPT !.pc = IF cache.there THEN "judge" ELSE "keep"])
  /\ UNCHANGED <<now, version, cache, born, failed>>
\* The tuple is fetched anew: after a reset there is none, the subscript raises and the
\* search fails, which ends the call as serving the cached groups does.
Judge(t) ==
  /\ thread[t].pc = "judge"
  /\ Goes(t, IF ~cache.there \/ thread[t].at - cache.at < TTL THEN NoCall ELSE [thread[t] EXCEPT !.pc = "keep"])
  /\ UNCHANGED <<now, version, cache, born, failed>>
Keep(t) ==
  /\ thread[t].pc = "keep" /\ Goes(t, [thread[t] EXCEPT !.pc = "claim", !.prev = cache.of])
  /\ UNCHANGED <<now, version, cache, born, failed>>
Claim(t) ==
  /\ thread[t].pc = "claim" /\ Goes(t, [thread[t] EXCEPT !.pc = "load"])
  /\ cache' = [there |-> TRUE, at |-> thread[t].at, of |-> thread[t].prev]
  /\ UNCHANGED <<now, version, born, failed>>
Load(t) ==
  /\ thread[t].pc = "load" /\ Goes(t, [thread[t] EXCEPT !.pc = "store", !.of = version])
  /\ UNCHANGED <<now, version, cache, born, failed>>
MutStored(k) == [there |-> TRUE, at |-> now, of |-> k.of]   \* mutant: the clock is read after the groups
Stored(k) == [there |-> TRUE, at |-> k.at, of |-> k.of]
Store(t) ==
  /\ thread[t].pc = "store" /\ cache' = Stored(thread[t]) /\ failed' = FALSE
  /\ Goes(t, NoCall) /\ UNCHANGED <<now, version, born>>
LoadFails(t) ==    \* the previous groups, for another TTL
  /\ thread[t].pc = "load" /\ failed' = TRUE
  /\ cache' = [there |-> TRUE, at |-> thread[t].at, of |-> thread[t].prev]
  /\ Goes(t, NoCall) /\ UNCHANGED <<now, version, born>>
TimePasses == now < MaxTime /\ now' = now + 1 /\ UNCHANGED <<version, cache, thread, born, failed>>

CacheNext ==
  \/ Decide \/ Reset \/ TimePasses
  \/ \E t \in Threads : \/ Ask(t) \/ Look(t) \/ Judge(t) \/ Keep(t) \/ Claim(t)
                        \/ Load(t) \/ Store(t) \/ LoadFails(t)
CacheSpec == CacheInit /\ [][CacheNext]_cacheVars

-----------------------------------------------------------------------------
(* Properties. *)

Times    == 0..now
Versions == -1..version
CallType == [pc : {"idle", "look", "judge", "keep", "claim", "load", "store"}, at : Times,
             prev : Versions, of : Versions]
CacheRow == [there : BOOLEAN, at : Times, of : Versions]
\* The variables have their types, and no time is ahead of the clock.
CacheTypeOK ==
  /\ now \in Nat /\ version \in 0..MaxVersion /\ failed \in BOOLEAN
  /\ born \in [0..MaxVersion -> Times]
  /\ cache \in CacheRow
  /\ thread \in [Threads -> CallType]

\* Once no thread reloads, and the last that did was able to, a decision made TTL
\* ago is served: the age of the cache counts from before the read, so a slow
\* reload, or an older one that ends last, cannot stretch it.
Reloading(t) == thread[t].pc \in {"claim", "load", "store"}
Fresh == cache.there /\ now - cache.at < TTL
ServedWithinTTL ==
  CacheTypeOK /\ (~failed /\ Fresh /\ (\A t \in Threads : ~Reloading(t)) =>
    \A v \in 0..version : now - born[v] >= TTL => cache.of >= v)
=============================================================================
