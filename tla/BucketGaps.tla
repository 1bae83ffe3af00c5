------------------------------ MODULE BucketGaps ------------------------------
(***************************************************************************)
(* Two detectors of decisions/scan.py, and the queries of                    *)
(* citec_dashboard/service.py they rest on: recurring incidents of a domain  *)
(* that no failure bucket covers are grouped by customer and by cause into   *)
(* questions for people (detect_bucket_gap); and an incident with two        *)
(* different causes is a question of its own (detect_cause_conflict), whose  *)
(* answer the grouping follows.                                              *)
(*                                                                          *)
(* Incidents are numbered from the latest on, the order the queries give them *)
(* in.  A text is what the rules tell of it: blank, long enough to name a    *)
(* cause, worded as unsettled, and which pairs of letters it has.  One pass  *)
(* of the batch is one step; writing the proposals is TopicScan's.           *)
(***************************************************************************)
EXTENDS Integers, FiniteSets, Sequences, SequencesExt

CONSTANTS
  Worlds,      \* the inputs: [incident, buckets, ruled, open]
  Domains,     \* CITEC_DOMAINS, in order
  FbDomains,   \* domain -> the domains of failure buckets that cover it, or {}
  MinCount, MaxGroups, MaxItems, MaxSize, GroupLimit

VARIABLES world, found    \* a world, and the proposals for it; <<>> before the pass
gapVars == <<world, found>>

-----------------------------------------------------------------------------
(* The cause of an incident: _incident_fields() and cause_confirmed(). *)

HasCause(t) == t.long
Sound(t)    == t.long /\ ~t.unsure
Order       == <<"final", "root", "direct", "detail", "initial", "class", "reason">>
Picked(i)   == IF i.pick = "initial" THEN "initial" ELSE "final"     \* `both' takes the final one
ByHuman(i)  == i.pick \in {"initial", "final", "both"} /\ ~i.text[Picked(i)].blank
CauseField(i) ==
  LET sound == SelectSeq(Order, LAMBDA k : Sound(i.text[k]))
  IN IF ByHuman(i) THEN Picked(i) ELSE IF sound = <<>> THEN "initial" ELSE Head(sound)
Cause(i) == i.text[CauseField(i)]
MutConfirmed(i) == i.status \in {"unknown", "done"} /\ HasCause(Cause(i))    \* mutant: "under investigation" counts
Confirmed(i) ==
  /\ i.status \in {"unknown", "done"}      \* _CAUSE_DONE_STATUS
  /\ IF ByHuman(i) THEN HasCause(Cause(i)) ELSE Sound(Cause(i)) /\ ~i.text["class"].unsure

\* detect_cause_conflict(): `frb' is the status only _DONE_STATUS has.
Conflicting(i) ==
  /\ i.recent /\ i.status \in {"done", "frb"}
  /\ Sound(i.text["initial"]) /\ Sound(i.text["final"]) /\ ~i.alike

\* gap_policy(): what people have confirmed to be left out.
Policy(w)      == {r \in {"fo", "external"} : w.ruled[r].status = "confirmed" /\ w.ruled[r].verdict = "exclude"}
Excluded(w, i) == ("fo" \in Policy(w) /\ i.fo) \/ ("external" \in Policy(w) /\ i.external)

\* cluster_by_cause(): `parent' is the forest; path halving leaves the roots alone.
Similar(s, t) == s \union t # {} /\ 4 * Cardinality(s \intersect t) >= Cardinality(s \union t)
RootOf(parent, x) == LET root[y \in DOMAIN parent] == IF parent[y] = y THEN y ELSE root[parent[y]] IN root[x]
Join(parent, a, b) == [parent EXCEPT ![RootOf(parent, a)] = RootOf(parent, b)]
Forest(w, items) ==
  LET pairs == FlattenSeq([a \in DOMAIN items |-> [k \in 1..(Len(items) - a) |-> <<items[a], items[a + k]>>]])
      alike == SelectSeq(pairs, LAMBDA p : Similar(Cause(w.incident[p[1]]).grams, Cause(w.incident[p[2]]).grams))
      after[k \in 0..Len(alike)] == IF k = 0 THEN [x \in ToSet(items) |-> x] ELSE Join(after[k - 1], alike[k][1], alike[k][2])
  IN after[Len(alike)]
\* Groups by the value of f, the larger first; among equals the one that begins first.
GroupsBy(f, items) ==
  LET values == [n \in DOMAIN items |-> f[items[n]]]
      Group(n) == SelectSeq(items, LAMBDA x : f[x] = values[n])
      Before(m, n) == \/ Len(Group(m)) > Len(Group(n))
                      \/ Len(Group(m)) = Len(Group(n)) /\ m < n
      firsts == SelectSeq([n \in DOMAIN items |-> n], LAMBDA n : \A m \in 1..(n - 1) : values[m] # values[n])
      sorted == SortSeq(firsts, Before)
  IN [k \in DOMAIN sorted |-> [of |-> values[sorted[k]], items |-> Group(sorted[k])]]
Clusters(w, items) == LET forest == Forest(w, items) IN GroupsBy([x \in ToSet(items) |-> RootOf(forest, x)], items)

-----------------------------------------------------------------------------
(* citec_dashboard/service.py *)

Candidates(w, d) == SelectSeq([n \in DOMAIN w.incident |-> n],
                              LAMBDA n : w.incident[n].recent /\ d \in w.incident[n].domains)
Recurring(w, d)  == IF Len(Candidates(w, d)) >= MinCount THEN Len(Candidates(w, d)) ELSE 0
Gap(w, d) == FbDomains[d] # {} /\ Recurring(w, d) > 0 /\ \A b \in FbDomains[d] : w.buckets[b] = 0
\* Grouped by domain and customer, an incident of d counts for all its domains.
Patterns(w, d) ==
  LET fanned == FlattenSeq([k \in DOMAIN Candidates(w, d) |->
        LET n == Candidates(w, d)[k]
        IN SetToSeq({[n |-> n, key |-> <<e, w.incident[n].customer>>] : e \in w.incident[n].domains})])
      big == SelectSeq(GroupsBy([x \in ToSet(fanned) |-> x.key], fanned), LAMBDA g : Len(g.items) >= MinCount)
      shown == SubSeq(big, 1, IF Len(big) < GroupLimit THEN Len(big) ELSE GroupLimit)
  IN [k \in DOMAIN shown |-> [of |-> shown[k].of,
        items |-> [j \in 1..(IF Len(shown[k].items) < MaxItems THEN Len(shown[k].items) ELSE MaxItems) |-> shown[k].items[j].n]]]

-----------------------------------------------------------------------------
(* detect_bucket_gap() *)

Collective == "several customers"     \* such a group is split by the name in the title
ByCustomer(w, g) ==
  IF g.of[2] # Collective THEN << [of |-> g.of[2], items |-> g.items] >>
  ELSE GroupsBy([n \in ToSet(g.items) |-> w.incident[n].titled], g.items)
Kept(w, items) == SelectSeq(items, LAMBDA n : Confirmed(w.incident[n]) /\ ~Excluded(w, w.incident[n]))
Enough(groups) == SelectSeq(groups, LAMBDA g : Len(g.items) >= MinCount)
\* The parts of one customer's incidents: by class; without one, by similar causes.
PartsOf(w, items) ==
  LET kept  == Kept(w, items)
      sort  == SelectSeq(kept, LAMBDA n : w.incident[n].class # "none")
      loose == SelectSeq(kept, LAMBDA n : w.incident[n].class = "none")
      known == Enough(GroupsBy([n \in ToSet(sort) |-> w.incident[n].class], sort))
      alike == Enough(Clusters(w, loose))
  IN IF Len(kept) < MinCount THEN <<>>
     ELSE [k \in DOMAIN known |-> [of |-> <<"class", known[k].of>>, items |-> known[k].items]] \o
          (IF Len(loose) < MinCount THEN <<>>
           ELSE IF Len(loose) > MaxSize THEN [k \in DOMAIN alike |-> [of |-> <<"t", k>>, items |-> alike[k].items]]
           ELSE << [of |-> <<"all">>, items |-> loose] >>)
\* A proposal: its source_key, and whether its customer was taken from the titles.
Proposals(w, d) ==
  LET groups == SelectSeq(Patterns(w, d), LAMBDA g : g.of[1] = d /\ g.of[2] # "unknown")
      Of(g) == FlattenSeq([k \in DOMAIN ByCustomer(w, g) |->
                 LET c == ByCustomer(w, g)[k] IN
                 LET parts == PartsOf(w, c.items) IN
                 [j \in DOMAIN parts |-> [key |-> <<d, c.of, parts[j].of>>, titled |-> g.of[2] = Collective, items |-> parts[j].items]]])
      all == SelectSeq(FlattenSeq([k \in DOMAIN groups |-> Of(groups[k])]),
                       LAMBDA p : \E n \in ToSet(p.items) : w.incident[n].named)
  IN SubSeq(all, 1, IF Len(all) < MaxGroups THEN Len(all) ELSE MaxGroups)
\* _mark_overlaps(): the other questions, of this pass or open, an incident is also in.
Others(ps, open, p, n) == {q.key : q \in {r \in ToSet(ps) \union open : r.key # p.key /\ n \in ToSet(r.items)}}
Marked(w, ps) ==
  [k \in DOMAIN ps |-> [p |-> ps[k], also |-> [n \in ToSet(ps[k].items) |->
     LET others == Others(ps, w.open, ps[k], n) IN IF Cardinality(others) <= 3 THEN others ELSE CHOOSE S \in SUBSET others : Cardinality(S) = 3]]]
DetectGaps(w) ==
  LET More(c, d) == Recurring(w, Domains[c]) > Recurring(w, Domains[d]) \/ (Recurring(w, Domains[c]) = Recurring(w, Domains[d]) /\ c < d)
      gaps == SelectSeq(SortSeq([k \in DOMAIN Domains |-> k], More), LAMBDA k : Gap(w, Domains[k]))
  IN FlattenSeq([k \in DOMAIN gaps |-> Proposals(w, Domains[gaps[k]])])

Init == world \in Worlds /\ found = <<>>
Pass == found = <<>> /\ (\E ps \in {DetectGaps(world)} : found' = << Marked(world, ps) >>) /\ UNCHANGED world
Next == Pass
Spec == Init /\ [][Next]_gapVars

-----------------------------------------------------------------------------
(* Properties. *)

Passed == found # <<>>
All    == {found[1][k].p : k \in DOMAIN found[1]}
In(n)  == world.incident[n]

\* scan.py:160: the clusters are the connected components of similarity: what any
\* chain of similar causes links is together, and nothing else.
Apart(S, T) == \A x \in S, y \in T : ~Similar(Cause(In(x)).grams, Cause(In(y)).grams)
ClustersAreComponents ==
  LET items  == DOMAIN world.incident
      closed == {S \in SUBSET items : S # {} /\ Apart(S, items \ S)}
      cs     == Clusters(world, [n \in items |-> n])
  IN /\ {ToSet(cs[k].items) : k \in DOMAIN cs} = {S \in closed : \A T \in closed : T \subseteq S => T = S}
     /\ \A j, k \in DOMAIN cs : j < k => Len(cs[j].items) >= Len(cs[k].items)

\* A question is about enough incidents of one customer and cause, each confirmed by
\* the record or settled by a person, none excluded by a policy; within its domain
\* no incident is asked about twice.
QuestionsFit == Passed =>
  /\ \A p \in All :
       /\ Len(p.items) >= MinCount
       /\ \A n \in ToSet(p.items) :
            /\ p.key[1] \in In(n).domains /\ In(n).status # "open" /\ ~Excluded(world, In(n))
            /\ ByHuman(In(n)) \/ (~Cause(In(n)).unsure /\ ~In(n).text["class"].unsure)
            /\ \A m \in ToSet(p.items) : In(m).class = In(n).class /\ In(m).customer = In(n).customer
  /\ \A p, q \in All : p # q /\ p.key[1] = q.key[1] => ToSet(p.items) \intersect ToSet(q.items) = {}
\* Two questions have different keys, unless one customer has a group of its own and
\* is also named in titles of the collective one.
KeysApart == Passed => \A p, q \in All : p # q /\ p.key = q.key => p.titled # q.titled

\* Below the limits nothing recurring is passed over: enough incidents of one customer,
\* domain and class, all confirmed and not excluded, are asked about.
NothingPassedOver == Passed =>
  \A d \in ToSet(Domains), n \in DOMAIN world.incident :
    LET peers == {m \in DOMAIN world.incident :
                    /\ In(m).recent /\ d \in In(m).domains /\ In(m).named
                    /\ In(m).customer = In(n).customer
                    /\ In(m).customer = Collective => In(m).titled = In(n).titled
                    /\ In(m).class = In(n).class
                    /\ Confirmed(In(m)) /\ ~Excluded(world, In(m))}
    IN /\ n \in peers /\ Cardinality(peers) >= MinCount /\ Gap(world, d) /\ In(n).class # "none" /\ In(n).customer # "unknown"
       /\ Cardinality({p \in All : p.key[1] = d}) < MaxGroups /\ Len(world.incident) <= MaxItems
       => \E p \in All : p.key[1] = d /\ n \in ToSet(p.items)

\* An incident that is in two questions, of this pass or open, says so in both.
OverlapsTold == Passed =>
  \A k \in DOMAIN found[1], q \in All \union world.open : LET m == found[1][k] IN
    \A n \in ToSet(m.p.items) \intersect ToSet(q.items) :
      m.p.key # q.key => m.also[n] # {} /\ (Cardinality(m.also[n]) < 3 => q.key \in m.also[n])

\* Whoever is asked which of two causes is right is heard: any answer makes the
\* incident one with a confirmed cause, but for the status FRB completed.
AnswerIsHeard ==
  \A n \in DOMAIN world.incident : Conflicting(In(n)) /\ In(n).status # "frb" =>
    \A v \in {"initial", "final", "both"} :
      Confirmed([In(n) EXCEPT !.pick = v]) /\ CauseField([In(n) EXCEPT !.pick = v]) = IF v = "initial" THEN "initial" ELSE "final"
GapsFit == Passed =>
  ClustersAreComponents /\ QuestionsFit /\ KeysApart /\ NothingPassedOver /\ OverlapsTold /\ AnswerIsHeard
=============================================================================
