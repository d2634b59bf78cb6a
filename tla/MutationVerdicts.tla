-------------------------- MODULE MutationVerdicts --------------------------
(***************************************************************************)
(* mutation.run: a pass over the source files judges every mutant with the *)
(* tests paired to its file and reports the symbols nothing pins.  Verdicts *)
(* and probes are cached across passes; a pass may be killed at any step,  *)
(* and a suite may be flaky.                                               *)
(*                                                                         *)
(* Edits fall between passes.  The versions of a suite stand for all that  *)
(* the key hashes about it: the paired tests and the test command.  A pass *)
(* lists its mutants before it restores what a killed pass of another task *)
(* left mutated, so of such a file it lists those of the mutated text.     *)
(***************************************************************************)
EXTENDS Naturals, FiniteSets

CONSTANTS
  Sources,    \* the files in scope, which are also the anchors of file findings
  Anchors,    \* their symbols
  Mutants,    \* those of any text of a source, mutated texts included
  MutantsOf,  \* for each source and version the mutants generated from it
  SourceOf,   \* the file of each symbol
  AnchorOf,   \* the symbol each mutant changes
  Suites,     \* versions of the tests paired with a source
  NoTests,    \* no test file matches it
  Versions,   \* versions of the text of a source
  HasBuild,   \* the profile has a build command
  StopEarly,  \* stop_at_first_survivor
  MaxEdits    \* bound on edits, for TLC

FileOf(m) == SourceOf[AnchorOf[m]]

ASSUME MutantsAssumption ==
  /\ MutantsOf \in [Sources -> [Versions -> SUBSET Mutants]]
  /\ AnchorOf \in [Mutants -> Anchors] /\ SourceOf \in [Anchors -> Sources]
  /\ \A s \in Sources, v \in Versions : \A m \in MutantsOf[s][v] : FileOf(m) = s
ASSUME AnchorsAssumption == Anchors \cap Sources = {}
ASSUME SuitesAssumption == NoTests \notin Suites /\ Suites # {} /\ Versions # {}
ASSUME SwitchesAssumption == HasBuild \in BOOLEAN /\ StopEarly \in BOOLEAN /\ MaxEdits \in Nat

VARIABLES
  src,         \* the version of each source
  suite,       \* the version of the tests paired with it
  mutated,     \* sources that a killed pass of another task left mutated
  tainted,     \* sources that ever were, when a pass began
  edits,       \* edits and leftovers so far
  results,     \* the results table: by key the outcome, and what was judged
  probes,      \* the probes table
  pc,          \* where the pass is
  garbled,     \* sources that were mutated when it listed the mutants
  listed,      \* the mutants it listed
  todo,        \* shards it has still to take
  cur,         \* the shard it is in
  left,        \* mutants of that shard it has still to take
  seen,        \* the outcomes so far
  unexercised, \* sources whose tests never reach them
  reports      \* what finished passes reported, by the tree they found

tree == <<src, suite, mutated, tainted, edits>>
cache == <<results, probes>>
pass == <<garbled, listed, todo, cur, left, seen, unexercised>>
vars == <<tree, cache, pc, pass, reports>>

Put(f, x, v) == [y \in DOMAIN f \cup {x} |-> IF y = x THEN v ELSE f[y]]
Empty == [x \in {} |-> x]

MutantsIn(s) == MutantsOf[s][src[s]]
ListedIn(s) == { m \in listed : FileOf(m) = s }
Shards == { FileOf(m) : m \in listed }
WithTests == { s \in Shards : suite[s] # NoTests }

Judged == {"killed", "survived", "not_built"}
Outcomes == Judged \cup {"no_tests"}
Survived(outcome) == outcome \in {"survived", "no_tests"}

(* What a verdict is about: this text under these tests, and the mutant as   *)
(* generated from this text rather than from a mutated one.                 *)
World(s) == [src |-> src[s], suite |-> suite[s], own |-> s \notin garbled]

(* Mutant: the key has no tests in it.                                      *)
KeyOfSource(m) == <<m, src[FileOf(m)], NoTests>>

Key(m) == <<m, src[FileOf(m)], suite[FileOf(m)]>>
ProbeKey(kind, s) == <<kind, s, src[s], suite[s]>>

Keys == Mutants \X Versions \X (Suites \cup {NoTests})
ProbeKeys == {"baseline", "sentinel"} \X Sources \X Versions \X Suites
Verdict == [outcome : Outcomes,
            on : [src : Versions, suite : Suites \cup {NoTests}, own : BOOLEAN]]
Trees == [src : [Sources -> Versions], suite : [Sources -> Suites \cup {NoTests}],
          garbled : SUBSET Sources]

TypeOK ==
  /\ src \in [Sources -> Versions] /\ suite \in [Sources -> Suites \cup {NoTests}]
  /\ mutated \subseteq Sources /\ tainted \subseteq Sources /\ edits \in 0 .. MaxEdits
  /\ DOMAIN results \subseteq Keys /\ results \in [DOMAIN results -> Verdict]
  /\ DOMAIN probes \subseteq ProbeKeys /\ probes \in [DOMAIN probes -> BOOLEAN]
  /\ pc \in {"idle", "next", "baseline", "sentinel", "mutants"}
  /\ garbled \subseteq Sources /\ listed \subseteq Mutants /\ todo \subseteq Shards
  /\ pc \in {"baseline", "sentinel", "mutants"} => cur \in Shards
  /\ left \subseteq Mutants /\ unexercised \subseteq WithTests
  /\ DOMAIN seen \subseteq Mutants /\ seen \in [DOMAIN seen -> Outcomes]
  /\ DOMAIN reports \subseteq Trees /\ reports \in [DOMAIN reports -> SUBSET (Anchors \cup Sources)]

NoPass ==
  /\ garbled' = {} /\ listed' = {} /\ todo' = {} /\ left' = {} /\ unexercised' = {}
  /\ seen' = Empty /\ cur' = NoTests
Stop == pc' = "idle" /\ NoPass

Init ==
  /\ src \in [Sources -> Versions] /\ suite \in [Sources -> Suites \cup {NoTests}]
  /\ mutated = {} /\ tainted = {} /\ edits = 0
  /\ results = Empty /\ probes = Empty /\ reports = Empty
  /\ pc = "idle" /\ garbled = {} /\ listed = {} /\ todo = {} /\ left = {} /\ unexercised = {}
  /\ seen = Empty /\ cur = NoTests

-----------------------------------------------------------------------------
(* Between passes the user and the fix agents edit sources and tests, and a  *)
(* pass of another task may be killed with a mutant in the tree.            *)
Between == pc = "idle" /\ edits < MaxEdits /\ edits' = edits + 1
           /\ UNCHANGED <<tainted, cache, pc, pass, reports>>

EditSource(s) ==
  /\ Between
  /\ s \notin mutated
  /\ \E v \in Versions \ {src[s]} : src' = [src EXCEPT ![s] = v]
  /\ UNCHANGED <<suite, mutated>>

EditTests(s) ==
  /\ Between
  /\ \E t \in (Suites \cup {NoTests}) \ {suite[s]} : suite' = [suite EXCEPT ![s] = t]
  /\ UNCHANGED <<src, mutated>>

LeaveMutant(s) ==
  /\ Between
  /\ mutated' = mutated \cup {s} /\ UNCHANGED <<src, suite>>

-----------------------------------------------------------------------------
(* build_mutation_shards lists the mutants of the text each file holds at     *)
(* that moment; restore_orphans then puts the originals back.  A leftover     *)
(* text yields what it will: none at all, and no shard, if it is a sentinel.  *)
StartPass ==
  /\ pc = "idle"
  /\ garbled' = mutated /\ mutated' = {} /\ tainted' = tainted \cup mutated
  /\ \E ofLeftovers \in SUBSET { m \in Mutants : FileOf(m) \in mutated } :
       listed' = ofLeftovers \cup UNION { MutantsIn(s) : s \in Sources \ mutated }
  /\ todo' = { FileOf(m) : m \in listed' } /\ pc' = "next"
  /\ UNCHANGED <<src, suite, edits, cache, cur, left, seen, unexercised, reports>>

StartShard(s) ==
  /\ pc = "next" /\ s \in todo
  /\ cur' = s /\ todo' = todo \ {s} /\ left' = ListedIn(s)
  /\ pc' = IF suite[s] = NoTests THEN "mutants" ELSE "baseline"
  /\ UNCHANGED <<tree, cache, garbled, listed, seen, unexercised, reports>>

(* The answer of a probe: the cached one, or a fresh one that is cached.    *)
Probe(kind, ok) ==
  LET key == ProbeKey(kind, cur)
  IN  /\ key \in DOMAIN probes => ok = probes[key]
      /\ probes' = Put(probes, key, ok) /\ UNCHANGED results

(* A suite that is red without any mutant ends the pass with an error.      *)
Baseline(green) ==
  /\ pc = "baseline" /\ Probe("baseline", green)
  /\ \/ green /\ pc' = "sentinel" /\ UNCHANGED pass
     \/ ~green /\ Stop
  /\ UNCHANGED <<tree, reports>>

(* Mutant: an unexercised file is passed over and not noted.                *)
SentinelSilent(reached) ==
  /\ pc = "sentinel" /\ Probe("sentinel", reached)
  /\ pc' = (IF reached THEN "mutants" ELSE "next")
  /\ UNCHANGED <<tree, pass, reports>>

(* exercised_by_tests: a suite that passes without the module never reached  *)
(* it, and the shard is left unjudged.                                      *)
Sentinel(reached) ==
  /\ pc = "sentinel" /\ Probe("sentinel", reached)
  /\ \/ reached /\ pc' = "mutants" /\ UNCHANGED unexercised
     \/ ~reached /\ pc' = "next" /\ unexercised' = unexercised \cup {cur}
  /\ UNCHANGED <<tree, garbled, listed, todo, cur, left, seen, reports>>

(* stop_at_first_survivor: one surviving mutant is enough for a symbol.      *)
Redundant(m) ==
  StopEarly /\ \E n \in DOMAIN seen : AnchorOf[n] = AnchorOf[m] /\ Survived(seen[n])

(* Only a build command can reject a mutant.  "killed" is every outcome that  *)
(* the report passes over: caught, timed out, and the error of a lock that   *)
(* could not be removed, which is cached and not reported either.           *)
Verdicts(s) ==
  IF suite[s] = NoTests THEN {"no_tests"}
  ELSE IF HasBuild THEN Judged ELSE Judged \ {"not_built"}

Skip(m) ==
  /\ pc = "mutants" /\ m \in left /\ Redundant(m)
  /\ left' = left \ {m}
  /\ UNCHANGED <<tree, cache, pc, garbled, listed, todo, cur, seen, unexercised, reports>>

(* Mutant: a verdict is cached when it is good news only.                   *)
JudgeKillsCached(m, outcome) ==
  /\ pc = "mutants" /\ m \in left /\ ~Redundant(m)
  /\ IF Key(m) \in DOMAIN results
       THEN outcome = results[Key(m)].outcome /\ UNCHANGED results
       ELSE /\ outcome \in Verdicts(cur)
            /\ results' = IF outcome # "survived"
                 THEN Put(results, Key(m), [outcome |-> outcome, on |-> World(cur)])
                 ELSE results
  /\ seen' = Put(seen, m, outcome) /\ left' = left \ {m}
  /\ UNCHANGED <<tree, probes, pc, garbled, listed, todo, cur, unexercised, reports>>

Judge(m, outcome) ==
  /\ pc = "mutants" /\ m \in left /\ ~Redundant(m)
  /\ IF Key(m) \in DOMAIN results
       THEN outcome = results[Key(m)].outcome /\ UNCHANGED results
       ELSE /\ outcome \in Verdicts(cur)
            /\ results' = Put(results, Key(m), [outcome |-> outcome, on |-> World(cur)])
  /\ seen' = Put(seen, m, outcome) /\ left' = left \ {m}
  /\ UNCHANGED <<tree, probes, pc, garbled, listed, todo, cur, unexercised, reports>>

EndShard ==
  /\ pc = "mutants" /\ left = {}
  /\ pc' = "next"
  /\ UNCHANGED <<tree, cache, pass, reports>>

-----------------------------------------------------------------------------
(* The verdicts that nothing is known from: no file was exercised, or no     *)
(* mutant could be built.                                                   *)
NothingExercised == WithTests # {} /\ unexercised = WithTests
NothingBuilt == DOMAIN seen # {} /\ \A m \in DOMAIN seen : seen[m] = "not_built"

Unpinned == { AnchorOf[m] : m \in { n \in DOMAIN seen : seen[n] = "survived" } }
Untested == { FileOf(m) : m \in { n \in DOMAIN seen : seen[n] = "no_tests" } }
Reported == Unpinned \cup unexercised \cup Untested
Here == [src |-> src, suite |-> suite, garbled |-> garbled]

(* Mutant: a pass in which nothing could be built counts as clean.          *)
FinishUnbuilt ==
  /\ pc = "next" /\ todo = {}
  /\ reports' = IF NothingExercised THEN reports ELSE Put(reports, Here, Reported)
  /\ Stop /\ UNCHANGED <<tree, cache>>

Finish ==
  /\ pc = "next" /\ todo = {}
  /\ reports' = IF NothingExercised \/ NothingBuilt THEN reports
                ELSE Put(reports, Here, Reported)
  /\ Stop /\ UNCHANGED <<tree, cache>>

(* The pass is killed, or cannot read, write or run what it needs.          *)
Kill == pc # "idle" /\ Stop /\ UNCHANGED <<tree, cache, reports>>

Next ==
  \/ \E s \in Sources : EditSource(s) \/ EditTests(s) \/ LeaveMutant(s) \/ StartShard(s)
  \/ StartPass \/ EndShard \/ Finish \/ Kill
  \/ \E answer \in BOOLEAN : Baseline(answer) \/ Sentinel(answer)
  \/ \E m \in left : Skip(m) \/ \E outcome \in Outcomes : Judge(m, outcome)

Spec == Init /\ [][Next]_vars

-----------------------------------------------------------------------------
(* The verdict the cache has on a mutant of a tree.                         *)
KeyIn(t, m) == <<m, t.src[FileOf(m)], t.suite[FileOf(m)]>>
Found(t, m, outcomes) ==
  KeyIn(t, m) \in DOMAIN results /\ results[KeyIn(t, m)].outcome \in outcomes

(* Nothing is passed over in silence: what a pass reports of a tree names the *)
(* symbol or the file of each mutant, or the cache has a verdict against it   *)
(* for that very tree (mutation.py: "That is silence, not a clean result"),   *)
(* where an error counts as one.  Excepted is a file that held a leftover    *)
(* when the pass listed its mutants.                                        *)
SilenceIsExplained ==
  \A t \in DOMAIN reports : \A s \in Sources \ t.garbled : \A m \in MutantsOf[s][t.src[s]] :
    {AnchorOf[m], s} \cap reports[t] # {} \/ Found(t, m, {"killed", "not_built"})

(* "Keyed by mutant identity plus the source, tests and command it was       *)
(* judged against" (README.md:335), kills and reverted edits included,       *)
(* unless a pass began on a tree another task had left mutated.             *)
KeyedAsJudged(k) ==
  results[k].outcome \in Judged =>
    results[k].on = [src |-> k[2], suite |-> k[3], own |-> TRUE]
VerdictsAreKeyed ==
  \A k \in DOMAIN results : KeyedAsJudged(k) \/ FileOf(k[1]) \in tainted

(* "No survivors" is never read into a pass in which nothing was run: where   *)
(* no file held a leftover, a clean report means that a mutant of that tree   *)
(* was caught, as far as the cache tells, or ended in an error, which the    *)
(* check of the code does not count (mutation.py:750).                      *)
CleanMeansCaught ==
  \A t \in DOMAIN reports :
    /\ t.garbled = {} /\ reports[t] = {}
    /\ \E s \in Sources : MutantsOf[s][t.src[s]] # {}
    => \E s \in Sources : \E m \in MutantsOf[s][t.src[s]] : Found(t, m, {"killed"})

(* Rounds compare (mutation.py:265): passes that find a file with the same    *)
(* text and the same tests say the same of it and its symbols, however flaky  *)
(* the suite, whatever is edited or reverted elsewhere and whatever passes    *)
(* are killed, or find a leftover in that very file, in between.  What a pass *)
(* that found a leftover there says of the file is itself excepted.          *)
Said(report, s) == report \cap ({s} \cup { f \in Anchors : SourceOf[f] = s })

ReportsAgree ==
  [][\A t \in DOMAIN reports, u \in DOMAIN reports' :
       \A s \in Sources \ (t.garbled \cup u.garbled) :
         t.src[s] = u.src[s] /\ t.suite[s] = u.suite[s]
           => Said(reports[t], s) = Said(reports'[u], s)]_vars

-----------------------------------------------------------------------------
(* A statement of the documentation that the code does not keep.            *)

(* "Keyed by mutant identity plus the source, tests and command it was       *)
(* judged against" (README.md:335), whatever tree a pass began on.          *)
AlwaysKeyedAsJudged == \A k \in DOMAIN results : KeyedAsJudged(k)
=============================================================================
