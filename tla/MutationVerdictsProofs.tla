----------------------- MODULE MutationVerdictsProofs -----------------------
(***************************************************************************)
(* What the cache and the reports of mutation passes are worth, for any     *)
(* sources, mutants, suites and edits.                                     *)
(*                                                                         *)
(* The argument: nothing is ever removed from the cache or changed in it,   *)
(* and a finished pass leaves every file settled there that held no         *)
(* leftover when it listed its mutants, so that what it reports of the file *)
(* can be read off the cache.  What a later pass adds under the keys of a   *)
(* settled file, be it about the mutants of a leftover, changes nothing     *)
(* that is read off.                                                        *)
(***************************************************************************)
EXTENDS MutationVerdicts, TLAPS

(* The contents of the cache on a source in version v under tests u.        *)
Cached(m, v, u) == <<m, v, u>> \in DOMAIN results
Outcome(m, v, u) == results[<<m, v, u>>].outcome
Probed(s, v, u) == <<"sentinel", s, v, u>> \in DOMAIN probes
Reached(s, v, u) == Probed(s, v, u) /\ probes[<<"sentinel", s, v, u>>]
Missed(s, v, u) == Probed(s, v, u) /\ ~probes[<<"sentinel", s, v, u>>]

ResultsAreEarned ==
  \A k \in DOMAIN results :
    /\ results[k].outcome = "no_tests" <=> k[3] = NoTests
    /\ k[3] # NoTests => Reached(FileOf(k[1]), k[2], k[3])

(* Another mutant of its symbol in this text has survived.                  *)
Covered(m, v, u) ==
  \E n \in MutantsOf[FileOf(m)][v] :
    AnchorOf[n] = AnchorOf[m] /\ Cached(n, v, u) /\ Survived(Outcome(n, v, u))

(* A pass over the text of this file learns nothing new of it.              *)
Settled(s, v, u) ==
  /\ MutantsOf[s][v] # {} /\ u # NoTests => Probed(s, v, u)
  /\ \A m \in MutantsOf[s][v] : Missed(s, v, u) \/ Cached(m, v, u) \/ Covered(m, v, u)

(* What there is to report on a symbol and on a file.                       *)
OnSymbol(a, v, u) ==
  \E m \in MutantsOf[SourceOf[a]][v] :
    AnchorOf[m] = a /\ Cached(m, v, u) /\ Outcome(m, v, u) = "survived"
OnFile(s, v, u) == MutantsOf[s][v] # {} /\ (u = NoTests \/ Missed(s, v, u))

(* A report says of a file what the cache does.                             *)
Faithful(report, s, v, u) ==
  /\ Settled(s, v, u)
  /\ s \in report <=> OnFile(s, v, u)
  /\ \A a \in Anchors : SourceOf[a] = s => (a \in report <=> OnSymbol(a, v, u))

Caught(t) == \E s \in Sources : \E m \in MutantsOf[s][t.src[s]] : Found(t, m, {"killed"})

ReportsAreCached ==
  \A t \in DOMAIN reports :
    /\ \A s \in Sources \ t.garbled : Faithful(reports[t], s, t.src[s], t.suite[s])
    /\ /\ t.garbled = {} /\ reports[t] = {}
       /\ \E s \in Sources : MutantsOf[s][t.src[s]] # {}
       => Caught(t)

-----------------------------------------------------------------------------
(* The pass under way.                                                      *)
InShard == pc \in {"baseline", "sentinel", "mutants"}
Done == (Shards \ todo) \ (IF InShard THEN {cur} ELSE {})

TakenCareOf(m) ==
  m \in DOMAIN seen \/ \E n \in DOMAIN seen : AnchorOf[n] = AnchorOf[m] /\ Survived(seen[n])

PassIsCached ==
  /\ pc = "idle" =>
       garbled = {} /\ todo = {} /\ left = {} /\ unexercised = {} /\ seen = Empty
  /\ garbled \subseteq tainted
  /\ pc # "idle" => \A s \in Sources \ garbled : ListedIn(s) = MutantsIn(s)
  /\ InShard => cur \notin todo /\ left \subseteq ListedIn(cur)
  /\ pc \in {"baseline", "sentinel"} => suite[cur] # NoTests /\ left = ListedIn(cur)
  /\ pc = "mutants" =>
       /\ suite[cur] # NoTests => Reached(cur, src[cur], suite[cur])
       /\ \A m \in ListedIn(cur) \ left : TakenCareOf(m)
  /\ pc # "idle" => \A s \in Done :
       \/ s \in unexercised
       \/ /\ suite[s] # NoTests => Reached(s, src[s], suite[s])
          /\ \A m \in ListedIn(s) : TakenCareOf(m)
  /\ \A s \in unexercised : Missed(s, src[s], suite[s])
  /\ \A m \in DOMAIN seen :
       m \in listed /\ Key(m) \in DOMAIN results /\ seen[m] = results[Key(m)].outcome

IInv ==
  /\ TypeOK /\ VerdictsAreKeyed /\ ResultsAreEarned /\ PassIsCached /\ ReportsAreCached

USE MutantsAssumption, AnchorsAssumption, SuitesAssumption, SwitchesAssumption

-----------------------------------------------------------------------------
(* Data.                                                                    *)
LEMMA MutantFacts ==
  ASSUME NEW s \in Sources, NEW v \in Versions, NEW m \in MutantsOf[s][v]
  PROVE  m \in Mutants /\ FileOf(m) = s /\ AnchorOf[m] \in Anchors /\ SourceOf[AnchorOf[m]] = s
BY DEF FileOf

LEMMA FileFacts ==
  ASSUME NEW m \in Mutants
  PROVE  AnchorOf[m] \in Anchors /\ FileOf(m) \in Sources
BY DEF FileOf

LEMMA ShardFacts == TypeOK => Shards \subseteq Sources /\ \A s : ListedIn(s) \subseteq Mutants
BY FileFacts DEF Shards, ListedIn, TypeOK

(* One function extends another.                                            *)
Extends(f, g) == DOMAIN g \subseteq DOMAIN f /\ \A x \in DOMAIN g : f[x] = g[x]

LEMMA PutFacts ==
  ASSUME NEW f, NEW x, NEW v, x \in DOMAIN f => f[x] = v
  PROVE  /\ DOMAIN Put(f, x, v) = DOMAIN f \cup {x}
         /\ Put(f, x, v)[x] = v /\ Extends(Put(f, x, v), f)
BY DEF Put, Extends

(* The cache is only ever added to.                                         *)
Grows == Extends(results', results) /\ Extends(probes', probes)

LEMMA GrowthFacts ==
  ASSUME Grows, NEW s, NEW v, NEW u
  PROVE  /\ Reached(s, v, u) => Reached(s, v, u)'
         /\ Missed(s, v, u) => Missed(s, v, u)'
         /\ Probed(s, v, u) => Probed(s, v, u)'
         /\ Probed(s, v, u) /\ Missed(s, v, u)' => Missed(s, v, u)
         /\ \A m : Cached(m, v, u) => Cached(m, v, u)' /\ Outcome(m, v, u)' = Outcome(m, v, u)
         /\ \A m : Covered(m, v, u) => Covered(m, v, u)'
         /\ Settled(s, v, u) => Settled(s, v, u)'
<1>1. Probed(s, v, u) =>
        Probed(s, v, u)' /\ probes'[<<"sentinel", s, v, u>>] = probes[<<"sentinel", s, v, u>>]
  BY DEF Grows, Extends, Probed
<1>2. \A m : Cached(m, v, u) => Cached(m, v, u)' /\ Outcome(m, v, u)' = Outcome(m, v, u)
  BY DEF Grows, Extends, Cached, Outcome
<1>3. \A m : Covered(m, v, u) => Covered(m, v, u)'
  BY <1>2 DEF Covered
<1>4. /\ Reached(s, v, u) => Reached(s, v, u)'
      /\ Missed(s, v, u) => Missed(s, v, u)'
      /\ Probed(s, v, u) /\ Missed(s, v, u)' => Missed(s, v, u)
  BY <1>1 DEF Reached, Missed
<1>5. Settled(s, v, u) => Settled(s, v, u)'
  BY <1>1, <1>2, <1>3, <1>4 DEF Settled
<1> QED BY <1>1, <1>2, <1>3, <1>4, <1>5

(* A report stays faithful as long as nothing new is to be said of a symbol. *)
LEMMA FaithfulStays ==
  ASSUME Grows, NEW report, NEW s, NEW v, NEW u, Faithful(report, s, v, u),
         \A a \in Anchors : SourceOf[a] = s /\ OnSymbol(a, v, u)' => OnSymbol(a, v, u)
  PROVE  Faithful(report, s, v, u)'
<1>1. Settled(s, v, u)'
  BY GrowthFacts DEF Faithful
<1>2. s \in report <=> OnFile(s, v, u)'
  BY GrowthFacts DEF Faithful, OnFile, Settled
<1>3. ASSUME NEW a \in Anchors, SourceOf[a] = s PROVE a \in report <=> OnSymbol(a, v, u)'
  <2>1. OnSymbol(a, v, u) => OnSymbol(a, v, u)'
    <3>1. \A m : Cached(m, v, u) => Cached(m, v, u)' /\ Outcome(m, v, u)' = Outcome(m, v, u)
      BY GrowthFacts
    <3> QED BY <3>1 DEF OnSymbol
  <2> QED BY <1>3, <2>1 DEF Faithful
<1> QED BY <1>1, <1>2, <1>3 DEF Faithful

LEMMA ReportsFollow ==
  ASSUME ReportsAreCached, Grows, UNCHANGED reports,
         \A t \in DOMAIN reports : \A s \in Sources \ t.garbled : \A a \in Anchors :
           SourceOf[a] = s /\ OnSymbol(a, t.src[s], t.suite[s])' => OnSymbol(a, t.src[s], t.suite[s])
  PROVE  ReportsAreCached'
<1>1. ASSUME NEW t \in DOMAIN reports, NEW s \in Sources \ t.garbled
      PROVE  Faithful(reports[t], s, t.src[s], t.suite[s])'
  <2>1. PICK v : v = t.src[s]
    OBVIOUS
  <2>2. PICK u : u = t.suite[s]
    OBVIOUS
  <2>3. Faithful(reports[t], s, v, u)
    BY <2>1, <2>2 DEF ReportsAreCached
  <2>4. \A a \in Anchors : SourceOf[a] = s /\ OnSymbol(a, v, u)' => OnSymbol(a, v, u)
    BY <2>1, <2>2
  <2>5. PICK report : report = reports[t]
    OBVIOUS
  <2>6. Faithful(report, s, v, u)'
    BY <2>3, <2>4, <2>5, FaithfulStays
  <2> QED BY <2>1, <2>2, <2>5, <2>6
<1>2. \A t \in DOMAIN reports : Caught(t) => Caught(t)'
  BY DEF Caught, Found, KeyIn, FileOf, Grows, Extends
<1> QED BY <1>1, <1>2 DEF ReportsAreCached

(* What depends on nothing but the cache.                                   *)
LEMMA SameCache ==
  ASSUME TypeOK, ResultsAreEarned, UNCHANGED cache
  PROVE  /\ ResultsAreEarned' /\ Grows
         /\ ReportsAreCached /\ UNCHANGED reports => ReportsAreCached'
         /\ VerdictsAreKeyed /\ tainted \subseteq tainted' => VerdictsAreKeyed'
<1>1. results' = results /\ probes' = probes
  BY DEF cache
<1>2. Grows
  BY <1>1 DEF Grows, Extends
<1>3. ResultsAreEarned'
  BY <1>1 DEF ResultsAreEarned, Reached, Probed
<1>4. ReportsAreCached /\ UNCHANGED reports => ReportsAreCached'
  BY <1>1, <1>2, ReportsFollow DEF OnSymbol, Cached, Outcome
<1>5. VerdictsAreKeyed /\ tainted \subseteq tainted' => VerdictsAreKeyed'
  BY <1>1 DEF VerdictsAreKeyed, KeyedAsJudged
<1> QED BY <1>2, <1>3, <1>4, <1>5

-----------------------------------------------------------------------------
(* The steps, one lemma each.                                               *)
LEMMA InitIInv == Init => IInv
<1> SUFFICES ASSUME Init PROVE IInv
  OBVIOUS
<1>1. DOMAIN results = {} /\ DOMAIN probes = {} /\ DOMAIN reports = {} /\ DOMAIN seen = {}
  BY DEF Init, Empty
<1>2. TypeOK
  BY <1>1 DEF Init, TypeOK
<1>3. VerdictsAreKeyed /\ ResultsAreEarned /\ ReportsAreCached
  BY <1>1 DEF VerdictsAreKeyed, ResultsAreEarned, ReportsAreCached
<1>4. PassIsCached
  BY <1>1 DEF Init, PassIsCached, InShard
<1> QED BY <1>2, <1>3, <1>4 DEF IInv

(* An edit between passes: nothing in the cache is about the moment.        *)
LEMMA BetweenStep ==
  ASSUME IInv, \E s \in Sources : EditSource(s) \/ EditTests(s) \/ LeaveMutant(s)
  PROVE  IInv'
<1>1. /\ pc = "idle" /\ UNCHANGED <<tainted, cache, pc, pass, reports>>
      /\ edits < MaxEdits /\ edits' = edits + 1
  BY DEF EditSource, EditTests, LeaveMutant, Between
<1>2. /\ src' \in [Sources -> Versions] /\ suite' \in [Sources -> Suites \cup {NoTests}]
      /\ mutated' \subseteq Sources
  <2>1. PICK s \in Sources : EditSource(s) \/ EditTests(s) \/ LeaveMutant(s)
    OBVIOUS
  <2>2. TypeOK
    BY DEF IInv
  <2>3. CASE EditSource(s)
    BY <2>2, <2>3 DEF EditSource, TypeOK
  <2>4. CASE EditTests(s)
    BY <2>2, <2>4 DEF EditTests, TypeOK
  <2>5. CASE LeaveMutant(s)
    BY <2>2, <2>5 DEF LeaveMutant, TypeOK
  <2> QED BY <2>1, <2>3, <2>4, <2>5
<1>3. /\ garbled = {} /\ todo = {} /\ left = {} /\ unexercised = {}
      /\ seen = Empty /\ DOMAIN seen = {} /\ listed \subseteq Mutants
  BY <1>1 DEF IInv, PassIsCached, Empty, TypeOK
<1>4. /\ garbled' = {} /\ todo' = {} /\ left' = {} /\ unexercised' = {}
      /\ listed' \subseteq Mutants
      /\ seen' = Empty /\ DOMAIN seen' = {} /\ pc' = "idle" /\ tainted' = tainted
  BY <1>1, <1>3 DEF pass
<1>5. edits' \in 0 .. MaxEdits
  BY <1>1 DEF IInv, TypeOK
<1>6. TypeOK'
  BY <1>1, <1>2, <1>4, <1>5 DEF IInv, TypeOK, cache
<1>7. PassIsCached'
  BY <1>4 DEF PassIsCached, InShard
<1>8. VerdictsAreKeyed' /\ ResultsAreEarned' /\ ReportsAreCached'
  BY <1>1, SameCache DEF IInv
<1> QED BY <1>6, <1>7, <1>8 DEF IInv

(* A pass that ends, for whatever reason: only its report is left of it.     *)
LEMMA StopFacts ==
  ASSUME IInv, Stop, UNCHANGED tree, DOMAIN probes' \subseteq ProbeKeys,
         probes' \in [DOMAIN probes' -> BOOLEAN], UNCHANGED results,
         DOMAIN reports' \subseteq Trees,
         reports' \in [DOMAIN reports' -> SUBSET (Anchors \cup Sources)]
  PROVE  TypeOK' /\ PassIsCached'
<1>1. /\ garbled' = {} /\ listed' = {} /\ todo' = {} /\ left' = {} /\ unexercised' = {}
      /\ seen' = Empty /\ DOMAIN seen' = {} /\ pc' = "idle"
  BY DEF Stop, NoPass, Empty
<1>2. TypeOK'
  BY <1>1 DEF IInv, TypeOK, tree
<1>3. PassIsCached'
  BY <1>1 DEF PassIsCached, InShard
<1> QED BY <1>2, <1>3

LEMMA KillStep ==
  ASSUME IInv, Kill
  PROVE  IInv'
<1>1. Stop /\ UNCHANGED <<tree, cache, reports>>
  BY DEF Kill
<1>2. /\ probes' = probes /\ results' = results /\ reports' = reports
      /\ tainted' = tainted
  BY <1>1 DEF cache, tree
<1>3. TypeOK' /\ PassIsCached'
  BY <1>1, <1>2, StopFacts DEF IInv, TypeOK
<1>4. VerdictsAreKeyed' /\ ResultsAreEarned' /\ ReportsAreCached'
  BY <1>1, <1>2, SameCache DEF IInv
<1> QED BY <1>3, <1>4 DEF IInv

(* A pass begins: no shard is done.                                         *)
LEMMA StartPassStep ==
  ASSUME IInv, StartPass
  PROVE  IInv'
<1>1. /\ garbled' = mutated /\ mutated' = {} /\ tainted' = tainted \cup mutated
      /\ pc' = "next" /\ src' = src /\ suite' = suite /\ edits' = edits
      /\ UNCHANGED <<cache, reports>> /\ left' = left /\ seen' = seen
      /\ unexercised' = unexercised /\ pc = "idle"
  BY DEF StartPass
<1>2. left = {} /\ unexercised = {} /\ DOMAIN seen = {}
  BY <1>1 DEF IInv, PassIsCached, Empty
<1>3. PICK ofLeftovers \in SUBSET { m \in Mutants : FileOf(m) \in mutated } :
        listed' = ofLeftovers \cup UNION { MutantsIn(s) : s \in Sources \ mutated }
  BY DEF StartPass
<1>4. \A s \in Sources : MutantsIn(s) \subseteq Mutants /\ \A m \in MutantsIn(s) : FileOf(m) = s
  BY MutantFacts DEF MutantsIn, IInv, TypeOK
<1>5. listed' \subseteq Mutants /\ todo' = Shards'
  <2>1. todo' = { FileOf(m) : m \in listed' }
    BY DEF StartPass
  <2> QED BY <1>3, <1>4, <2>1 DEF Shards, FileOf
<1>6. \A s \in Sources \ garbled' : ListedIn(s)' = MutantsIn(s)'
  <2>1. ASSUME NEW s \in Sources \ mutated
        PROVE  { m \in listed' : FileOf(m) = s } = MutantsIn(s)
    BY <1>3, <1>4
  <2>2. \A s : MutantsIn(s)' = MutantsIn(s)
    BY <1>1 DEF MutantsIn
  <2> QED BY <1>1, <2>1, <2>2 DEF ListedIn, FileOf
<1>7. TypeOK'
  BY <1>1, <1>2, <1>5 DEF IInv, TypeOK, cache
<1>8. Done' = {}
  BY <1>1, <1>5 DEF Done, InShard
<1>9. PassIsCached'
  BY <1>1, <1>2, <1>6, <1>8 DEF PassIsCached, InShard
<1>10. VerdictsAreKeyed' /\ ResultsAreEarned' /\ ReportsAreCached'
  BY <1>1, SameCache DEF IInv
<1> QED BY <1>7, <1>9, <1>10 DEF IInv

(* A shard begins: it is neither to do nor done.                            *)
LEMMA StartShardStep ==
  ASSUME IInv, NEW s \in Sources, StartShard(s)
  PROVE  IInv'
<1>1. /\ pc = "next" /\ s \in todo /\ cur' = s /\ todo' = todo \ {s} /\ left' = ListedIn(s)
      /\ pc' = (IF suite[s] = NoTests THEN "mutants" ELSE "baseline")
      /\ UNCHANGED <<tree, cache, garbled, listed, seen, unexercised, reports>>
  BY DEF StartShard
<1>2. /\ src' = src /\ suite' = suite /\ tainted' = tainted /\ results' = results
      /\ probes' = probes /\ mutated' = mutated /\ edits' = edits
  BY <1>1 DEF tree, cache
<1>3. Shards' = Shards /\ WithTests' = WithTests /\ ListedIn(s) \subseteq Mutants
      /\ \A x : ListedIn(x)' = ListedIn(x) /\ MutantsIn(x)' = MutantsIn(x)
  BY <1>1, <1>2, ShardFacts DEF WithTests, Shards, ListedIn, MutantsIn, FileOf, IInv
<1>4. TypeOK'
  BY <1>1, <1>2, <1>3 DEF IInv, TypeOK
<1>5. Done' = Done
  BY <1>1, <1>3 DEF Done, InShard, IInv, TypeOK
<1>6. /\ \A x, v, u : Reached(x, v, u)' = Reached(x, v, u) /\ Missed(x, v, u)' = Missed(x, v, u)
      /\ \A m : TakenCareOf(m)' = TakenCareOf(m) /\ Key(m)' = Key(m)
  BY <1>1, <1>2 DEF Reached, Missed, Probed, TakenCareOf, Key
<1>7. PassIsCached'
  <2>1. pc' = "mutants" => suite[s] = NoTests
    BY <1>1
  <2>2. pc' = "baseline" => suite[s] # NoTests
    BY <1>1
  <2>3. pc' \in {"mutants", "baseline"}
    BY <1>1
  <2>4. \A x \in Done' : \/ x \in unexercised'
                         \/ /\ suite'[x] # NoTests => Reached(x, src[x], suite[x])
                            /\ \A m \in ListedIn(x) : TakenCareOf(m)
    BY <1>1, <1>2, <1>5 DEF IInv, PassIsCached
  <2> QED
    BY <1>1, <1>2, <1>3, <1>6, <2>1, <2>2, <2>3, <2>4 DEF IInv, PassIsCached, InShard
<1>8. VerdictsAreKeyed' /\ ResultsAreEarned' /\ ReportsAreCached'
  BY <1>1, <1>2, SameCache DEF IInv
<1> QED BY <1>4, <1>7, <1>8 DEF IInv

(* A probe: what the cache knew it still knows, and the asked key is known.  *)
LEMMA ProbeFacts ==
  ASSUME IInv, cur \in Shards, suite[cur] # NoTests, NEW kind \in {"baseline", "sentinel"},
         NEW ok \in BOOLEAN, Probe(kind, ok), UNCHANGED reports
  PROVE  /\ Grows /\ UNCHANGED results
         /\ DOMAIN probes' \subseteq ProbeKeys /\ probes' \in [DOMAIN probes' -> BOOLEAN]
         /\ ProbeKey(kind, cur) \in DOMAIN probes' /\ probes'[ProbeKey(kind, cur)] = ok
         /\ ResultsAreEarned' /\ ReportsAreCached'
<1> DEFINE key == ProbeKey(kind, cur)
<1>1. /\ key \in DOMAIN probes => probes[key] = ok
      /\ probes' = Put(probes, key, ok) /\ results' = results
  BY DEF Probe
<1>2. key \in ProbeKeys
  BY ShardFacts DEF ProbeKey, ProbeKeys, IInv, TypeOK
<1> HIDE DEF key
<1>3. /\ DOMAIN probes' = DOMAIN probes \cup {key} /\ probes'[key] = ok
      /\ Extends(probes', probes)
  BY <1>1 DEF Put, Extends
<1>4. Grows
  BY <1>1, <1>3 DEF Grows, Extends
<1>5. DOMAIN probes' \subseteq ProbeKeys /\ probes' \in [DOMAIN probes' -> BOOLEAN]
  <2>1. DOMAIN probes \subseteq ProbeKeys /\ probes \in [DOMAIN probes -> BOOLEAN]
    BY DEF IInv, TypeOK
  <2>2. \A x \in DOMAIN probes' : probes'[x] \in BOOLEAN
    BY <1>3, <2>1 DEF Extends
  <2>3. probes' = [x \in DOMAIN probes' |-> probes'[x]]
    BY <1>1 DEF Put
  <2> QED BY <1>2, <1>3, <2>1, <2>2, <2>3
<1>6. ResultsAreEarned'
  <2>1. \A k \in DOMAIN results :
          Reached(FileOf(k[1]), k[2], k[3]) => Reached(FileOf(k[1]), k[2], k[3])'
    BY <1>4 DEF Grows, Extends, Reached, Probed, FileOf
  <2> QED BY <1>1, <2>1 DEF IInv, ResultsAreEarned
<1>7. ReportsAreCached'
  BY <1>1, <1>4, ReportsFollow DEF IInv, OnSymbol, Cached, Outcome
<1> QED BY <1>1, <1>3, <1>4, <1>5, <1>6, <1>7 DEF key

(* While the tree and the outcomes so far stay, what was taken care of stays *)
(* so in a cache that grows.                                                *)
LEMMA PassFollows ==
  ASSUME Grows, UNCHANGED <<src, suite, listed, seen>>
  PROVE  /\ \A s : ListedIn(s)' = ListedIn(s) /\ MutantsIn(s)' = MutantsIn(s)
         /\ \A m : TakenCareOf(m)' = TakenCareOf(m)
         /\ Shards' = Shards /\ WithTests' = WithTests
         /\ \A s : Reached(s, src[s], suite[s]) => Reached(s, src[s], suite[s])'
         /\ \A s : Missed(s, src[s], suite[s]) => Missed(s, src[s], suite[s])'
         /\ (\A m \in DOMAIN seen : Key(m) \in DOMAIN results /\ seen[m] = results[Key(m)].outcome)
              => (\A m \in DOMAIN seen :
                    Key(m) \in DOMAIN results /\ seen[m] = results[Key(m)].outcome)'
<1>1. /\ Shards' = Shards /\ WithTests' = WithTests
      /\ \A s : ListedIn(s)' = ListedIn(s) /\ MutantsIn(s)' = MutantsIn(s)
  BY DEF ListedIn, MutantsIn, Shards, WithTests, FileOf
<1>2. \A m : TakenCareOf(m)' = TakenCareOf(m)
  BY DEF TakenCareOf
<1>3. /\ \A s : Reached(s, src[s], suite[s]) => Reached(s, src[s], suite[s])'
      /\ \A s : Missed(s, src[s], suite[s]) => Missed(s, src[s], suite[s])'
  BY DEF Reached, Missed, Probed, Grows, Extends
<1>4. \A m : Key(m)' = Key(m)
  BY DEF Key, FileOf
<1> QED BY <1>1, <1>2, <1>3, <1>4 DEF Grows, Extends

LEMMA BaselineStep ==
  ASSUME IInv, NEW green \in BOOLEAN, Baseline(green)
  PROVE  IInv'
<1>1. /\ pc = "baseline" /\ Probe("baseline", green) /\ UNCHANGED <<tree, reports>>
      /\ \/ pc' = "sentinel" /\ UNCHANGED pass
         \/ Stop
  BY DEF Baseline
<1>2. cur \in Shards /\ suite[cur] # NoTests
  BY <1>1 DEF IInv, TypeOK, PassIsCached
<1>3. /\ Grows /\ UNCHANGED results
      /\ DOMAIN probes' \subseteq ProbeKeys /\ probes' \in [DOMAIN probes' -> BOOLEAN]
      /\ ResultsAreEarned' /\ ReportsAreCached'
  BY <1>1, <1>2, ProbeFacts
<1>4. VerdictsAreKeyed'
  BY <1>1, <1>3 DEF IInv, VerdictsAreKeyed, KeyedAsJudged, tree
<1>5. TypeOK' /\ PassIsCached'
  <2>1. CASE Stop
    BY <1>1, <1>3, <2>1, StopFacts DEF IInv, TypeOK
  <2>2. CASE pc' = "sentinel" /\ UNCHANGED pass
    <3>1. /\ UNCHANGED <<src, suite, tainted, mutated, edits, garbled, listed, todo, cur, left, seen,
                         unexercised, reports>>
      BY <1>1, <2>2 DEF tree, pass
    <3>2. Shards' = Shards /\ WithTests' = WithTests
      BY <1>3, <3>1, PassFollows
    <3>3. TypeOK'
      BY <1>2, <1>3, <2>2, <3>1, <3>2 DEF IInv, TypeOK
    <3>4. Done' = Done
      BY <1>1, <2>2, <3>1, <3>2 DEF Done, InShard
    <3>5. PassIsCached'
      BY <1>1, <1>2, <1>3, <2>2, <3>1, <3>4, PassFollows DEF IInv, PassIsCached, InShard
    <3> QED BY <3>3, <3>5
  <2> QED BY <1>1, <2>1, <2>2
<1> QED BY <1>3, <1>4, <1>5 DEF IInv

LEMMA SentinelStep ==
  ASSUME IInv, NEW reached \in BOOLEAN, Sentinel(reached)
  PROVE  IInv'
<1>1. /\ pc = "sentinel" /\ Probe("sentinel", reached)
      /\ UNCHANGED <<src, suite, tainted, mutated, edits, garbled, listed, todo, cur, left, seen, reports>>
      /\ \/ reached /\ pc' = "mutants" /\ UNCHANGED unexercised
         \/ ~reached /\ pc' = "next" /\ unexercised' = unexercised \cup {cur}
  BY DEF Sentinel, tree
<1>2. cur \in Shards /\ suite[cur] # NoTests /\ left = ListedIn(cur) /\ cur \notin todo
  BY <1>1 DEF IInv, TypeOK, PassIsCached, InShard
<1>3. /\ Grows /\ UNCHANGED results
      /\ DOMAIN probes' \subseteq ProbeKeys /\ probes' \in [DOMAIN probes' -> BOOLEAN]
      /\ ProbeKey("sentinel", cur) \in DOMAIN probes'
      /\ probes'[ProbeKey("sentinel", cur)] = reached
      /\ ResultsAreEarned' /\ ReportsAreCached'
  BY <1>1, <1>2, ProbeFacts
<1>4. VerdictsAreKeyed'
  BY <1>1, <1>3 DEF IInv, VerdictsAreKeyed, KeyedAsJudged
<1>5. Shards' = Shards /\ WithTests' = WithTests /\ \A s : ListedIn(s)' = ListedIn(s)
  BY <1>1, <1>3, PassFollows
<1>6. cur \in WithTests
  BY <1>2 DEF WithTests
<1>7. TypeOK'
  BY <1>1, <1>2, <1>3, <1>5, <1>6 DEF IInv, TypeOK
<1>8. (reached => Reached(cur, src[cur], suite[cur])')
      /\ (~reached => Missed(cur, src[cur], suite[cur])')
  BY <1>1, <1>3 DEF ProbeKey, Reached, Missed, Probed
<1>9. PassIsCached'
  <2>1. CASE reached /\ pc' = "mutants" /\ UNCHANGED unexercised
    <3>1. Done' = Done
      BY <1>1, <1>5, <2>1 DEF Done, InShard
    <3> QED
      BY <1>1, <1>2, <1>3, <1>5, <1>8, <2>1, <3>1, PassFollows DEF IInv, PassIsCached, InShard
  <2>2. CASE ~reached /\ pc' = "next" /\ unexercised' = unexercised \cup {cur}
    <3>1. Done' \subseteq Done \cup {cur}
      BY <1>1, <1>5, <2>2 DEF Done, InShard
    <3> QED
      BY <1>1, <1>2, <1>3, <1>5, <1>8, <2>2, <3>1, PassFollows DEF IInv, PassIsCached, InShard
  <2> QED BY <1>1, <2>1, <2>2
<1> QED BY <1>3, <1>4, <1>7, <1>9 DEF IInv

(* A mutant of a symbol that another mutant has shown to be unpinned.       *)
LEMMA SkipStep ==
  ASSUME IInv, NEW m \in left, Skip(m)
  PROVE  IInv'
<1>1. /\ pc = "mutants" /\ Redundant(m) /\ left' = left \ {m}
      /\ UNCHANGED <<src, suite, tainted, mutated, edits, results, probes, pc, garbled, listed, todo, cur,
                     seen, unexercised, reports>>
  BY DEF Skip, tree, cache
<1>2. UNCHANGED cache
  BY <1>1 DEF cache
<1>3. Grows /\ ResultsAreEarned' /\ ReportsAreCached' /\ VerdictsAreKeyed'
  BY <1>1, <1>2, SameCache DEF IInv
<1>4. Shards' = Shards /\ WithTests' = WithTests
  BY <1>1, <1>3, PassFollows
<1>5. TypeOK'
  BY <1>1, <1>4 DEF IInv, TypeOK
<1>6. TakenCareOf(m) /\ Done' = Done
  BY <1>1, <1>4 DEF Redundant, TakenCareOf, Done, InShard
<1>7. PassIsCached'
  BY <1>1, <1>3, <1>6, PassFollows DEF IInv, PassIsCached, InShard
<1> QED BY <1>3, <1>5, <1>7 DEF IInv

(* The last mutant of a shard is dealt with: the shard is done.             *)
LEMMA EndShardStep ==
  ASSUME IInv, EndShard
  PROVE  IInv'
<1>1. /\ pc = "mutants" /\ left = {} /\ pc' = "next"
      /\ UNCHANGED <<src, suite, tainted, mutated, edits, results, probes, garbled, listed, todo, cur, left,
                     seen, unexercised, reports>>
  BY DEF EndShard, tree, cache, pass
<1>2. UNCHANGED cache
  BY <1>1 DEF cache
<1>3. Grows /\ ResultsAreEarned' /\ ReportsAreCached' /\ VerdictsAreKeyed'
  BY <1>1, <1>2, SameCache DEF IInv
<1>4. Shards' = Shards /\ WithTests' = WithTests
  BY <1>1, <1>3, PassFollows
<1>5. TypeOK'
  BY <1>1, <1>4 DEF IInv, TypeOK
<1>6. Done' \subseteq Done \cup {cur}
  BY <1>1, <1>4 DEF Done, InShard
<1>7. PassIsCached'
  BY <1>1, <1>3, <1>6, PassFollows DEF IInv, PassIsCached, InShard
<1> QED BY <1>3, <1>5, <1>7 DEF IInv

(* What a verdict, cached or fresh, adds to the cache.                      *)
LEMMA JudgeFacts ==
  ASSUME IInv, NEW m \in left, NEW outcome \in Outcomes, Judge(m, outcome)
  PROVE  /\ m \in Mutants /\ m \in listed /\ FileOf(m) = cur
         /\ Key(m) = <<m, src[cur], suite[cur]>> /\ Key(m) \in Keys
         /\ outcome = "no_tests" <=> suite[cur] = NoTests
         /\ suite[cur] # NoTests => Reached(cur, src[cur], suite[cur])
         /\ DOMAIN results' = DOMAIN results \cup {Key(m)} /\ results'[Key(m)].outcome = outcome
         /\ Grows
         /\ \/ results' = results
            \/ results' = Put(results, Key(m), [outcome |-> outcome, on |-> World(cur)])
<1>1. pc = "mutants" /\ cur \in Shards /\ cur \in Sources /\ m \in ListedIn(cur)
  BY ShardFacts DEF Judge, IInv, PassIsCached, InShard, TypeOK
<1>2. src[cur] \in Versions /\ suite[cur] \in Suites \cup {NoTests}
  BY <1>1 DEF IInv, TypeOK
<1>3. m \in Mutants /\ m \in listed /\ FileOf(m) = cur
  BY <1>1, ShardFacts DEF ListedIn, IInv
<1>4. Key(m) = <<m, src[cur], suite[cur]>> /\ Key(m) \in Keys
  BY <1>2, <1>3 DEF Key, Keys
<1>5. suite[cur] # NoTests => Reached(cur, src[cur], suite[cur])
  BY <1>1 DEF IInv, PassIsCached
<1>6. probes' = probes
  BY DEF Judge
<1>7. CASE Key(m) \in DOMAIN results
  <2>1. outcome = results[Key(m)].outcome /\ results' = results
    BY <1>7 DEF Judge
  <2>2. results[Key(m)].outcome = "no_tests" <=> suite[cur] = NoTests
    BY <1>4, <1>7 DEF IInv, ResultsAreEarned
  <2> QED BY <1>3, <1>4, <1>5, <1>6, <1>7, <2>1, <2>2 DEF Grows, Extends
<1>8. CASE Key(m) \notin DOMAIN results
  <2> DEFINE new == [outcome |-> outcome, on |-> World(cur)]
  <2>1. outcome \in Verdicts(cur) /\ results' = Put(results, Key(m), new)
    BY <1>8 DEF Judge
  <2>2. outcome = "no_tests" <=> suite[cur] = NoTests
    BY <2>1 DEF Verdicts, Judged
  <2>3. new.outcome = outcome
    OBVIOUS
  <2> HIDE DEF new
  <2>4. /\ DOMAIN results' = DOMAIN results \cup {Key(m)} /\ results'[Key(m)] = new
        /\ Extends(results', results)
    BY <1>8, <2>1 DEF Put, Extends
  <2>5. Grows
    BY <1>6, <2>4 DEF Grows, Extends
  <2> QED BY <1>3, <1>4, <1>5, <2>1, <2>2, <2>3, <2>4, <2>5 DEF new
<1> QED BY <1>7, <1>8

LEMMA JudgeStep ==
  ASSUME IInv, NEW m \in left, NEW outcome \in Outcomes, Judge(m, outcome)
  PROVE  IInv'
<1>0. PICK k : k = Key(m)
  OBVIOUS
<1>1. /\ pc = "mutants" /\ seen' = Put(seen, m, outcome) /\ left' = left \ {m}
      /\ UNCHANGED <<src, suite, tainted, mutated, edits, probes, pc, garbled, listed, todo, cur,
                     unexercised, reports>>
  BY DEF Judge, tree
<1>2. /\ m \in Mutants /\ m \in listed /\ FileOf(m) = cur
      /\ k = <<m, src[cur], suite[cur]>> /\ k \in Keys
      /\ outcome = "no_tests" <=> suite[cur] = NoTests
      /\ suite[cur] # NoTests => Reached(cur, src[cur], suite[cur])
      /\ DOMAIN results' = DOMAIN results \cup {k} /\ results'[k].outcome = outcome
      /\ Grows
      /\ \/ results' = results
         \/ results' = Put(results, k, [outcome |-> outcome, on |-> World(cur)])
  BY <1>0, JudgeFacts
<1>3. cur \in Shards /\ cur \in Sources
  BY <1>1, ShardFacts DEF IInv, TypeOK
<1>4. \A x \in DOMAIN results : results'[x] = results[x]
  BY <1>2 DEF Grows, Extends
<1>5. k \notin DOMAIN results => results'[k] = [outcome |-> outcome, on |-> World(cur)]
  BY <1>2 DEF Put
<1>6. results' \in [DOMAIN results' -> Verdict]
  <2>1. World(cur) \in [src : Versions, suite : Suites \cup {NoTests}, own : BOOLEAN]
    BY <1>3 DEF World, IInv, TypeOK
  <2>2. [outcome |-> outcome, on |-> World(cur)] \in Verdict
    BY <2>1 DEF Verdict
  <2>3. results \in [DOMAIN results -> Verdict]
    BY DEF IInv, TypeOK
  <2>4. CASE results' = results
    BY <2>3, <2>4
  <2>5. CASE results' = Put(results, k, [outcome |-> outcome, on |-> World(cur)])
    BY <2>2, <2>3, <2>5 DEF Put
  <2> QED BY <1>2, <2>4, <2>5
<1>7. DOMAIN seen' = DOMAIN seen \cup {m} /\ seen'[m] = outcome
      /\ \A x \in DOMAIN seen \ {m} : seen'[x] = seen[x]
  BY <1>1 DEF Put
<1>8. m \in DOMAIN seen => seen[m] = outcome
  <2>1. m \in DOMAIN seen => k \in DOMAIN results /\ seen[m] = results[k].outcome
    BY <1>0 DEF IInv, PassIsCached
  <2> QED BY <1>2, <1>4, <2>1
<1>9. seen' \in [DOMAIN seen' -> Outcomes]
  <2>1. seen \in [DOMAIN seen -> Outcomes]
    BY DEF IInv, TypeOK
  <2> QED BY <1>1, <2>1 DEF Put
<1>10. /\ Shards' = Shards /\ WithTests' = WithTests
       /\ \A s : ListedIn(s)' = ListedIn(s) /\ MutantsIn(s)' = MutantsIn(s)
  BY <1>1 DEF WithTests, Shards, ListedIn, MutantsIn, FileOf
<1>11. TypeOK'
  BY <1>1, <1>2, <1>6, <1>7, <1>9, <1>10 DEF IInv, TypeOK
<1>12. VerdictsAreKeyed'
  <2>1. \A x \in DOMAIN results : KeyedAsJudged(x)' = KeyedAsJudged(x)
    BY <1>4 DEF KeyedAsJudged
  <2>2. k \notin DOMAIN results => KeyedAsJudged(k)' \/ FileOf(k[1]) \in tainted
    <3>1. k[1] = m /\ k[2] = src[cur] /\ k[3] = suite[cur]
      BY <1>2
    <3>2. cur \in garbled => cur \in tainted
      BY DEF IInv, PassIsCached
    <3>3. FileOf(k[1]) = cur
      BY <1>2, <3>1
    <3>4. CASE cur \notin garbled /\ k \notin DOMAIN results
      <4>1. World(cur) = [src |-> src[cur], suite |-> suite[cur], own |-> TRUE]
        BY <3>4 DEF World
      <4>2. results'[k].on = [src |-> k[2], suite |-> k[3], own |-> TRUE]
        <5>1. results'[k].on = World(cur)
          BY <1>5, <3>4
        <5> QED BY <3>1, <4>1, <5>1, Zenon
      <4> QED BY <4>2 DEF KeyedAsJudged
    <3> QED BY <3>2, <3>3, <3>4
  <2>3. \A x \in DOMAIN results : KeyedAsJudged(x) \/ FileOf(x[1]) \in tainted
    BY DEF IInv, VerdictsAreKeyed
  <2>4. \A x \in DOMAIN results' : KeyedAsJudged(x)' \/ FileOf(x[1]) \in tainted
    BY <1>2, <2>1, <2>2, <2>3
  <2> QED BY <1>1, <2>4 DEF VerdictsAreKeyed, FileOf
<1>13. ResultsAreEarned'
  <2>1. ASSUME NEW x \in DOMAIN results'
        PROVE  /\ results'[x].outcome = "no_tests" <=> x[3] = NoTests
               /\ x[3] # NoTests => Reached(FileOf(x[1]), x[2], x[3])
    <3>1. CASE x \in DOMAIN results
      BY <1>4, <3>1 DEF IInv, ResultsAreEarned
    <3>2. CASE x = k
      BY <1>2, <3>2
    <3> QED BY <1>2, <3>1, <3>2
  <2>2. \A x : Reached(FileOf(x[1]), x[2], x[3])' = Reached(FileOf(x[1]), x[2], x[3])
    BY <1>1 DEF Reached, Probed, FileOf
  <2> QED BY <2>1, <2>2 DEF ResultsAreEarned, FileOf
<1>14. ReportsAreCached'
  <2>1. ASSUME NEW v, NEW u, NEW a \in Anchors, Settled(SourceOf[a], v, u), OnSymbol(a, v, u)'
        PROVE  OnSymbol(a, v, u)
    <3>1. PICK n \in MutantsOf[SourceOf[a]][v] :
            /\ AnchorOf[n] = a /\ <<n, v, u>> \in DOMAIN results'
            /\ results'[<<n, v, u>>].outcome = "survived"
      BY <2>1 DEF OnSymbol, Cached, Outcome
    <3>2. CASE <<n, v, u>> \in DOMAIN results
      BY <1>4, <3>1, <3>2 DEF OnSymbol, Cached, Outcome
    <3>3. CASE <<n, v, u>> \notin DOMAIN results
      <4>1. <<n, v, u>> = k
        BY <1>2, <3>1, <3>3
      <4>2. n = m /\ v = src[cur] /\ u = suite[cur] /\ outcome = "survived"
        <5>1. <<n, v, u>> = <<m, src[cur], suite[cur]>>
          BY <1>2, <4>1
        <5>2. n = m /\ v = src[cur] /\ u = suite[cur]
          BY <5>1
        <5>3. outcome = "survived"
          BY <1>2, <3>1, <4>1
        <5> QED BY <5>2, <5>3
      <4>3. u # NoTests /\ ~Missed(cur, v, u) /\ ~Cached(m, v, u) /\ SourceOf[a] = cur
        BY <1>2, <3>1, <3>3, <4>2 DEF Reached, Missed, Cached, FileOf
      <4>4. PICK other \in MutantsOf[cur][v] :
              AnchorOf[other] = a /\ Cached(other, v, u) /\ Survived(Outcome(other, v, u))
        BY <1>2, <2>1, <3>1, <4>2, <4>3 DEF Settled, Covered
      <4>5. Outcome(other, v, u) # "no_tests"
        BY <4>3, <4>4 DEF IInv, ResultsAreEarned, Cached, Outcome
      <4> QED BY <4>3, <4>4, <4>5 DEF OnSymbol, Survived
    <3> QED BY <3>2, <3>3
  <2>2. \A t \in DOMAIN reports : \A s \in Sources \ t.garbled : \A a \in Anchors :
          SourceOf[a] = s /\ OnSymbol(a, t.src[s], t.suite[s])' => OnSymbol(a, t.src[s], t.suite[s])
    <3> SUFFICES ASSUME NEW t \in DOMAIN reports, NEW s \in Sources \ t.garbled, NEW a \in Anchors,
                        SourceOf[a] = s, OnSymbol(a, t.src[s], t.suite[s])'
                 PROVE  OnSymbol(a, t.src[s], t.suite[s])
      OBVIOUS
    <3>1. PICK v : v = t.src[s]
      OBVIOUS
    <3>2. PICK u : u = t.suite[s]
      OBVIOUS
    <3>3. Settled(SourceOf[a], v, u)
      BY <3>1, <3>2 DEF IInv, ReportsAreCached, Faithful
    <3>4. OnSymbol(a, v, u)'
      BY <3>1, <3>2
    <3> QED BY <2>1, <3>1, <3>2, <3>3, <3>4
  <2> QED BY <1>1, <1>2, <2>2, ReportsFollow DEF IInv
<1>15. PassIsCached'
  <2>1. TakenCareOf(m)' /\ \A x : TakenCareOf(x) => TakenCareOf(x)'
    BY <1>7, <1>8 DEF TakenCareOf
  <2>2. Done' = Done
    BY <1>1, <1>10 DEF Done, InShard
  <2>3. \A s, v, u : /\ Reached(s, v, u)' = Reached(s, v, u)
                     /\ Missed(s, v, u)' = Missed(s, v, u)
    BY <1>1 DEF Reached, Missed, Probed
  <2>4. ASSUME NEW x \in DOMAIN seen'
        PROVE  x \in listed' /\ Key(x)' \in DOMAIN results' /\ seen'[x] = results'[Key(x)'].outcome
    <3>1. Key(x)' = Key(x)
      BY <1>1 DEF Key, FileOf
    <3>2. CASE x = m
      BY <1>0, <1>1, <1>2, <1>7, <3>1, <3>2
    <3>3. CASE x # m
      <4>1. x \in DOMAIN seen /\ seen'[x] = seen[x]
        BY <1>7, <3>3
      <4>2. x \in listed /\ Key(x) \in DOMAIN results /\ seen[x] = results[Key(x)].outcome
        BY <4>1 DEF IInv, PassIsCached
      <4> QED BY <1>1, <1>2, <1>4, <3>1, <4>1, <4>2
    <3> QED BY <3>2, <3>3
  <2>5. \A s \in Done' :
          \/ s \in unexercised'
          \/ /\ suite'[s] # NoTests => Reached(s, src[s], suite[s])'
             /\ \A x \in ListedIn(s)' : TakenCareOf(x)'
    BY <1>1, <1>10, <2>1, <2>2, <2>3 DEF IInv, PassIsCached
  <2>6. \A x \in ListedIn(cur)' \ left' : TakenCareOf(x)'
    BY <1>1, <1>10, <2>1 DEF IInv, PassIsCached
  <2>7. \A s \in unexercised' : Missed(s, src[s], suite[s])'
    BY <1>1, <2>3 DEF IInv, PassIsCached
  <2>8. garbled' \subseteq tainted' /\ cur' \notin todo' /\ left' \subseteq ListedIn(cur)'
        /\ \A s \in Sources \ garbled' : ListedIn(s)' = MutantsIn(s)'
    BY <1>1, <1>10 DEF IInv, PassIsCached, InShard
  <2>9. suite'[cur] # NoTests => Reached(cur, src[cur], suite[cur])'
    BY <1>1, <1>2, <2>3
  <2> QED BY <1>1, <2>4, <2>5, <2>6, <2>7, <2>8, <2>9 DEF PassIsCached, InShard
<1> QED BY <1>11, <1>12, <1>13, <1>14, <1>15 DEF IInv

-----------------------------------------------------------------------------
(* A pass that has taken every shard has settled its tree, and reports what  *)
(* the cache says of it.                                                    *)
LEMMA SeenFacts ==
  ASSUME IInv, pc # "idle", NEW m \in DOMAIN seen
  PROVE  /\ m \in Mutants /\ FileOf(m) \in Sources /\ AnchorOf[m] \in Anchors
         /\ FileOf(m) \notin garbled => m \in MutantsOf[FileOf(m)][src[FileOf(m)]]
         /\ Cached(m, src[FileOf(m)], suite[FileOf(m)])
         /\ Outcome(m, src[FileOf(m)], suite[FileOf(m)]) = seen[m]
         /\ seen[m] \in Outcomes /\ (seen[m] = "no_tests" <=> suite[FileOf(m)] = NoTests)
<1>1. m \in Mutants /\ seen[m] \in Outcomes /\ FileOf(m) \in Sources
  BY FileFacts DEF IInv, TypeOK
<1>2. m \in listed /\ Key(m) \in DOMAIN results /\ seen[m] = results[Key(m)].outcome
  BY DEF IInv, PassIsCached
<1>3. FileOf(m) \notin garbled => m \in MutantsOf[FileOf(m)][src[FileOf(m)]]
  <2>1. m \in ListedIn(FileOf(m))
    BY <1>2 DEF ListedIn
  <2> QED BY <1>1, <2>1 DEF IInv, PassIsCached, MutantsIn
<1>4. PICK k \in DOMAIN results : k = Key(m)
  BY <1>2
<1>5. k[1] = m /\ k[2] = src[FileOf(m)] /\ k[3] = suite[FileOf(m)]
  BY <1>4 DEF Key
<1>6. results[k].outcome = "no_tests" <=> k[3] = NoTests
  BY DEF IInv, ResultsAreEarned
<1> QED BY <1>1, <1>2, <1>3, <1>4, <1>5, <1>6, FileFacts DEF Cached, Outcome, Key

LEMMA FinishedTree ==
  ASSUME IInv, pc = "next", todo = {}, NEW t, t = Here
  PROVE  /\ \A s \in Sources \ t.garbled : Faithful(Reported, s, t.src[s], t.suite[s])
         /\ /\ t.garbled = {} /\ Reported = {} /\ ~NothingBuilt
            /\ \E s \in Sources : MutantsOf[s][t.src[s]] # {}
            => Caught(t)
<1>1. /\ t.src = src /\ t.suite = suite /\ t.garbled = garbled
      /\ ~InShard /\ Done = Shards
  BY DEF Done, InShard, Here
<1>2. ASSUME NEW s \in Sources \ garbled, MutantsIn(s) # {}
      PROVE  /\ ListedIn(s) = MutantsIn(s)
             /\ \/ s \in unexercised
                \/ /\ suite[s] # NoTests => Reached(s, src[s], suite[s])
                   /\ \A m \in MutantsIn(s) : TakenCareOf(m)
  <2>1. ListedIn(s) = MutantsIn(s)
    BY DEF IInv, PassIsCached
  <2>2. s \in Shards
    BY <1>2, <2>1 DEF Shards, ListedIn
  <2> QED BY <1>1, <2>1, <2>2 DEF IInv, PassIsCached
<1>3. \A s \in unexercised : /\ s \in Sources /\ suite[s] # NoTests
                             /\ Missed(s, src[s], suite[s]) /\ ListedIn(s) # {}
  BY ShardFacts DEF IInv, PassIsCached, TypeOK, WithTests, Shards, ListedIn
<1>4. ASSUME NEW s \in Sources \ garbled, NEW m \in MutantsIn(s), s \notin unexercised
      PROVE  \E n \in DOMAIN seen : /\ AnchorOf[n] = AnchorOf[m] /\ FileOf(n) = s
                                    /\ n = m \/ Survived(seen[n])
  <2>1. TakenCareOf(m)
    BY <1>2, <1>4
  <2>2. FileOf(m) = s
    BY MutantFacts DEF MutantsIn, IInv, TypeOK
  <2> QED BY <2>1, <2>2 DEF TakenCareOf, FileOf
<1>5. ASSUME NEW s \in Sources \ garbled PROVE Settled(s, src[s], suite[s])
  <2>1. MutantsOf[s][src[s]] # {} /\ suite[s] # NoTests => Probed(s, src[s], suite[s])
    BY <1>2, <1>3 DEF MutantsIn, Reached, Missed
  <2>2. ASSUME NEW m \in MutantsOf[s][src[s]], s \notin unexercised
        PROVE  Cached(m, src[s], suite[s]) \/ Covered(m, src[s], suite[s])
    <3>1. PICK n \in DOMAIN seen : /\ AnchorOf[n] = AnchorOf[m] /\ FileOf(n) = s
                                   /\ n = m \/ Survived(seen[n])
      BY <1>4, <2>2 DEF MutantsIn
    <3>2. FileOf(m) = s
      BY MutantFacts DEF IInv, TypeOK
    <3> QED BY <3>1, <3>2, SeenFacts DEF Covered
  <2> QED BY <1>3, <2>1, <2>2 DEF Settled
<1>6. ASSUME NEW s \in Sources \ garbled, NEW a \in Anchors, SourceOf[a] = s
      PROVE  a \in Reported <=> OnSymbol(a, src[s], suite[s])
  <2>1. a \in Reported <=> \E n \in DOMAIN seen : AnchorOf[n] = a /\ seen[n] = "survived"
    BY <1>3, SeenFacts DEF Reported, Unpinned, Untested
  <2>2. ASSUME NEW n \in DOMAIN seen, AnchorOf[n] = a, seen[n] = "survived"
        PROVE  OnSymbol(a, src[s], suite[s])
    <3>1. FileOf(n) = s
      BY <1>6, <2>2 DEF FileOf
    <3> QED BY <1>6, <2>2, <3>1, SeenFacts DEF OnSymbol
  <2>3. ASSUME OnSymbol(a, src[s], suite[s])
        PROVE  \E n \in DOMAIN seen : AnchorOf[n] = a /\ seen[n] = "survived"
    <3>1. PICK m \in MutantsIn(s) : /\ AnchorOf[m] = a /\ Cached(m, src[s], suite[s])
                                    /\ Outcome(m, src[s], suite[s]) = "survived"
      BY <1>6, <2>3 DEF OnSymbol, MutantsIn
    <3>2. FileOf(m) = s
      BY MutantFacts DEF MutantsIn, IInv, TypeOK
    <3>3. suite[s] # NoTests /\ Reached(s, src[s], suite[s])
      BY <3>1, <3>2 DEF IInv, ResultsAreEarned, Cached, Outcome
    <3>4. s \notin unexercised
      BY <1>3, <3>3 DEF Reached, Missed
    <3>5. PICK n \in DOMAIN seen : /\ AnchorOf[n] = a /\ FileOf(n) = s
                                   /\ n = m \/ Survived(seen[n])
      BY <1>4, <3>1, <3>4
    <3>6. CASE n = m
      BY <3>1, <3>2, <3>5, <3>6, SeenFacts
    <3>7. CASE Survived(seen[n])
      BY <3>3, <3>5, <3>7, SeenFacts DEF Survived
    <3> QED BY <3>5, <3>6, <3>7
  <2> QED BY <2>1, <2>2, <2>3
<1>7. ASSUME NEW s \in Sources \ garbled PROVE s \in Reported <=> OnFile(s, src[s], suite[s])
  <2>1. s \in Reported <=> \/ s \in unexercised
                           \/ \E n \in DOMAIN seen : FileOf(n) = s /\ seen[n] = "no_tests"
    BY SeenFacts DEF Reported, Unpinned, Untested
  <2>2. s \in unexercised => OnFile(s, src[s], suite[s])
    BY <1>3 DEF OnFile, MutantsIn, IInv, PassIsCached
  <2>3. ASSUME NEW n \in DOMAIN seen, FileOf(n) = s, seen[n] = "no_tests"
        PROVE  OnFile(s, src[s], suite[s])
    BY <2>3, SeenFacts DEF OnFile
  <2>4. ASSUME OnFile(s, src[s], suite[s]), s \notin unexercised
        PROVE  \E n \in DOMAIN seen : FileOf(n) = s /\ seen[n] = "no_tests"
    <3>1. MutantsIn(s) # {}
      BY <2>4 DEF OnFile, MutantsIn
    <3>2. suite[s] = NoTests
      BY <1>2, <2>4, <3>1 DEF OnFile, Reached, Missed
    <3>3. PICK m \in MutantsIn(s) : TRUE
      BY <3>1
    <3>4. PICK n \in DOMAIN seen : FileOf(n) = s
      BY <1>4, <2>4
    <3> QED BY <3>2, <3>4, SeenFacts
  <2> QED BY <2>1, <2>2, <2>3, <2>4
<1>8. ASSUME garbled = {}, Reported = {}, ~NothingBuilt, NEW s \in Sources,
             MutantsOf[s][src[s]] # {}
      PROVE  Caught(t)
  <2>1. PICK m \in MutantsIn(s) : TRUE
    BY <1>8 DEF MutantsIn
  <2>2. DOMAIN seen # {}
    BY <1>4, <1>8 DEF Reported
  <2>3. PICK n \in DOMAIN seen : seen[n] # "not_built"
    BY <1>8, <2>2 DEF NothingBuilt
  <2>4. seen[n] # "survived" /\ seen[n] # "no_tests"
    <3>1. seen[n] = "survived" => AnchorOf[n] \in Reported
      BY DEF Reported, Unpinned
    <3>2. seen[n] = "no_tests" => FileOf(n) \in Reported
      BY DEF Reported, Untested
    <3> QED BY <1>8, <3>1, <3>2
  <2>5. seen[n] = "killed"
    BY <2>3, <2>4, SeenFacts DEF Outcomes, Judged
  <2>6. FileOf(n) \in Sources /\ n \in MutantsOf[FileOf(n)][src[FileOf(n)]]
    BY <1>8, SeenFacts
  <2>7. Found(t, n, {"killed"})
    BY <1>1, <2>5, SeenFacts DEF Found, KeyIn, Cached, Outcome
  <2> QED BY <1>1, <2>6, <2>7 DEF Caught
<1>9. \A s \in Sources \ garbled : Faithful(Reported, s, src[s], suite[s])
  BY <1>5, <1>6, <1>7 DEF Faithful
<1> QED BY <1>1, <1>8, <1>9

LEMMA CacheAlone ==
  ASSUME results' = results, probes' = probes
  PROVE  /\ \A report, s, v, u : Faithful(report, s, v, u)' = Faithful(report, s, v, u)
         /\ \A t : Caught(t)' = Caught(t)
<1>1. \A s, v, u : Settled(s, v, u)' = Settled(s, v, u)
  BY DEF Settled, Probed, Missed, Cached, Covered, Outcome
<1>2. \A s, v, u : OnFile(s, v, u)' = OnFile(s, v, u) /\ OnSymbol(s, v, u)' = OnSymbol(s, v, u)
  BY DEF OnFile, OnSymbol, Missed, Probed, Cached, Outcome
<1>3. \A t : Caught(t)' = Caught(t)
  BY DEF Caught, Found, KeyIn, FileOf
<1> QED BY <1>1, <1>2, <1>3 DEF Faithful

LEMMA FinishStep ==
  ASSUME IInv, Finish
  PROVE  IInv'
<1>1. PICK here : here = Here
  OBVIOUS
<1>2. /\ pc = "next" /\ todo = {} /\ Stop /\ UNCHANGED <<tree, cache>>
      /\ \/ reports' = reports
         \/ ~NothingBuilt /\ reports' = Put(reports, here, Reported)
  BY <1>1 DEF Finish
<1>3. /\ \A s \in Sources \ here.garbled : Faithful(Reported, s, here.src[s], here.suite[s])
      /\ /\ here.garbled = {} /\ Reported = {} /\ ~NothingBuilt
         /\ \E s \in Sources : MutantsOf[s][here.src[s]] # {}
         => Caught(here)
  BY <1>1, <1>2, FinishedTree
<1>4. here \in Trees
  BY <1>1 DEF Here, Trees, IInv, TypeOK
<1>5. Reported \subseteq Anchors \cup Sources
  BY <1>2, SeenFacts, ShardFacts DEF Reported, Unpinned, Untested, IInv, TypeOK, WithTests
<1>6. /\ DOMAIN reports' \subseteq DOMAIN reports \cup {here}
      /\ \A t \in DOMAIN reports' :
           \/ t \in DOMAIN reports /\ reports'[t] = reports[t]
           \/ t = here /\ reports'[t] = Reported /\ ~NothingBuilt
      /\ DOMAIN reports' \subseteq Trees
      /\ reports' \in [DOMAIN reports' -> SUBSET (Anchors \cup Sources)]
  <2>1. /\ DOMAIN reports \subseteq Trees
        /\ reports \in [DOMAIN reports -> SUBSET (Anchors \cup Sources)]
    BY DEF IInv, TypeOK
  <2>2. CASE reports' = reports
    BY <2>1, <2>2
  <2>3. CASE ~NothingBuilt /\ reports' = Put(reports, here, Reported)
    BY <1>4, <1>5, <2>1, <2>3 DEF Put
  <2> QED BY <1>2, <2>2, <2>3
<1>7. UNCHANGED results /\ UNCHANGED probes
  BY <1>2 DEF cache
<1>8. TypeOK' /\ PassIsCached'
  BY <1>2, <1>6, <1>7, StopFacts DEF IInv, TypeOK
<1>9. VerdictsAreKeyed' /\ ResultsAreEarned'
  BY <1>2, SameCache DEF IInv, tree
<1>10. ReportsAreCached'
  <2>1. ASSUME NEW t \in DOMAIN reports'
        PROVE  /\ \A s \in Sources \ t.garbled : Faithful(reports'[t], s, t.src[s], t.suite[s])
               /\ /\ t.garbled = {} /\ reports'[t] = {}
                  /\ \E s \in Sources : MutantsOf[s][t.src[s]] # {}
                  => Caught(t)
    <3>1. CASE t \in DOMAIN reports /\ reports'[t] = reports[t]
      BY <3>1 DEF IInv, ReportsAreCached
    <3>2. CASE t = here /\ reports'[t] = Reported /\ ~NothingBuilt
      BY <1>3, <3>2
    <3> QED BY <1>6, <3>1, <3>2
  <2>2. /\ \A report, s, v, u : Faithful(report, s, v, u)' = Faithful(report, s, v, u)
        /\ \A t : Caught(t)' = Caught(t)
    BY <1>7, CacheAlone
  <2> QED BY <2>1, <2>2 DEF ReportsAreCached
<1> QED BY <1>8, <1>9, <1>10 DEF IInv

-----------------------------------------------------------------------------
(* The invariant.                                                           *)
LEMMA NextKeeps ==
  ASSUME IInv, [Next]_vars
  PROVE  IInv'
<1>1. CASE Finish
  BY <1>1, FinishStep
<1>2. CASE \E s \in Sources : EditSource(s) \/ EditTests(s) \/ LeaveMutant(s)
  BY <1>2, BetweenStep
<1>3. CASE \E s \in Sources : StartShard(s)
  BY <1>3, StartShardStep
<1>4. CASE StartPass \/ EndShard \/ Kill
  BY <1>4, StartPassStep, EndShardStep, KillStep
<1>5. CASE \E answer \in BOOLEAN : Baseline(answer) \/ Sentinel(answer)
  BY <1>5, BaselineStep, SentinelStep
<1>6. CASE \E m \in left : Skip(m) \/ \E outcome \in Outcomes : Judge(m, outcome)
  BY <1>6, SkipStep, JudgeStep
<1>7. CASE UNCHANGED vars
  <2>1. UNCHANGED <<src, suite, mutated, tainted, edits, results, probes, pc, garbled, listed, todo,
                    cur, left, seen, unexercised, reports>>
    BY <1>7 DEF vars, tree, cache, pass
  <2>2. UNCHANGED cache
    BY <2>1 DEF cache
  <2>3. Grows /\ ResultsAreEarned' /\ ReportsAreCached' /\ VerdictsAreKeyed'
    BY <2>1, <2>2, SameCache DEF IInv
  <2>4. Shards' = Shards /\ WithTests' = WithTests
    BY <2>1, <2>3, PassFollows
  <2>5. Done' = Done
    BY <2>1, <2>4 DEF Done, InShard
  <2>6. TypeOK'
    BY <2>1, <2>4 DEF IInv, TypeOK
  <2>7. PassIsCached'
    BY <2>1, <2>3, <2>5, PassFollows DEF IInv, PassIsCached, InShard
  <2> QED BY <2>1, <2>3, <2>6, <2>7 DEF IInv
<1> QED BY <1>1, <1>2, <1>3, <1>4, <1>5, <1>6, <1>7 DEF Next

LEMMA InvHolds == Spec => []IInv
<1>1. IInv /\ [Next]_vars => IInv'
  BY NextKeeps
<1> QED BY <1>1, InitIInv, PTL DEF Spec

(* Every step of a pass leaves the cache and the reports well formed.       *)
THEOREM VerdictTypes == Spec => []TypeOK
<1>1. IInv => TypeOK
  BY DEF IInv
<1> QED BY <1>1, InvHolds, PTL

(* A cached verdict is about the source and the tests it is filed under.    *)
THEOREM CacheIsKeyed == Spec => []VerdictsAreKeyed
<1>1. IInv => VerdictsAreKeyed
  BY DEF IInv
<1> QED BY <1>1, InvHolds, PTL

(* Two passes over a file with the same text and tests say the same of it and *)
(* its symbols, unless one of them found a leftover there.                   *)
THEOREM RoundsCompare == Spec => ReportsAgree
<1>1. ASSUME IInv, Next
      PROVE  \A t \in DOMAIN reports, u \in DOMAIN reports' :
               \A s \in Sources \ (t.garbled \cup u.garbled) :
                 t.src[s] = u.src[s] /\ t.suite[s] = u.suite[s]
                   => Said(reports[t], s) = Said(reports'[u], s)
  <2> SUFFICES ASSUME NEW t \in DOMAIN reports, NEW u \in DOMAIN reports',
                      NEW s \in Sources \ (t.garbled \cup u.garbled),
                      t.src[s] = u.src[s], t.suite[s] = u.suite[s]
               PROVE  Said(reports[t], s) = Said(reports'[u], s)
    OBVIOUS
  <2>1. Faithful(reports[t], s, t.src[s], t.suite[s])
    BY <1>1 DEF IInv, ReportsAreCached
  <2>2. Faithful(reports'[u], s, t.src[s], t.suite[s])
    <3>1. CASE Finish
      <4>1. PICK report : report = reports'[u]
        OBVIOUS
      <4>2. ReportsAreCached'
        BY <1>1, NextKeeps DEF IInv
      <4>3. Faithful(report, s, u.src[s], u.suite[s])'
        BY <4>1, <4>2 DEF ReportsAreCached
      <4>4. results' = results /\ probes' = probes
        BY <3>1 DEF Finish, cache
      <4>5. Faithful(report, s, u.src[s], u.suite[s])
        <5>1. PICK v : v = u.src[s]
          OBVIOUS
        <5>2. PICK w : w = u.suite[s]
          OBVIOUS
        <5>3. Faithful(report, s, v, w)'
          BY <4>3, <5>1, <5>2
        <5>4. Faithful(report, s, v, w)
          BY <4>4, <5>3, CacheAlone
        <5> QED BY <5>1, <5>2, <5>4
      <4> QED BY <4>1, <4>5
    <3>2. CASE reports' = reports
      BY <1>1, <3>2 DEF IInv, ReportsAreCached
    <3> QED
      BY <1>1, <3>1, <3>2 DEF Next, EditSource, EditTests, LeaveMutant, Between, StartPass,
        StartShard, Baseline, Sentinel, Skip, Judge, EndShard, Kill
  <2> QED BY <2>1, <2>2 DEF Faithful, Said
<1>2. IInv /\ [Next]_vars =>
        [\A t \in DOMAIN reports, u \in DOMAIN reports' :
           \A s \in Sources \ (t.garbled \cup u.garbled) :
             t.src[s] = u.src[s] /\ t.suite[s] = u.suite[s]
               => Said(reports[t], s) = Said(reports'[u], s)]_vars
  BY <1>1
<1> QED BY <1>2, InvHolds, PTL DEF Spec, ReportsAgree

(* A mutant of which a report says nothing was caught or could not be built,  *)
(* unless its file held a leftover.                                         *)
THEOREM SilenceHolds == Spec => []SilenceIsExplained
<1>1. ASSUME IInv PROVE SilenceIsExplained
  <2> SUFFICES ASSUME NEW t \in DOMAIN reports, NEW s \in Sources \ t.garbled,
                      NEW m \in MutantsOf[s][t.src[s]]
               PROVE  {AnchorOf[m], s} \cap reports[t] # {} \/ Found(t, m, {"killed", "not_built"})
    BY DEF SilenceIsExplained
  <2>1. PICK v : v = t.src[s]
    OBVIOUS
  <2>2. PICK u : u = t.suite[s]
    OBVIOUS
  <2>3. t \in Trees
    BY <1>1 DEF IInv, TypeOK
  <2>4. v \in Versions /\ m \in Mutants /\ FileOf(m) = s /\ AnchorOf[m] \in Anchors
        /\ SourceOf[AnchorOf[m]] = s /\ m \in MutantsOf[s][v]
    BY <2>1, <2>3, MutantFacts DEF Trees
  <2>5. Faithful(reports[t], s, v, u)
    BY <1>1, <2>1, <2>2 DEF IInv, ReportsAreCached
  <2>6. CASE Missed(s, v, u) \/ u = NoTests
    BY <2>4, <2>5, <2>6 DEF Faithful, OnFile
  <2>7. ASSUME NEW n \in MutantsOf[s][v], AnchorOf[n] = AnchorOf[m], Cached(n, v, u),
               u # NoTests, Survived(Outcome(n, v, u))
        PROVE  AnchorOf[m] \in reports[t]
    <3>1. Outcome(n, v, u) # "no_tests"
      BY <1>1, <2>7 DEF IInv, ResultsAreEarned, Cached, Outcome
    <3>2. OnSymbol(AnchorOf[m], v, u)
      BY <2>4, <2>7, <3>1 DEF OnSymbol, Survived
    <3> QED BY <2>4, <2>5, <3>2 DEF Faithful
  <2>8. CASE Cached(m, v, u) /\ u # NoTests
    <3>1. Outcome(m, v, u) \in Outcomes
      BY <1>1, <2>8 DEF IInv, TypeOK, Verdict, Cached, Outcome
    <3>2. Outcome(m, v, u) \in {"killed", "not_built"} => Found(t, m, {"killed", "not_built"})
      BY <2>1, <2>2, <2>4, <2>8 DEF Found, KeyIn, Cached, Outcome
    <3>3. Outcome(m, v, u) # "no_tests"
      BY <1>1, <2>8 DEF IInv, ResultsAreEarned, Cached, Outcome
    <3> QED BY <2>4, <2>7, <2>8, <3>1, <3>2, <3>3 DEF Outcomes, Judged, Survived
  <2>9. CASE Covered(m, v, u) /\ u # NoTests
    BY <2>4, <2>7, <2>9 DEF Covered
  <2> QED BY <2>4, <2>5, <2>6, <2>8, <2>9 DEF Faithful, Settled
<1> QED BY <1>1, InvHolds, PTL

(* An empty report of a pass that found no leftover means that a mutant of    *)
(* its tree was caught.                                                     *)
THEOREM CleanIsEarned == Spec => []CleanMeansCaught
<1>1. ASSUME IInv PROVE CleanMeansCaught
  BY <1>1 DEF IInv, ReportsAreCached, CleanMeansCaught, Caught
<1> QED BY <1>1, InvHolds, PTL
=============================================================================
