# coldsweep in TLA+

coldsweep drives coding agents over a repository until their findings stop changing. A *task* is a
directory on disk; the commands scan, merge, fix and verify its findings, and a *gate* tells when
to stop. The value of the tool is the gate: if it opens too early, work is lost without a sound; if
it cannot open, money is. This directory models the part of the program the gate depends on, checks
it with TLC and proves the main results with TLAPS.

Sources are quoted as `merge.py:249`, for `src/coldsweep/merge.py` line 249.

- [The system](#the-system): components, state, operations, what is hard, what makes each correct
- [The modules](#the-modules): which module models what, and how it corresponds to the code
- [The runs](#the-runs): questions, bounds, fairness
- [Disagreements found](#disagreements-found)
- [The proofs](#the-proofs)
- [What is not modelled](#what-is-not-modelled)
- [Plan](#plan)

## The system

### Components, their state and their operations

| component | source | state it keeps | operations |
|---|---|---|---|
| findings | `models.py` | none of its own: a `Finding` has an identity (rule, anchor, evidence), a status out of six, `adjudicated`, `first_seen_round`, `last_seen_round`, `reopens` | identity of a raw finding, the status changes |
| merge | `merge.py` | in memory for one round: the findings so far, `claimed`, the run record | `merge_round`, the similarity fallback, `_close_stale` |
| gate | `converge.py` | none | `evaluate`, `needs_triage`, `_half` |
| task on disk | `store.py` | `profile.yaml`, `findings.jsonl`, `runs/<n>.json`, `runs/<n>.ingest.json`, `spec.lock`, `spend.jsonl`, `mutants.lock`, `mutants.sqlite` | atomic load and save, `next_round`, `append_rule` |
| commands | `cli.py` | the control of one process | `init`, `scan`, `ingest`, `fix`, `verify`, `adjudicate`, `converged`, `run`, `spec freeze`, reports |
| verification | `verify.py` | none | `verify_findings`, `settle_disputes` |
| mutation | `mutation.py` | the working tree while a mutant is in it, the backup beside the file, the lock, the verdict cache | `run`, `_swapped`, `restore_interrupted`, `restore_orphans` |
| agent runner | `runner.py` | running subprocesses, the budget spent | `scan` and `fix` calls, retries, lanes |
| spec | `spec.py` | `spec.lock` | `freeze`, `blockers`, marker scan |
| mechanical checks | `mechanical.py` | none | run a command, parse its lines |
| shards, syntax | `shard.py`, `syntax.py` | none | resolve globs, read symbols and mutation sites |
| Stop hook | `hooks/stop.py` | none | run the gate when an agent session stops |

### How they interact

`run` (cli.py:956) is a loop: gate, `scan`, `ingest`, `fix`, `verify`, gate. Each of the four is
also a command of its own, and a user may type any of them between two runs, ingest old rounds
again, edit the profile, or answer `adjudicate`. All of them meet in the files of the task: a
command loads `findings.jsonl`, works, and writes the whole file back. `ingest` writes two files, first
the findings and then the ingest record, and the gate reads both: which rounds are complete it
takes from the records, what those rounds added from the findings.

`scan` calls the agent runner once per shard, and the subsystems (mutation, spec, mechanical checks)
for the rules they own. `fix` calls agents in parallel lanes. `verify` re-derives what a subsystem
owns and looks for the evidence snippet of what it does not. The mutation subsystem writes into the
user's tree; every command starts by undoing what a killed run left there.

### What is hard here

- *Crashes.* Two writes make an ingest; two writes and a rename make a swap; a process may die
  between any two.
- *Order.* Rounds may be scanned, skipped, ingested out of order, ingested twice or with failed
  shards. Within a round the order of raw findings decides what absorbs what.
- *Long histories.* A finding goes through fixed, verified, lapsed, reopened, disputed, ruled on and
  disputed again over many rounds; the oscillation guard and the `adjudicated` flag must survive
  every such path.
- *A taxonomy that moves under the task.* Whether a finding blocks as open or as unclassified depends
  on the profile of the moment.
- *Termination.* `run` spends money on every pass.
- *Concurrency.* Nothing locks a task: the Stop hook reads its files one by one while another process
  writes them. The working tree is shared by all tasks and by the agents.
- *Caches.* Verdicts and probes outlive the tree, the suite and the pass they were made in.

### What makes each component correct

- *Merge*: nothing a round reports may be lost; an item that code decides is never merged with a
  similar one; one existing finding absorbs at most one candidate a round.
- *Gate*: it opens only over k fully covered rounds that added nothing, with everything closed or
  ruled on, and it never contradicts the gates of the two halves of the taxonomy.
- *Task and commands*: no finding is dropped; a ruling is moved by a person only; a new dispute waits
  for a ruling of its own; the guard holds; records and findings agree through crashes; a run ends.
- *Mutation*: no original is ever lost; what is left behind is announced and undone before anything
  builds on it; no verdict is taken with a second mutant in the tree; a cached verdict is about the
  text and the tests its key names; "no survivor" is never read into a pass that judged nothing;
  two rounds over one file agree.
- *Agent runner*: two agents never hold a file at once; no edit is undone by another agent; what is
  recorded as fixed is in the tree; a batch ends.
- *Spec*: an item is verified by its marker and not by silence; the decidable gate covers every item a round of its
  window swept; work is about frozen items only.
- *Stop hook*: a stop is blocked only when the gate was shut, and allowed only when it was open, at some
  moment while the hook looked.

`PROJECT.json` lists the hazards behind these, each at its line.

## The modules

    Findings                 what a finding is, and the status changes commands share
      Converge                 the gate, over findings, records and profile
        Staleness                what the end of a merge does to what a round no longer reports
          Merge                    one round folded into the findings
            MergeRound               a merge on its own             MCMerge
              MergeRoundProofs
            TaskLoop                 a task and its commands        MCTaskLoop
              TaskLoopProofs
              StopHook                 the hook beside the task     MCStopHook
                StopHookProofs
          SpecFreeze               a spec, its lock and the code    MCSpecFreeze
            SpecFreezeProofs
    Lifecycle                what a task promises; TaskLoop implements it
    FixLanes                 fix agents in parallel, in one tree    MCFixLanes
      FixLanesProofs
    AtomicEdits              what the runner promises; FixLanes implements it
    MutantSwap               mutants in the working tree            MCMutantSwap
      MutantSwapProofs
    WorkingTree              what the runner promises of the tree; MutantSwap implements it
    MutationVerdicts         a mutation pass and its cache          MCMutationVerdicts
      MutationVerdictsProofs
    FindingLemmas            what the status changes do, for the proofs over findings

Indentation is EXTENDS; the MC modules hold the values of the constants for TLC.

**Findings.** `Ids` is the set of identities, records of rule, anchor and evidence; a finding set is a
function from some of them to `[status, adjudicated, first, last, reopens]`. An identity is in it once:
the commands write one list of distinct findings, and `load_findings` would not notice a file in which
somebody wrote one twice. `Touch`, `Reopen`, `Dispute`, `Judge` are the
functions of merge.py, verify.py and cli.py of those names. `reopens` saturates one above the guard's
limit: beyond it the code only compares. The profile is `rule_ids` and its subset `exhaustive` (the
rules code decides). Which rules a subsystem owns (`OwnedRules`), which have a decider and which are
absence rules are constants: a profile may gain and lose rules, but what kind of rule one is does
not change here.

**Converge.** Pure operators, one per property of `ConvergenceReport`. The spec blocker is the
parameter `external`.

**Staleness, Merge.** `IngestExact`, `Absorb`, `IngestNew` are the three ways out of `_ingest_one`, each
with the update of `claimed` and of the decisions. These are a bag, since the code appends to a list and
nothing depends on their order: two decisions on one identity are two. `RunRecord` is what a scan leaves; a
round that is not ok has a failed shard, as a scan refuses an empty scope (cli.py:311). The similarity score
and the adjudicator model are nondeterministic; which existing finding may be compared is not: unclaimed,
same rule and file, the identical anchor first. `Merged` ends with `CloseStale`, as `merge_round` does.
`Matched` is the merge of the one rule code decides, where only an identical anchor matches: the whole round
at once.
MergeRound puts a merge on its own and keeps what it was handed in the history variable `known`, to
compare the two.

**TaskLoop.** One process at a time. `pc` is the place within the running command and `mode` says
whether it is part of `run`. Disk (`findings`, `scanned`, `records`) is kept apart from memory
(`mem`, `todo`, `claimed`, `decisions`), and `Crash` erases memory only. An ingest is
`StartIngest`, any number of `Merging`, `SaveFindings`, `SaveRecord`. Fix and verify save once at
the end, so each is one action; so is `adjudicate`, which may lose its rulings but not the rules
it already wrote into the profile. What a run file contains is chosen when it is ingested: the user may
scan the round again just before, so this adds no behaviour. Agents may report anything; what they
report on findings they were not sent to is limited to the constant `Foreign`, empty in the runs,
because the code applies it and several properties then fail (see
[below](#disagreements-found)).

**Lifecycle.** The abstract specification of a task: each identity is unseen, work, closed, disputed or
ruled on, and a round is folded in as a whole or not at all. `Promised` in TaskLoop maps a task to
it: `LifeIn(findings, id)` is the life of an identity on disk, and a round is being folded in from
`StartIngest` until the findings are saved or the process dies. The steps of the merge in memory,
the record that follows the save, scans, crashes and edits of the profile are stutters.

**StopHook.** A second process beside TaskLoop. The hook asks `coldsweep converged`, which reads the
profile, the findings, the list of ingested rounds and which of them are incomplete: four
actions, with any steps of the task between them, since nothing is locked. `gates` and `moved` are history
variables: the values the gate had since the first read, and what of profile and records changed.
`Refuse` and `StandDown` are the answers that do not come from the gate.

**SpecFreeze.** The document, `spec.lock`, the markers in the code, and the rounds, findings and records of
the one rule code decides about them. The user edits document and code between any two
commands, so also between the scan of a round and its ingest. A round remembers what it looked at
(`items`); any round may be scanned and ingested at any time, in any order. `swept` and `disturbed` are history
variables for the properties: what each ingested round looked at, and the items that the user took out
of the document or whose marker the user removed. `Folded` is `merge_round` for that rule. `Drift` and
`Blocked` are spec.py's; fix, verify and adjudicate are those of the loop for this rule. Where the markers
cannot be read, verify defers every claim and adjudicate asks a person (`decided`).

**FixLanes.** `Place` is one step of the loop in `fix_lanes`. Each group then goes through waiting,
reading, writing and ended; an attempt that fails leaves what it wrote in the tree and goes back
to waiting for a slot until its retries are used up, keeping its place in the lane. An agent answers when
it likes and claims what it likes. Agents write whole files: what they write is what they read plus their own
edit, so an overlap would lose one. A group whose findings name no file is in a lane of its own.
`Abort` is an interrupt or an error nothing handles. A scan is the same call on no shared file, so
only fixes are modelled.

**AtomicEdits.** The abstract specification: an edit is added to a file in one step, before its group is
answered, and is never undone. FixLanes implements it with the identity as mapping.

**MutantSwap.** The files, the backups beside them and one lock per task; `pc` goes through
`restore_interrupted`, the command's own work, `restore_orphans` and one swap after another. `Kill` may
strike between any two steps. `faults`, chosen once per behaviour from `Regimes`, says what else can
go wrong: a kill inside the write of a source or of a backup leaves it "torn"; a write that fails leaves
the file torn or untouched, and the handlers of the code run. File content is told apart no
further than original, mutant and torn.

**WorkingTree.** The abstract specification: a tree that is whole lends one file, a kill may tear what is
lent, and then the whole tree is back. `Lendable` in MutantSwap maps the files to it; the steps of
backups, locks and tasks are stutters.

**MutationVerdicts.** A pass takes shard after shard: baseline, sentinel, then the mutants, each
answer from the cache or judged and cached. A suite may be flaky, so a fresh judgement is any
verdict. Between passes sources and tests are edited and reverted, and a pass of another task may
leave a mutant in a source. (One of the own task is undone before the command starts, cli.py:79.) A pass
lists its mutants from what the tree holds, and only then puts the leftovers back: `garbled` are the files it
found mutated, and of such a file `listed` has any mutants at all, or none and so no shard. `tainted` are the
files that ever were garbled. `results` keeps beside each outcome what was really judged (`on`), and `reports`
keeps what each finished pass said, by the texts, the tests and the garbled files it found; both are
history, which no action reads.

Each definition is mapped to its lines in `PROJECT.json`. Definitions marked "Mutant" are deliberate
errors: replacing the definition after it by the mutant makes TLC report the property the mutant is
for, which shows that the property can fail.

## The runs

| run | question | instance | states |
|---|---|---|---|
| `merge` | is anything lost when a round is folded into any finding set, in any order? | 4 identities (3 of one rule in one file, 2 on one symbol; 1 owned by a subsystem), each reported 0 to 2 times, any valid profile | 5.8 million |
| `loop_long` | does the gate tell the truth, does the guard hold, does `run` end? | 1 finding, 4 rounds, k = 2, guard of 2 reopens as in the code, spec blocker that comes and goes | 2.0 million |
| `loop_pair` | do records and findings agree over crashes, do rulings stand? | 2 findings on one symbol, 2 rounds, k = 1, guard of 1, `max_disputes` 1 | 3.0 million |
| `loop_mixed` | owned rules, deciders, a moving taxonomy, the halves, triage, the life of a finding | 1 owned finding and 1 of a rule that the taxonomy lacks or has, 2 rounds, k = 1 | 6.8 million |
| `hook` | what does the Stop hook see of a task that is being worked on? | 1 finding of a rule that the taxonomy lacks or has, 2 rounds, k = 1 | 3.4 million |
| `spec` | does the decidable gate of a features task cover the items? | 1 item that is edited beside others that are not, 3 rounds, k = 2, 2 texts, 1 edit | 3.0 million |
| `lanes` | do parallel fixes stay apart, through timeouts and retries? | 3 groups, 2 files, any slices with the empty one (up to the names of the files), 2 slots, 1 retry, fixes that have to be proved | 1.9 million |
| `swap` | is an original ever lost, a leftover unnamed, a verdict about two mutants? | 2 tasks, 2 files, kills anywhere; torn sources, and in a second regime torn backups and writes that fail | 2673 |
| `verdicts` | what is a cached verdict or a clean report worth? | 2 sources with 2 versions, 3 mutants, one suite or none, 2 edits or leftovers, build command, early stop | 7.3 million |
| `hook_race`, `swap_torn_backup`, `verdict_leftover` | see [below](#disagreements-found) | | |

What they show:

- `merge`. `ReportedWorkIsKept`: whatever a round reports is seen and not closed when the round is folded
  in, staleness included: under its own identity, or as a finding of its rule and file that a decision of
  the round names. `AbsorbsAtMostOne`: a finding that was absorbed into or matched in this round
  absorbs nothing more, however often the round repeats a report.
  `CodeRoundIsExact`: on the rules code decides, a round folded in raw by raw, between whatever else it
  reports, is the round folded in at once, so an item is never merged with something similar. Three
  identities of a rule are needed for a candidate to choose between two findings, two copies for a repeat
  within the round. Findings start as open, fixed, or lapsed at the guard's limit, all seen in round 1; the
  merged round is 3, so with k = 2 staleness applies to them.
- `loop_long`. `GateIsBackedByRecords`: an open gate rests on k complete rounds that added nothing and
  leaves no finding unsettled. `GuardHolds`: no finding that waits for work was reopened past the guard
  since a person last ruled. `NothingIsForgotten`: no step drops a finding or moves its rounds back.
  `RunAdvances`: every step of a run leads on in its loop, takes a raw finding off the merge or adds a round
  below the ceiling. `RunEnds`: so it ends. Four rounds let a window of two slide past a gap, and a finding
  lapse, come back and lapse again.
- `loop_pair`. `RecordsMatchFindings`: what a record says it added is in the findings, through crashes
  and rounds ingested again. `RulingsStand`: only `adjudicate` moves a disputed or retired finding.
  Two findings are what an absorption needs.
- `loop_mixed`. `GateIsItsHalves`: the gate is open exactly when those of its halves are and everything off
  the taxonomy was retired, so what `--half` shows is neither more nor less than the gate asks.
  `DisputesStartPending`: a new dispute waits for a ruling of its own. `OnlyTriageOpens`: where only triage
  is left, no other command opens the gate. `OnlyRoundsShut`: once it is open, no fix, verdict, ruling, scan
  or crash shuts it, only an ingest or an edit of the taxonomy. `FollowsLifecycle`: TaskLoop implements
  Lifecycle.
- `hook`. `BlocksOnlyWhileShut` and `AllowsWhatWasOpen`: the answer is one the gate had at some moment of
  the look, although no two reads are of the same moment. The first excepts a look during which a round was
  ingested again, the second one during which a round was ingested or the profile edited; the exceptions are
  needed (`hook_race`). No `run` starts in this instance (`Ceiling` does not fit below `MaxRound`); its
  steps are those of the single commands, which all interleave with the reads.
- `spec`. `GateCoversWhatItSwept`: what a round of the window looked at is implemented or ruled on when the
  decidable gate is open. `VerifiedIsMarked`: verified means marked. `WorkIsFrozenWork`: no work on an item
  nobody froze. `IngestIsIdempotent`: a round that is ingested again, as after a crash before its record,
  changes nothing. The first three except the items whose marker, or which themselves, the user removed:
  an edit after the last look is what no gate can see. The first two also except an item that was passed
  over (`PassedOver`): a round with a later number than every round that looked at it was ingested. That
  is the code's doing and not the user's, see [below](#disagreements-found); without the exception TLC finds
  the item verified without a marker. One item is enough, as items only meet in `Blocked`
  and in the window, where the others of the document stand for them.
- `lanes`. `LanesAreComponents`: groups share a lane exactly when a chain of shared files joins them.
  `LanesKeepGoing`: in a lane that has work left exactly one group may go on, and whoever works in it is
  that group. From the two it follows that agents at work share no file. `RecordedFixIsInTree`: what the agent
  of a group recorded as fixed wrote is in the tree, and its paired tests are green; what it only claims to have
  written is no matter of the runner. `EditsAreAtomic`: FixLanes implements AtomicEdits. `BatchAdvances`: every step takes
  one group further and leaves the others where they are. `BatchEnds`: so the batch ends. Three groups and
  two files make the chain in which the ends share nothing; two slots are the least for an overlap.
- `swap`. `OriginalKept` and `LeftoversAnnounced` where only sources tear. `JudgesOneMutant` under every
  fault, so also after a file could not be written back. `OneFileAway`: where only sources tear, MutantSwap implements WorkingTree. Two tasks and two files
  are what it takes for a leftover to belong to somebody else and for a second mutant to exist. The state
  space is exhausted without any bound.
- `verdicts`. `VerdictsAreKeyed`: a cached verdict was reached on the text and tests of its key.
  `SilenceIsExplained`: a mutant whose symbol and file a report does not name was killed or rejected, on this
  very tree. `CleanMeansCaught`: a report of nothing rests on a mutant that was killed. (In both a mutant
  that ended in an error counts as killed, as in the code.) `ReportsAgree`: a file
  with the same text and tests is never reported on differently, whatever changed elsewhere and whatever
  passes were killed in between. What a pass says of a file it found mutated is excepted from the last three,
  and a verdict on a file that ever was so found from the first: the exceptions are needed
  (`verdict_leftover`). Two edits are an edit and its reversal, two mutants of one symbol are what the
  early stop needs.

*Bounds.* `MaxRound` bounds the round numbers, and `RoomToRun` lets a run start only where its rounds
stay within it; `Ceiling` is `max_rounds`; `MaxCopies` bounds repeats of an identity in a round;
`MaxEdits` the edits of the user; `reopens` saturates. `MaxDisputes` above the number of
identities stands for "unset". In `loop_pair`, `loop_mixed` and `hook` k is 1 to keep them affordable; the
window of two is the matter of `loop_long` and `spec`. The theorems below hold without these values.

*Fairness.* `FairSpec` of TaskLoop states `WF_vars(RunStep)`, that a command that is running goes on: the
code is a sequential loop in which every subprocess has a timeout, so each step ends. No command is
owed, nor is a crash excluded: a crash also ends a run. `RunEnds` holds with a spec blocker that changes
at will and agents that report anything, because each pass adds a completed round and `max_rounds`
counts those. `FairSpec` of FixLanes states weak fairness of placing, of recording and of each
group's steps: the event loop runs every lane that can go on (runner.py), and `agent.timeout_s` ends an
attempt that does not answer. Nothing says that an attempt ever succeeds.

*Deadlock* is checked except where the system stops: `MergeRound`, when the round is merged, and
`FixLanes`, when the batch is saved or aborted.

## Disagreements found

Each of these runs ends with a counterexample to what the repository says.

- `hook_race`: the hook "refuses to let an interactive session finish while the gate is shut"
  (hooks/stop.py:1). `converged` reads the findings before the rounds (cli.py:94): a round whose
  findings are new and whose record is written between the two reads counts as complete and the
  findings it added are not seen, so the stop is allowed although the gate was never open.
- `swap_torn_backup`: a mutant's file is "always put back" (mutation.py:497). A kill inside the write of
  the backup leaves a torn one, which the next command moves over the intact source (mutation.py:550).
- `verdict_leftover`: verdicts are "keyed by mutant identity plus the source, tests and command it was
  judged against" (README.md:335). Mutants are enumerated before `restore_orphans` (mutation.py:705), so a
  pass after another task's kill makes them from a mutated text and caches the verdicts under the
  key of the restored one. By the same order the pass may miss mutants of the restored text, or the
  whole file, without a word.

Others were met while modelling and are explained by reading alone:

- `merge.py:220` closes what "K consecutive full re-derivations no longer report"; merge.py:249
  subtracts round numbers, so a round that was scanned and never ingested, or that failed, counts as one.
- "One *complete* pass that does not report an anchor has inspected the repository and found the work done"
  (merge.py:234); but any round with a later number closes (merge.py:244). If round 3 is scanned, then an
  item is added and frozen, then `scan --round 2` finds it unmarked, ingesting 2 and then 3 verifies it, by a
  round that never saw it. Hence `PassedOver` in the properties of SpecFreeze.
- The exact match of a raw finding ignores `claimed` (merge.py:145), so two incoming findings collapse into
  one when the similar one comes before the identical one; tests/test_merge.py:105 tries the other order.
- An agent's outcome is applied to any finding it names (cli.py:608), so a pending dispute can become
  fixed without the ruling that models.py:357 asks for.
- A command builds on what another task's kill left in the tree: `restore_interrupted` looks at its own
  lock only (cli.py:76, :79).
- A crash between the two writes of an ingest lets the gate open over rounds n-1 and n+1 while n, merged
  between them, added a finding (cli.py:118, README.md:145): only rounds with a record are in the window.
- A mutant whose lock cannot be removed ends as an `error`, which is cached like a verdict
  (mutation.py:652): it is neither reported nor judged again on this text, and the test for a pass in which
  nothing was judged (mutation.py:750) does not count it.
- After a new item is frozen the decidable gate may be open over rounds that never looked at it
  (cli.py:394, README.md:255): nothing resets the window.
- "An anchor missing from it is proof the symbol is now pinned" (verify.py:95): it is missing also where
  its file was not exercised or has no tests, because then the file is reported and not the symbol
  (verify.py:109).

## The proofs

Every property of the passing runs is proved for all values of the constants except `RunEnds` and
`BatchEnds`. The assumptions are those named on the constants
(`BoundsAssumption`, `ProfilesAssumption`, `GroupsAssumption` and so on), which TLC evaluates in
the runs.

**TaskLoopProofs.** None of the properties is inductive. `RecordsMatchFindings` breaks at `SaveRecord`
unless what the merge decided to be new is known to be among the findings saved just before; that
in turn must hold of the merge's copy before the save. `Inv` therefore says of a merge in
progress what it owes:

- `MemCarriesOver`: the copy holds every saved finding, with the round it was first seen in, a last
  round that has not moved back, its ruling, and no new dispute that is not pending. `findings` does
  not change during a merge, so at `SaveFindings` this is just the action properties.
- `MemHasNewOnes`, then `SavedNewOnes`: what was decided "new" is in the copy, then on disk, first
  seen in this round.
- `MemWithinGuard`: the guard holds of the copy.
- `RoundOnDisk`: the round in progress has a run file, which `TypeOK` needs at `SaveRecord`.

The lemmas of `FindingLemmas` say what one status change does to one finding, and `CloseStaleFacts` what
the end of a merge does to all. There is one lemma per action that `Inv` is preserved; steps that
rewrite every finding at once (fix, verify, adjudicate) share `UpdateStep`. `NextKeeps` joins them and gives
three action properties; `GateSound` and `HalvesMakeTheGate` follow from `Inv` in each state. `TriageOpens`
adds to `Inv` what a merge in progress leaves standing (`MemStands`): a finding that only triage can
move is in the copy as it was, so no save removes what shuts the gate. `TaskImplementsLifecycle`
adds `MemLife`, that each identity of the copy is one `Round` away from its life on disk; there
is one lemma per kind of command that its step is a step of Lifecycle or a stutter. `RoundsShut` rests
on `OpenStays`: under an open gate the other commands find nothing to change, as a fix needs something open, a
verdict something fixed, and a ruling something disputed or unclassified. `RunsAdvance` adds to
`Inv` the invariant `RoundAhead`: the round a run works on has no record yet, and when the gate was last
asked there was room for it below the ceiling; hence saving its record adds a round.

**StopHookProofs.** `HookInv` is `Inv` with `GateFollowed` (the gate of the moment is in `gates`) and
`ReadsAgree`: while neither records nor profile move, the profile and the rounds that were read are
current, and the gate over the findings that were read is one the task had while the hook looked. That
gives `AllowedWasOpen`. For `BlockedWasShut`, `StaysOpen` says that as long as the gate was never seen shut,
nothing that was read can show it shut; `OpenToOpen` shows that no single step disturbs this.

**MergeRoundProofs.** `IInv` says of the raw findings the merge is past that each stands for a finding that
is seen (`HandledAreKept`), under its own identity if code decides it (`HandledCodeIsSeen`), and that whatever
absorbed a candidate is claimed (`AbsorbersAreClaimed`). At the end all are handled, and `CloseStale` leaves
alone what the round has seen. `CodeRoundExact` is proved from `FoldInv`: at any moment of the merge an identity
that code decides is as the fold at once makes it (`Met`) if a report on it was handled, and as it was
handed over (`AsKnown`) if not. No absorption touches such an identity, whichever side it is on, and a
second report finds it seen.

**SpecFreezeProofs.** A round that looked at an item and is silent on it found its marker (`SilenceIsMarked`),
and an item that such a round has reported is in the findings, last seen no earlier (`SweptIsTracked`).
A round that closes a finding is later than its last sighting; so it looked at the item and found the marker,
or it did not look, and then it is later than every round that did: `PassedOver`. `IngestTwice` needs no invariant but the types:
`FoldTwice` says that what a round has touched is seen at it, so touching it again changes nothing
(`TouchTwice`) and staleness has no more to close.

**FixLanesProofs.** `Placed` says what the lanes are worth once a group is placed: all who write a file are
in the lane of its last writer. With the order of a lane (`Scheduled`), agents that run share no file, so
what an agent read of a file it has still to write is what is there (`Held`). Hence each write adds its own
edit and nothing else: `BatchIsAtomic` is the refinement, step by step. `LaneIsChained`, for
`LanesAreExact`, is the other half of the lanes: a set of placed groups that is closed under sharing a file
and holds one group of a lane holds the whole lane, so nothing is put in sequence without a chain of files.
`LanesGoOn` takes the first group of a lane that has not ended (`SmallestOf`, from the well-founded order of
the naturals): it is its turn, and by `Scheduled` an agent of the lane can only be this one.
`AgentGoesFurther` goes through an agent's steps for `BatchesAdvance`.

**MutantSwapProofs.** `SafeInv` says that neither a backup nor what is taken for the original is ever a mutant,
that a mutant is written only over a file that has a backup, and at which steps the tree holds none: a
sweep that ends without backups then ends without mutants. It holds under every fault. `KeptInv` adds, where
`OnlySourceTears` (a condition on `faults` and part of the properties, not an assumption), that
backups are intact while their file is away, that the lock of the command names that file from before the first
write until after the last, and that a lock is dropped only when its file is back.
`swap_torn_backup` shows that the condition is needed. `OneFileLent`, the refinement of WorkingTree, adds
`OneAway`, that at most one file is not its original: so a write of a mutant is a loan by a whole tree
(`AllBack`), and putting a backup back makes the tree whole (`PutBackReturns`).

**MutationVerdictsProofs.** Nothing is ever removed from the cache or changed in it, and a finished pass
leaves every shard of its tree settled there, so its report can be read off the cache
(`ReportsAreCached`), file by file (`Faithful`): a later pass over the same text and tests reads the same,
whatever it finds elsewhere. A file that was garbled is left out, of which the mutants listed are
not those of its text. `PassIsCached` is what a pass in progress has done towards that, `ResultsAreEarned`
that a verdict under tests was reached only after the sentinel had been.

*Proved and not run.* The type invariants of MergeRound, FixLanes, MutationVerdicts and StopHook;
`NoSharedFile`, which `LanesAreComponents` and `LanesKeepGoing` imply, and `CodeItemsStayDistinct`, which
`CodeRoundIsExact` does at the end of a merge.

*Only model-checked.* `RunEnds` and `BatchEnds`: liveness under fairness is out of the prover's reach. Their
safety cores are proved. Each step of a run or of a batch leads on (`RunsAdvance`, `BatchesAdvance`), towards
a ceiling, a last raw finding or a last attempt, and no lane is stuck (`LanesGoOn`); what TLC adds is that a
step is always possible and, under fairness, taken.

## What is not modelled

- Two commands that write one task, and edits of the profile during a `run`. StopHook has the one
  concurrent process the program itself starts, and it only reads.
- In a mutation pass: edits made while it runs; the build command and the sources other than the mutated
  one, which the key leaves out; generating the mutants. The `error` outcome of `_judge` (mutation.py:681)
  is not told apart from "killed": like a timeout it is cached and not reported, and no check asks for it. It takes
  a lock that cannot be removed after the tests were run; every other `OSError` is a `MutationError` by
  then (mutation.py:559) and ends the pass (`Kill`).
- What a verdict reads in the working tree: in TaskLoop a verify may come to any verdict open to it.
  User edits of a file while a mutant or its backup lies about; a rename that fails
  (`restore_orphans` then drops the lock with the backup still there).
- The optional rule of the spec subsystem on markers that name no item.
- The wording of findings, and so the similarity score and the identity hash: identities are elements
  of a set, "similar enough" is a free choice.
- The directory of a new task (`reserve_task`), the splice of a rule into `profile.yaml`
  (`append_rule`), `init`, and the commands that only report.
- The spend ledger, the index, printing: nothing in the loop reads them back. A line of the ledger may be
  lost, as the runner says (runner.py:196), so nothing is claimed of its sum.
- `shard.py`, `syntax.py`, the parsing in `mechanical.py`: pure computations on text without state.

## Plan

What would add most, in this order.

1. Two writing commands on one task over load, work and save, with the exclusive creation of a task
   (store.py:60); a task whose commands are atomic is the specification it would be compared to.
2. Edits of the profile between the passes of a `run`, which loads it once for itself and anew
   for each round.
3. Edits of source and tests while a mutation pass runs.
