----------------------------- MODULE EvalJob_proofs -----------------------------
(***************************************************************************)
(* EvalJob for every number of jobs, questions, steps and shards, every    *)
(* limit, and with the environment at every moment: checkpoints are saved  *)
(* and pruned while questions are asked, which the model-checked instance  *)
(* keeps apart.                                                            *)
(***************************************************************************)
EXTENDS EvalJob, FiniteSetTheorems, TLAPS

(***************************************************************************)
(* The run directory.  A directory holds its own step's data; the newest   *)
(* step that was complete has all of it; a prune's plan is about older     *)
(* steps only, and stays so while newer ones are saved.                    *)
(***************************************************************************)
DirInv ==
    /\ RunDirTypeOK
    /\ \A s \in Steps :
        /\ ckpt[s].manifest => s <= newest
        /\ \A f \in Shards : ckpt[s].files[f] \in SavesOf(s) \cup {Absent}
    /\ \A s \in doomed : s < newest
    /\ newest # 0 =>
        /\ ckpt[newest].manifest
        /\ \A f \in Shards : ckpt[newest].files[f] # Absent

Serving == {"healthy", "asking", "traced", "written", "reporting"}
Staging == {"cache", "clearing", "copying", "marked"}
Places == {"ended", "preflight", "starting"} \cup Staging \cup Serving

(* The cache.  What the marked copy holds was compared with the identity,   *)
(* and nothing touches it before it is loaded.                             *)
CacheInv ==
    /\ CacheTypeOK
    /\ at \in Places
    /\ at \notin {"ended", "preflight"} => ident \in Models
    /\ at \in Staging => job \in Staged
    /\ at = "marked" => partial[ident].files = ident
    /\ at = "starting" /\ job \in Staged => copy[ident].files = ident
    /\ at \in Serving /\ job \in Staged => served = ident
    /\ at \notin Serving => served = Nothing

Standing == [at : {"waiting", "request", "tools", "grading", "done"}, turn : 1..MaxTurns,
             cont : 0..MaxCont, tries : 0..(Retries + 1), status : {None, "infra", "scored"}]

JobTypes ==
    /\ job \in Jobs \cup {0} /\ case \in UseCases \cup {None} /\ step \in Steps \cup {0}
    /\ rc \in {NotYet, KilledCode, 0, 1, 2}
    /\ loaded \subseteq Questions /\ parts \in [Questions -> Jobs \cup {0}] /\ outage \subseteq Questions
    /\ q \in [Questions -> Standing]
    /\ trace \in Jobs \cup {0}

(* A question beyond its request, and above all a scored one, was answered. *)
AskedInv ==
    \A x \in Questions :
        /\ q[x].at \in {"tools", "grading"} => x \notin outage
        /\ q[x].status = "scored" => x \notin outage
        /\ q[x].at = "done" <=> q[x].status # None

(* An exit code is the verdict of the artifact this job has written.        *)
VerdictInv ==
    /\ out # NoArtifact /\ out.valid => Cardinality(out.scored) + MaxInfra >= Cardinality(Questions)
    /\ rc # NotYet => at = "ended"
    /\ rc = 0 => out.by = job /\ out.valid
    /\ at \in {"written", "reporting"} => out.by = job /\ (Valid => out.valid)
    /\ at = "written" => Office

(* Between the look at the names and the writes, the names stay free.       *)
NamesInv ==
    ~Forced =>
        /\ at \in {"asking", "traced"} => out = NoArtifact
        /\ at \in {"asking", "written"} /\ TraceOut => trace = 0
        /\ at = "asking" => \A x \in Questions : q[x].at # "done" => parts[x] = 0

IInv == DirInv /\ CacheInv /\ JobTypes /\ aborted \in BOOLEAN /\ AskedInv /\ VerdictInv /\ NamesInv
-----------------------------------------------------------------------------
(* Facts about the data.  Two saves with a file in common are of one step. *)
LEMMA SavesApart ==
    /\ \A s, t \in Steps : \A v : v \in SavesOf(s) /\ v \in SavesOf(t) => s = t
    /\ \A s \in Steps : Absent \notin SavesOf(s) /\ Cut \notin SavesOf(s)
    /\ \A s \in Steps : SavesOf(s) \subseteq Saves /\ <<s, FALSE>> \in SavesOf(s)
    /\ \A s \in Resaved : <<s, TRUE>> \in SavesOf(s)
<1>1. \A s, t \in Steps : \A v : v \in SavesOf(s) /\ v \in SavesOf(t) => s = t
  <2> SUFFICES ASSUME NEW s \in Steps, NEW t \in Steps, NEW v, v \in SavesOf(s), v \in SavesOf(t) PROVE s = t
    OBVIOUS
  <2>1. PICK a : v = <<s, a>>
    BY DEF SavesOf
  <2>2. PICK b : v = <<t, b>>
    BY DEF SavesOf
  <2>3. QED
    BY <2>1, <2>2
<1>2. \A s \in Steps : Absent \notin SavesOf(s) /\ Cut \notin SavesOf(s)
  BY RunDirConstantsOK DEF SavesOf, Absent, Cut
<1>3. \A s \in Steps : SavesOf(s) \subseteq Saves /\ <<s, FALSE>> \in SavesOf(s)
  BY DEF SavesOf, Saves
<1>4. \A s \in Resaved : <<s, TRUE>> \in SavesOf(s)
  BY DEF SavesOf
<1>5. QED
  BY <1>1, <1>2, <1>3, <1>4

(* The greatest of a set of numbers is the one that no other exceeds.      *)
LEMMA MaxIs ==
    ASSUME NEW S \in SUBSET Nat, NEW m \in S, \A n \in S : n <= m
    PROVE  Max(S) = m
<1>1. \A x \in S : (\A y \in S : x >= y) => x = m
  OBVIOUS
<1>2. \A y \in S : m >= y
  OBVIOUS
<1>3. QED
  BY <1>1, <1>2 DEF Max

(* The counters of a question stay in their ranges when they are counted up. *)
LEMMA Ranges ==
    /\ 1 \in 1..MaxTurns /\ 0 \in 0..MaxCont /\ 0 \in 0..(Retries + 1)
    /\ \A k \in 1..MaxTurns : k # MaxTurns => k + 1 \in 1..MaxTurns
    /\ \A k \in 0..MaxCont : k < MaxCont => k + 1 \in 0..MaxCont
    /\ \A k \in 0..(Retries + 1) : k < Retries \/ k < 1 => k + 1 \in 0..(Retries + 1)
<1>1. MaxTurns \in Nat \ {0} /\ MaxCont \in Nat /\ Retries \in Nat
  BY EvalConstantsOK
<1>2. QED
  BY <1>1

Dones == {Finish("infra"), Finish("scored")}

(* Every change that a step makes to a question in flight gives one again. *)
LEMMA StandingTypes ==
    /\ Waiting \in Standing /\ Dones \subseteq Standing
    /\ \A r \in Standing :
        /\ [r EXCEPT !.at = "request"] \in Standing /\ [r EXCEPT !.at = "grading"] \in Standing
        /\ r.cont < MaxCont => [r EXCEPT !.cont = @ + 1, !.tries = 0] \in Standing
        /\ r.turn # MaxTurns => [r EXCEPT !.at = "request", !.turn = @ + 1] \in Standing
        /\ r.tries < Retries \/ r.tries < 1 => [r EXCEPT !.tries = @ + 1] \in Standing
        /\ [Waiting EXCEPT !.at = "tools", !.turn = r.turn] \in Standing
        /\ [Waiting EXCEPT !.at = "grading", !.turn = r.turn] \in Standing
<1>1. Waiting \in Standing
  BY Ranges DEF Waiting, Standing
<1>2. Finish("infra") \in Standing /\ Finish("scored") \in Standing
  BY Ranges DEF Waiting, Finish, Standing
<1>3. ASSUME NEW r \in Standing
      PROVE  /\ [r EXCEPT !.at = "request"] \in Standing /\ [r EXCEPT !.at = "grading"] \in Standing
             /\ [Waiting EXCEPT !.at = "tools", !.turn = r.turn] \in Standing
             /\ [Waiting EXCEPT !.at = "grading", !.turn = r.turn] \in Standing
  BY Ranges DEF Waiting, Standing
<1>4. ASSUME NEW r \in Standing
      PROVE  /\ r.cont < MaxCont => [r EXCEPT !.cont = @ + 1, !.tries = 0] \in Standing
             /\ r.turn # MaxTurns => [r EXCEPT !.at = "request", !.turn = @ + 1] \in Standing
             /\ r.tries < Retries \/ r.tries < 1 => [r EXCEPT !.tries = @ + 1] \in Standing
  BY Ranges DEF Standing
<1>5. QED
  BY <1>1, <1>2, <1>3, <1>4 DEF Dones

-----------------------------------------------------------------------------
(* The run directory, whatever else happens.                               *)
Ckpts == [Steps -> [manifest : BOOLEAN, files : [Shards -> Content]]]

(* Writing one file of a checkpoint changes that file and nothing else.   *)
LEMMA FileWrite ==
    ASSUME ckpt \in Ckpts, NEW s \in Steps, NEW f \in Shards, NEW v \in Content,
           ckpt' = [ckpt EXCEPT ![s].files[f] = v]
    PROVE  /\ ckpt' \in Ckpts
           /\ \A t \in Steps : ckpt'[t].manifest = ckpt[t].manifest
           /\ \A t \in Steps, g \in Shards :
                ckpt'[t].files[g] = IF t = s /\ g = f THEN v ELSE ckpt[t].files[g]
<1>1. ckpt[s] \in [manifest : BOOLEAN, files : [Shards -> Content]]
  BY DEF Ckpts
<1> DEFINE c == [ckpt[s] EXCEPT !.files[f] = v]
<1>2. c \in [manifest : BOOLEAN, files : [Shards -> Content]] /\ c.manifest = ckpt[s].manifest
  BY <1>1
<1>3. \A g \in Shards : c.files[g] = IF g = f THEN v ELSE ckpt[s].files[g]
  BY <1>1
<1>4. ckpt' = [ckpt EXCEPT ![s] = c]
  OBVIOUS
<1> HIDE DEF c
<1>5. QED
  BY <1>2, <1>3, <1>4 DEF Ckpts

(* Writing or removing a manifest changes no file.                        *)
LEMMA ManifestWrite ==
    ASSUME ckpt \in Ckpts, NEW s \in Steps, NEW b \in BOOLEAN, ckpt' = [ckpt EXCEPT ![s].manifest = b]
    PROVE  /\ ckpt' \in Ckpts
           /\ \A t \in Steps : ckpt'[t].files = ckpt[t].files
           /\ \A t \in Steps : ckpt'[t].manifest = IF t = s THEN b ELSE ckpt[t].manifest
<1>1. ckpt[s] \in [manifest : BOOLEAN, files : [Shards -> Content]]
  BY DEF Ckpts
<1> DEFINE c == [ckpt[s] EXCEPT !.manifest = b]
<1>2. c \in [manifest : BOOLEAN, files : [Shards -> Content]] /\ c.files = ckpt[s].files /\ c.manifest = b
  BY <1>1
<1>3. ckpt' = [ckpt EXCEPT ![s] = c]
  OBVIOUS
<1> HIDE DEF c
<1>4. QED
  BY <1>2, <1>3 DEF Ckpts

(* Saving and pruning preserve the invariant of the run directory.        *)
LEMMA DirStep == DirInv /\ RunDirNext => DirInv'
<1> SUFFICES ASSUME DirInv, RunDirNext PROVE DirInv'
  OBVIOUS
<1>s. DirInv
  OBVIOUS
<1>c. ckpt \in Ckpts /\ Absent \in Content /\ \A t \in Steps : SavesOf(t) \subseteq Content
  BY <1>s, SavesApart DEF DirInv, RunDirTypeOK, Ckpts, Content
<1>n. Steps \subseteq Nat \ {0} /\ newest \in Nat
  BY <1>s, RunDirConstantsOK DEF DirInv, RunDirTypeOK
<1>1. ASSUME NEW s \in Steps, NEW f \in Shards, VerlSaves(s, f) PROVE DirInv'
  <2>1. PICK v \in SavesOf(s) : ckpt' = [ckpt EXCEPT ![s].files[f] = v]
    BY <1>1, SavesApart DEF VerlSaves
  <2>2. v \in Content /\ v # Absent /\ UNCHANGED <<doomed, newest>>
    BY <1>1, <1>c, <2>1, SavesApart DEF VerlSaves
  <2>3. /\ ckpt' \in Ckpts
        /\ \A t \in Steps : ckpt'[t].manifest = ckpt[t].manifest
        /\ \A t \in Steps, g \in Shards : ckpt'[t].files[g] = IF t = s /\ g = f THEN v ELSE ckpt[t].files[g]
    BY <1>c, <2>1, <2>2, FileWrite, ZenonT(60)
  <2>4. \A t \in Steps, g \in Shards : ckpt'[t].files[g] \in SavesOf(t) \cup {Absent}
    BY <1>s, <2>1, <2>3 DEF DirInv
  <2>5. \A t \in Steps, g \in Shards : ckpt[t].files[g] # Absent => ckpt'[t].files[g] # Absent
    BY <2>2, <2>3
  <2>6. QED
    BY <1>s, <2>2, <2>3, <2>4, <2>5 DEF DirInv, RunDirTypeOK, Ckpts
<1>2. ASSUME NEW s \in Steps, VerlCompletes(s) PROVE DirInv'
  <2>1. /\ ckpt' \in Ckpts
        /\ \A t \in Steps : ckpt'[t].files = ckpt[t].files
        /\ \A t \in Steps : ckpt'[t].manifest = IF t = s THEN TRUE ELSE ckpt[t].manifest
    BY <1>2, <1>c, ManifestWrite DEF VerlCompletes
  <2>2. newest < s /\ newest' = s /\ doomed' = doomed
    BY <1>2 DEF VerlCompletes
  <2>3. \A g \in Shards : ckpt[s].files[g] # Absent
    BY <1>2, SavesApart DEF VerlCompletes, verify_hf_dir, Models
  <2>4. RunDirTypeOK'
    BY <1>s, <2>1, <2>2 DEF DirInv, RunDirTypeOK, Ckpts
  <2>5. \A t \in Steps : ckpt'[t].manifest => t <= newest'
    <3>1. \A t \in Steps : t # s => ckpt'[t].manifest = ckpt[t].manifest
      BY <2>1, Zenon
    <3>2. \A t \in Steps : ckpt[t].manifest => t <= newest
      BY <1>s DEF DirInv
    <3>3. QED
      BY <1>n, <2>2, <3>1, <3>2
  <2>6. \A t \in doomed' : t < newest'
    BY <1>s, <1>n, <2>2 DEF DirInv, RunDirTypeOK
  <2>7. QED
    BY <1>s, <1>n, <2>1, <2>2, <2>3, <2>4, <2>5, <2>6 DEF DirInv
<1>3. ASSUME NEW s \in Steps, PruneDeletes(s) PROVE DirInv'
  <2>1. s # newest /\ newest' = newest /\ doomed' \subseteq doomed
    BY <1>3, <1>s, <1>n DEF PruneDeletes, DirInv
  <2>2. CASE \E f \in Shards : ckpt' = [ckpt EXCEPT ![s].files[f] = Absent]
    <3>1. PICK f \in Shards : ckpt' = [ckpt EXCEPT ![s].files[f] = Absent]
      BY <2>2
    <3>2. /\ ckpt' \in Ckpts
          /\ \A t \in Steps : ckpt'[t].manifest = ckpt[t].manifest
          /\ \A t \in Steps, g \in Shards : ckpt'[t].files[g] = IF t = s /\ g = f THEN Absent ELSE ckpt[t].files[g]
      BY <1>c, <3>1, FileWrite, ZenonT(60)
    <3>3. QED
      BY <1>s, <2>1, <3>2 DEF DirInv, RunDirTypeOK, Ckpts
  <2>3. CASE ckpt' = [ckpt EXCEPT ![s].manifest = FALSE]
    <3>1. /\ ckpt' \in Ckpts
          /\ \A t \in Steps : ckpt'[t].files = ckpt[t].files
          /\ \A t \in Steps : ckpt'[t].manifest = IF t = s THEN FALSE ELSE ckpt[t].manifest
      BY <1>c, <2>3, ManifestWrite
    <3>2. QED
      BY <1>s, <2>1, <3>1 DEF DirInv, RunDirTypeOK, Ckpts
  <2>4. CASE ckpt' = ckpt
    BY <1>s, <2>1, <2>4 DEF DirInv, RunDirTypeOK
  <2>5. QED
    BY <1>3, <2>2, <2>3, <2>4 DEF PruneDeletes
<1>4. ASSUME NEW keep \in SUBSET Steps, PrunePlan(keep) PROVE DirInv'
  <2>1. HasManifest \in SUBSET Nat /\ newest \in HasManifest /\ \A s \in HasManifest : s <= newest
    <3>1. PICK s \in Steps : ckpt[s].manifest
      BY <1>4 DEF PrunePlan, HasManifest
    <3>2. newest # 0
      BY <3>1, <1>s, <1>n DEF DirInv
    <3>3. QED
      BY <3>2, <1>s, <1>n DEF DirInv, HasManifest, RunDirTypeOK
  <2>2. Max(HasManifest) = newest
    BY <2>1, MaxIs
  <2>3. \A s \in doomed' : s \in Steps /\ s < newest
    BY <1>4, <1>n, <2>1, <2>2 DEF PrunePlan, Kept, HasManifest
  <2>4. ckpt' = ckpt /\ newest' = newest
    BY <1>4 DEF PrunePlan
  <2>5. QED
    BY <1>s, <2>3, <2>4 DEF DirInv, RunDirTypeOK
<1>5. CASE PruneFails
  BY <1>5, <1>s DEF PruneFails, DirInv, RunDirTypeOK
<1>6. QED
  BY <1>1, <1>2, <1>3, <1>4, <1>5 DEF RunDirNext

-----------------------------------------------------------------------------
(* The steps, by what they have in common.                                 *)
Leaves == \E code \in {1, 2, KilledCode} : Exits(code)

Marking == at = "copying" /\ CopyMatches /\ Marks(ident) /\ at' = "marked" /\ CacheMoves

(* What a step is, by what it does to the cache and to the evidence.      *)
LEMMA StepShapes ==
    ASSUME [Next]_vars
    PROVE  \/ UNCHANGED vars \/ Environment \/ Leaves \/ Reports
           \/ \E s \in Steps, u \in UseCases : Begins(s, u)
           \/ Identified \/ Reuses \/ Clearing \/ Copying \/ Marking \/ Renaming \/ ServerStarts
           \/ \E rows \in SUBSET Questions : Ready(rows)
           \/ WriteTrace \/ WriteOut
           \/ \E x \in Questions : Question(x)
<1>1. RefusedEarly \/ CopyFails \/ ServerFails \/ NotReady \/ Killed => Leaves
  BY DEF RefusedEarly, CopyFails, ServerFails, NotReady, Killed, Leaves
<1>2. Verifies => Marking \/ Leaves
  BY DEF Verifies, Marking, Leaves
<1>3. QED
  BY <1>1, <1>2 DEF Next, JobStep

(* One step of a question: it is over, with a record, or goes on; an        *)
(* outage is on its own account, and on none when it has been answered.    *)
LEMMA QuestionShape ==
    ASSUME JobTypes, AskedInv, NEW x \in Questions, Question(x)
    PROVE  /\ Stays /\ q[x].at # "done"
           /\ outage' \subseteq Questions /\ \A y \in Questions \ {x} : y \in outage' => y \in outage
           /\ \/ \E status \in {"infra", "scored"} :
                   Ends(x, status) /\ (status = "scored" => x \notin outage')
              \/ \E r \in Standing :
                   /\ Puts(x, r) /\ UNCHANGED <<parts, aborted>>
                   /\ r.status = None /\ r.at # "done" /\ (r.at \in {"tools", "grading"} => x \notin outage')
<1> DEFINE Over == \E status \in {"infra", "scored"} : Ends(x, status) /\ (status = "scored" => x \notin outage')
           GoesOn == \E r \in Standing :
                   /\ Puts(x, r) /\ UNCHANGED <<parts, aborted>>
                   /\ r.status = None /\ r.at # "done" /\ (r.at \in {"tools", "grading"} => x \notin outage')
           Same == outage' \subseteq Questions /\ \A y \in Questions \ {x} : y \in outage' => y \in outage
<1>t. q[x] \in Standing /\ outage \subseteq Questions
  BY DEF JobTypes
<1>n. q[x].at # "done" => q[x].status = None
  BY DEF AskedInv
<1>w. Waiting \in Standing /\ Waiting.status = None
  BY StandingTypes DEF Waiting
<1>1. CASE Asks(x)
  <2>1. Stays /\ q[x].at = "waiting"
    BY <1>1 DEF Asks
  <2>2. Same
    BY <1>1, <1>t DEF Asks
  <2>3. CASE Puts(x, [q[x] EXCEPT !.at = "request"]) /\ UNCHANGED <<parts, aborted>>
    <3>1. [q[x] EXCEPT !.at = "request"] \in Standing
      BY <1>t, <1>w, <2>1, <2>3, StandingTypes
    <3>2. ([q[x] EXCEPT !.at = "request"]).status = None /\ ([q[x] EXCEPT !.at = "request"]).at # "done"
      BY <1>t, <1>n, <1>w, <2>1 DEF Standing, None
    <3>3. ([q[x] EXCEPT !.at = "request"]).at \notin {"tools", "grading"}
      BY <1>t, <2>1 DEF Standing
    <3>4. GoesOn
      BY <2>3, <3>1, <3>2, <3>3
    <3>5. QED
      BY <2>1, <2>2, <3>4
  <2>4. QED
    BY <1>1, <2>1, <2>2, <2>3 DEF Asks
<1>2. CASE Continues(x)
  <2>1. Stays /\ q[x].at = "request" /\ q[x].cont < MaxCont
    BY <1>2 DEF Continues
  <2>2. Same
    BY <1>2, <1>t DEF Continues
  <2>3. CASE Puts(x, [q[x] EXCEPT !.cont = @ + 1, !.tries = 0]) /\ UNCHANGED <<parts, aborted>>
    <3>1. [q[x] EXCEPT !.cont = @ + 1, !.tries = 0] \in Standing
      BY <1>t, <1>w, <2>1, <2>3, StandingTypes
    <3>2. ([q[x] EXCEPT !.cont = @ + 1, !.tries = 0]).status = None /\ ([q[x] EXCEPT !.cont = @ + 1, !.tries = 0]).at # "done"
      BY <1>t, <1>n, <1>w, <2>1 DEF Standing, None
    <3>3. ([q[x] EXCEPT !.cont = @ + 1, !.tries = 0]).at \notin {"tools", "grading"}
      BY <1>t, <2>1 DEF Standing
    <3>4. GoesOn
      BY <2>3, <3>1, <3>2, <3>3
    <3>5. QED
      BY <2>1, <2>2, <3>4
  <2>4. QED
    BY <1>2, <2>1, <2>2, <2>3 DEF Continues
<1>3. CASE ToolsAnswer(x)
  <2>1. Stays /\ q[x].at = "tools"
    BY <1>3 DEF ToolsAnswer
  <2>2. Same
    BY <1>3, <1>t DEF ToolsAnswer
  <2>3. CASE Puts(x, [q[x] EXCEPT !.at = "grading"]) /\ UNCHANGED <<parts, aborted>>
    <3>1. [q[x] EXCEPT !.at = "grading"] \in Standing
      BY <1>t, <1>w, <2>1, <2>3, StandingTypes
    <3>2. x \notin outage'
      BY <1>3, <2>1 DEF ToolsAnswer, AskedInv
    <3>3. ([q[x] EXCEPT !.at = "grading"]).status = None /\ ([q[x] EXCEPT !.at = "grading"]).at # "done"
      BY <1>t, <1>n, <1>w, <2>1 DEF Standing, None
    <3>4. GoesOn
      BY <2>3, <3>1, <3>2, <3>3
    <3>5. QED
      BY <2>1, <2>2, <3>4
  <2>4. CASE q[x].turn # MaxTurns /\ Puts(x, [q[x] EXCEPT !.at = "request", !.turn = @ + 1]) /\ UNCHANGED <<parts, aborted>>
    <3>1. [q[x] EXCEPT !.at = "request", !.turn = @ + 1] \in Standing
      BY <1>t, <1>w, <2>1, <2>4, StandingTypes
    <3>2. ([q[x] EXCEPT !.at = "request", !.turn = @ + 1]).status = None /\ ([q[x] EXCEPT !.at = "request", !.turn = @ + 1]).at # "done"
      BY <1>t, <1>n, <1>w, <2>1 DEF Standing, None
    <3>3. ([q[x] EXCEPT !.at = "request", !.turn = @ + 1]).at \notin {"tools", "grading"}
      BY <1>t, <2>1 DEF Standing
    <3>4. GoesOn
      BY <2>4, <3>1, <3>2, <3>3
    <3>5. QED
      BY <2>1, <2>2, <3>4
  <2>5. QED
    BY <1>3, <2>1, <2>2, <2>3, <2>4 DEF ToolsAnswer
<1>4. CASE ToolFails(x)
  <2>1. Stays /\ q[x].at = "tools"
    BY <1>4 DEF ToolFails
  <2>2. Same
    BY <1>4, <1>t DEF ToolFails
  <2>3. QED
    BY <1>4, <2>1, <2>2 DEF ToolFails, GivesUp
<1>5. ASSUME NEW b \in BOOLEAN, Replies(x, b) PROVE Stays /\ q[x].at # "done" /\ Same /\ (Over \/ GoesOn)
  <2>1. Stays /\ q[x].at = "request"
    BY <1>5 DEF Replies
  <2>2. Same
    BY <1>5, <1>t DEF Replies
  <2>3. CASE Puts(x, [Waiting EXCEPT !.at = "tools", !.turn = q[x].turn]) /\ UNCHANGED <<parts, aborted>>
    <3>1. [Waiting EXCEPT !.at = "tools", !.turn = q[x].turn] \in Standing
      BY <1>t, <1>w, <2>1, <2>3, StandingTypes
    <3>2. x \notin outage'
      BY <1>5, <2>1 DEF Replies
    <3>3. ([Waiting EXCEPT !.at = "tools", !.turn = q[x].turn]).status = None /\ ([Waiting EXCEPT !.at = "tools", !.turn = q[x].turn]).at # "done"
      BY <1>t, <1>n, <1>w, <2>1 DEF Standing, None
    <3>4. GoesOn
      BY <2>3, <3>1, <3>2, <3>3
    <3>5. QED
      BY <2>1, <2>2, <3>4
  <2>4. CASE Puts(x, [Waiting EXCEPT !.at = "grading", !.turn = q[x].turn]) /\ UNCHANGED <<parts, aborted>>
    <3>1. [Waiting EXCEPT !.at = "grading", !.turn = q[x].turn] \in Standing
      BY <1>t, <1>w, <2>1, <2>4, StandingTypes
    <3>2. x \notin outage'
      BY <1>5, <2>1 DEF Replies
    <3>3. ([Waiting EXCEPT !.at = "grading", !.turn = q[x].turn]).status = None /\ ([Waiting EXCEPT !.at = "grading", !.turn = q[x].turn]).at # "done"
      BY <1>t, <1>n, <1>w, <2>1 DEF Standing, None
    <3>4. GoesOn
      BY <2>4, <3>1, <3>2, <3>3
    <3>5. QED
      BY <2>1, <2>2, <3>4
  <2>5. QED
    BY <1>5, <2>1, <2>2, <2>3, <2>4 DEF Replies
<1>6. ASSUME NEW b \in BOOLEAN, Grades(x, b) PROVE Stays /\ q[x].at # "done" /\ Same /\ (Over \/ GoesOn)
  <2>1. Stays /\ q[x].at = "grading"
    BY <1>6 DEF Grades
  <2>2. Same
    BY <1>6, <1>t DEF Grades
  <2>3. QED
    BY <1>6, <2>1, <2>2 DEF Grades, AskedInv
<1>7. ASSUME NEW b \in BOOLEAN, RequestFails(x, b) PROVE Stays /\ q[x].at # "done" /\ Same /\ (Over \/ GoesOn)
  <2>1. Stays /\ q[x].at = "request"
    BY <1>7 DEF RequestFails
  <2>2. Same
    BY <1>7, <1>t DEF RequestFails
  <2>3. CASE (q[x].tries < Retries \/ q[x].tries < 1) /\ Puts(x, [q[x] EXCEPT !.tries = @ + 1]) /\ UNCHANGED <<parts, aborted>>
    <3>1. [q[x] EXCEPT !.tries = @ + 1] \in Standing
      BY <1>t, <1>w, <2>1, <2>3, StandingTypes
    <3>2. ([q[x] EXCEPT !.tries = @ + 1]).status = None /\ ([q[x] EXCEPT !.tries = @ + 1]).at # "done"
      BY <1>t, <1>n, <1>w, <2>1 DEF Standing, None
    <3>3. ([q[x] EXCEPT !.tries = @ + 1]).at \notin {"tools", "grading"}
      BY <1>t, <2>1 DEF Standing
    <3>4. GoesOn
      BY <2>3, <3>1, <3>2, <3>3
    <3>5. QED
      BY <2>1, <2>2, <3>4
  <2>4. QED
    BY <1>7, <2>1, <2>2, <2>3 DEF RequestFails, GivesUp
<1>8. QED
  BY <1>1, <1>2, <1>3, <1>4, <1>5, <1>6, <1>7 DEF Question

-----------------------------------------------------------------------------
(* Each invariant is kept by every step that the others allow.              *)
(* Some facts of types, once: EXCEPT on what is a function of the right     *)
(* kind.                                                                    *)
LEMMA Updates ==
    /\ \A f \in [Questions -> Standing], x \in Questions, r \in Standing : [f EXCEPT ![x] = r] \in [Questions -> Standing]
    /\ \A f \in [Questions -> Jobs \cup {0}], x \in Questions, j \in Jobs \cup {0} :
          [f EXCEPT ![x] = j] \in [Questions -> Jobs \cup {0}]
    /\ [x \in Questions |-> Waiting] \in [Questions -> Standing]
  BY StandingTypes

(* A job's own state keeps its types.                                       *)
LEMMA TypeStep ==
    ASSUME JobTypes, AskedInv, [Next]_vars
    PROVE  JobTypes'
<1>s. JobTypes /\ AskedInv
  OBVIOUS
<1>0. CASE UNCHANGED vars
  BY <1>0, <1>s DEF vars, dirVars, cacheVars, jobVars, runVars, artifactVars, JobTypes
<1>1. CASE Environment
  BY <1>1, <1>s DEF Environment, cacheVars, jobVars, runVars, artifactVars, JobTypes
<1>2. CASE Leaves
  <2>1. q' = [x \in Questions |-> Waiting] /\ loaded' = {} /\ outage' = {} /\ rc' \in {1, 2, KilledCode}
    BY <1>2 DEF Leaves, Exits
  <2>2. UNCHANGED <<job, case, step, parts, trace>>
    BY <1>2 DEF Leaves, Exits, artifactVars
  <2>3. QED
    BY <2>1, <2>2, <1>s, Updates DEF JobTypes
<1>3. CASE Reports
  <2>1. q' = [x \in Questions |-> Waiting] /\ loaded' = {} /\ outage' = {} /\ rc' \in {0, 1}
    BY <1>3 DEF Reports, Exits
  <2>2. UNCHANGED <<job, case, step, parts, trace>>
    BY <1>3 DEF Reports, Exits, artifactVars
  <2>3. QED
    BY <2>1, <2>2, <1>s, Updates DEF JobTypes
<1>4. ASSUME NEW s \in Steps, NEW u \in UseCases, Begins(s, u) PROVE JobTypes'
  BY <1>4, <1>s DEF Begins, dirVars, cacheVars, runVars, artifactVars, JobTypes
<1>5. CASE Identified
  BY <1>5, <1>s DEF Identified, Goes, dirVars, cacheVars, runVars, artifactVars, JobTypes
<1>6. CASE Reuses
  BY <1>6, <1>s DEF Reuses, Goes, CacheMoves, dirVars, cacheVars, runVars, artifactVars,
     JobTypes
<1>7. CASE Clearing
  BY <1>7, <1>s DEF Clearing, CacheMoves, dirVars, cacheVars, runVars, artifactVars, JobTypes
<1>8. CASE Copying
  BY <1>8, <1>s DEF Copying, CacheMoves, dirVars, runVars, artifactVars, JobTypes
<1>9. CASE Marking
  BY <1>9, <1>s DEF Marking, Goes, CacheMoves, dirVars, cacheVars, jobVars, runVars,
     artifactVars, JobTypes
<1>10. CASE Renaming
  BY <1>10, <1>s DEF Renaming, Goes, CacheMoves, dirVars, runVars, artifactVars, JobTypes
<1>11. CASE ServerStarts
  BY <1>11, <1>s DEF ServerStarts, Goes, dirVars, cacheVars, runVars, artifactVars, JobTypes
<1>12. ASSUME NEW rows \in SUBSET Questions, Ready(rows) PROVE JobTypes'
  BY <1>12, <1>s DEF Ready, Goes, dirVars, cacheVars, artifactVars, JobTypes
<1>13. CASE WriteTrace
  BY <1>13, <1>s DEF WriteTrace, Goes, Moves, dirVars, cacheVars, runVars, JobTypes
<1>14. CASE WriteOut
  BY <1>14, <1>s DEF WriteOut, Goes, Moves, dirVars, cacheVars, runVars, JobTypes
<1>15. ASSUME NEW x \in Questions, Question(x) PROVE JobTypes'
  <2>1. Stays /\ outage' \subseteq Questions
    BY <1>15, <1>s, QuestionShape
  <2>2. q' \in [Questions -> Standing] /\ parts' \in [Questions -> Jobs \cup {0}]
    <3>1. CASE \E status \in {"infra", "scored"} : Ends(x, status)
      <4>1. PICK status \in {"infra", "scored"} : Ends(x, status)
        BY <3>1
      <4>2. Finish(status) \in Standing
        BY StandingTypes DEF Dones
      <4>3. q' \in [Questions -> Standing]
        BY <4>1, <4>2, <1>s, Updates DEF JobTypes, Ends, Puts
      <4>4. parts' \in [Questions -> Jobs \cup {0}]
        BY <4>1, <1>s, Updates DEF JobTypes, Ends
      <4>5. QED
        BY <4>3, <4>4
    <3>2. CASE \E r \in Standing : Puts(x, r) /\ UNCHANGED parts
      BY <3>2, <1>s, Updates DEF JobTypes, Puts
    <3>3. QED
      BY <1>15, <1>s, <3>1, <3>2, QuestionShape
  <2>3. QED
    BY <2>1, <2>2, <1>s DEF JobTypes, Stays, jobVars, artifactVars
<1> QED
  BY <1>0, <1>1, <1>2, <1>3, <1>4, <1>5, <1>6, <1>7, <1>8, <1>9, <1>10, <1>11, <1>12, <1>13,
     <1>14, <1>15, StepShapes

(* Questions.                                                               *)
LEMMA AskedStep ==
    ASSUME JobTypes, AskedInv, [Next]_vars
    PROVE  AskedInv'
<1>s. JobTypes /\ AskedInv
  OBVIOUS
<1>0. CASE UNCHANGED vars
  BY <1>0, <1>s DEF vars, dirVars, cacheVars, jobVars, runVars, artifactVars, AskedInv
<1>1. CASE Environment
  BY <1>1, <1>s DEF Environment, cacheVars, jobVars, runVars, artifactVars, AskedInv
<1>2. CASE Leaves
  BY <1>2, <1>s DEF Leaves, Exits, dirVars, cacheVars, artifactVars, AskedInv, Waiting, None
<1>3. CASE Reports
  BY <1>3, <1>s DEF Reports, Exits, dirVars, cacheVars, artifactVars, AskedInv, Waiting, None
<1>4. ASSUME NEW s \in Steps, NEW u \in UseCases, Begins(s, u) PROVE AskedInv'
  BY <1>4, <1>s DEF Begins, dirVars, cacheVars, runVars, artifactVars, AskedInv
<1>5. CASE Identified
  BY <1>5, <1>s DEF Identified, Goes, dirVars, cacheVars, runVars, artifactVars, AskedInv
<1>6. CASE Reuses
  BY <1>6, <1>s DEF Reuses, Goes, CacheMoves, dirVars, cacheVars, runVars, artifactVars,
     AskedInv
<1>7. CASE Clearing
  BY <1>7, <1>s DEF Clearing, CacheMoves, dirVars, cacheVars, runVars, artifactVars, AskedInv
<1>8. CASE Copying
  BY <1>8, <1>s DEF Copying, CacheMoves, dirVars, runVars, artifactVars, AskedInv
<1>9. CASE Marking
  BY <1>9, <1>s DEF Marking, Goes, CacheMoves, dirVars, cacheVars, jobVars, runVars,
     artifactVars, AskedInv
<1>10. CASE Renaming
  BY <1>10, <1>s DEF Renaming, Goes, CacheMoves, dirVars, runVars, artifactVars, AskedInv
<1>11. CASE ServerStarts
  BY <1>11, <1>s DEF ServerStarts, Goes, dirVars, cacheVars, runVars, artifactVars, AskedInv
<1>12. ASSUME NEW rows \in SUBSET Questions, Ready(rows) PROVE AskedInv'
  BY <1>12, <1>s DEF Ready, Goes, dirVars, cacheVars, artifactVars, AskedInv
<1>13. CASE WriteTrace
  BY <1>13, <1>s DEF WriteTrace, Goes, Moves, dirVars, cacheVars, runVars, AskedInv
<1>14. CASE WriteOut
  BY <1>14, <1>s DEF WriteOut, Goes, Moves, dirVars, cacheVars, runVars, AskedInv
<1>15. ASSUME NEW x \in Questions, Question(x) PROVE AskedInv'
  <2>1. /\ q \in [Questions -> Standing]
        /\ \A y \in Questions \ {x} : y \in outage' => y \in outage
    BY <1>15, <1>s, QuestionShape DEF JobTypes
  <2>2. CASE \E status \in {"infra", "scored"} : Ends(x, status) /\ (status = "scored" => x \notin outage')
    BY <2>1, <2>2, <1>s DEF Ends, Puts, Finish, Waiting, None, AskedInv
  <2>3. CASE \E r \in Standing : /\ Puts(x, r) /\ r.status = None /\ r.at # "done"
                                 /\ r.at \in {"tools", "grading"} => x \notin outage'
    BY <2>1, <2>3, <1>s DEF Puts, None, AskedInv
  <2>4. QED
    BY <1>15, <1>s, <2>2, <2>3, QuestionShape
<1> QED
  BY <1>0, <1>1, <1>2, <1>3, <1>4, <1>5, <1>6, <1>7, <1>8, <1>9, <1>10, <1>11, <1>12, <1>13,
     <1>14, <1>15, StepShapes

(* Once every question is done, a valid run has scored enough of them.      *)
LEMMA EnoughScored ==
    ASSUME JobTypes, AskedInv, Done, Valid
    PROVE  Cardinality(Scored) + MaxInfra >= Cardinality(Questions)
<1>1. IsFiniteSet(loaded) /\ loaded \subseteq Questions /\ MaxInfra \in Nat
  BY EvalConstantsOK, FS_Subset DEF JobTypes
<1>2. loaded = Scored \cup Failed
  <2>1. \A x \in loaded : q[x].status \in {"infra", "scored"}
    BY <1>1 DEF JobTypes, AskedInv, Done, Standing
  <2>2. QED
    BY <2>1 DEF Scored, Failed
<1>3. IsFiniteSet(Scored) /\ IsFiniteSet(Failed)
  BY <1>1, FS_Subset DEF Scored, Failed
<1>4. /\ Cardinality(Scored) \in Nat /\ Cardinality(Failed) \in Nat
      /\ Cardinality(Scored \cap Failed) \in Nat
  <2>1. IsFiniteSet(Scored \cap Failed)
    BY <1>3, FS_Subset
  <2>2. QED
    BY <1>3, <2>1, FS_CardinalityType
<1>5. Cardinality(loaded) = Cardinality(Scored) + Cardinality(Failed) - Cardinality(Scored \cap Failed)
  BY <1>2, <1>3, FS_Union
<1>6. Cardinality(loaded) = Cardinality(Questions) /\ Cardinality(Failed) <= MaxInfra
  BY DEF Valid
<1>7. QED
  BY <1>1, <1>4, <1>5, <1>6

(* The verdict.                                                             *)
LEMMA VerdictStep ==
    ASSUME VerdictInv, JobTypes, AskedInv, [Next]_vars
    PROVE  VerdictInv'
<1>s. VerdictInv /\ JobTypes /\ AskedInv
  OBVIOUS
<1>0. CASE UNCHANGED vars
  <2>1. UNCHANGED <<job, at, case, rc, loaded, q, aborted, out>>
    BY <1>0 DEF vars, jobVars, runVars, artifactVars
  <2>2. Valid' <=> Valid
    BY <2>1 DEF Valid, Failed, Office
  <2>3. QED
    BY <1>s, <2>1, <2>2 DEF VerdictInv, Office
<1>1. CASE Environment
  <2>1. UNCHANGED <<job, at, case, rc, loaded, q, aborted, out>>
    BY <1>1 DEF Environment, jobVars, runVars, artifactVars
  <2>2. Valid' <=> Valid
    BY <2>1 DEF Valid, Failed, Office
  <2>3. QED
    BY <1>s, <2>1, <2>2 DEF VerdictInv, Office
<1>2. CASE Leaves
  BY <1>2, <1>s DEF Leaves, Exits, dirVars, cacheVars, artifactVars, VerdictInv, NotYet,
     KilledCode
<1>3. CASE Reports
  BY <1>3, <1>s DEF Reports, Exits, dirVars, cacheVars, artifactVars, VerdictInv, NotYet
<1>4. ASSUME NEW s \in Steps, NEW u \in UseCases, Begins(s, u) PROVE VerdictInv'
  BY <1>4, <1>s DEF Begins, dirVars, cacheVars, runVars, artifactVars, VerdictInv, NotYet
<1>5. CASE Identified
  BY <1>5, <1>s DEF Identified, Goes, dirVars, cacheVars, runVars, artifactVars, VerdictInv
<1>6. CASE Reuses
  BY <1>6, <1>s DEF Reuses, Goes, CacheMoves, dirVars, cacheVars, runVars, artifactVars,
     VerdictInv
<1>7. CASE Clearing
  BY <1>7, <1>s DEF Clearing, CacheMoves, dirVars, cacheVars, runVars, artifactVars, VerdictInv
<1>8. CASE Copying
  BY <1>8, <1>s DEF Copying, CacheMoves, dirVars, runVars, artifactVars, VerdictInv
<1>9. CASE Marking
  BY <1>9, <1>s DEF Marking, Goes, CacheMoves, dirVars, cacheVars, jobVars, runVars,
     artifactVars, VerdictInv
<1>10. CASE Renaming
  BY <1>10, <1>s DEF Renaming, Goes, CacheMoves, dirVars, runVars, artifactVars, VerdictInv
<1>11. CASE ServerStarts
  BY <1>11, <1>s DEF ServerStarts, Goes, dirVars, cacheVars, runVars, artifactVars, VerdictInv
<1>12. ASSUME NEW rows \in SUBSET Questions, Ready(rows) PROVE VerdictInv'
  BY <1>12, <1>s DEF Ready, Goes, dirVars, cacheVars, artifactVars, VerdictInv
<1>13. CASE WriteTrace
  <2>1. UNCHANGED <<job, case, rc, loaded, q, aborted, out>>
    BY <1>13 DEF WriteTrace, Moves, runVars
  <2>2. Valid' <=> Valid
    BY <2>1 DEF Valid, Failed, Office
  <2>3. \/ at = "asking" /\ at' = "traced"
        \/ at = "written" /\ at' = "reporting"
    BY <1>13 DEF WriteTrace, Goes
  <2>4. QED
    BY <1>s, <2>1, <2>2, <2>3 DEF VerdictInv
<1>14. CASE WriteOut
  <2>1. Done /\ out' = Artifact /\ at' \in {"written", "reporting"} /\ (at' = "written" => Office)
    BY <1>14 DEF WriteOut, Goes, Moves
  <2>2. UNCHANGED <<job, case, rc, loaded, q, aborted>> /\ rc = NotYet
    BY <1>14, <1>s DEF WriteOut, Goes, Moves, runVars, VerdictInv
  <2>3. out'.by = job /\ out'.valid = Valid /\ out'.scored = Scored
    BY <2>1 DEF Artifact
  <2>4. Valid => Cardinality(Scored) + MaxInfra >= Cardinality(Questions)
    BY <1>s, <2>1, EnoughScored
  <2>5. Valid' <=> Valid
    BY <2>2 DEF Valid, Failed, Office
  <2>6. QED
    BY <1>s, <2>1, <2>2, <2>3, <2>4, <2>5 DEF VerdictInv, NotYet, Office
<1>15. ASSUME NEW x \in Questions, Question(x) PROVE VerdictInv'
  <2>1. Stays
    BY <1>15, <1>s, QuestionShape
  <2>2. QED
    BY <2>1, <1>s DEF Stays, jobVars, artifactVars, VerdictInv, Office
<1> QED
  BY <1>0, <1>1, <1>2, <1>3, <1>4, <1>5, <1>6, <1>7, <1>8, <1>9, <1>10, <1>11, <1>12, <1>13,
     <1>14, <1>15, StepShapes

(* The names.                                                               *)
LEMMA NamesStep ==
    ASSUME NamesInv, VerdictInv, JobTypes, AskedInv, [Next]_vars
    PROVE  NamesInv'
<1>s. NamesInv /\ VerdictInv /\ JobTypes /\ AskedInv
  OBVIOUS
<1>0. CASE UNCHANGED vars
  BY <1>0, <1>s DEF vars, dirVars, cacheVars, jobVars, runVars, artifactVars, NamesInv, Forced,
     TraceOut
<1>1. CASE Environment
  BY <1>1, <1>s DEF Environment, cacheVars, jobVars, runVars, artifactVars, NamesInv, Forced,
     TraceOut
<1>2. CASE Leaves
  BY <1>2, <1>s DEF Leaves, Exits, dirVars, cacheVars, artifactVars, NamesInv, Forced, TraceOut
<1>3. CASE Reports
  BY <1>3, <1>s DEF Reports, Exits, dirVars, cacheVars, artifactVars, NamesInv, Forced, TraceOut
<1>4. ASSUME NEW s \in Steps, NEW u \in UseCases, Begins(s, u) PROVE NamesInv'
  BY <1>4, <1>s DEF Begins, dirVars, cacheVars, runVars, artifactVars, NamesInv, Forced,
     TraceOut
<1>5. CASE Identified
  BY <1>5, <1>s DEF Identified, Goes, dirVars, cacheVars, runVars, artifactVars, NamesInv,
     Forced, TraceOut
<1>6. CASE Reuses
  BY <1>6, <1>s DEF Reuses, Goes, CacheMoves, dirVars, cacheVars, runVars, artifactVars,
     NamesInv, Forced, TraceOut
<1>7. CASE Clearing
  BY <1>7, <1>s DEF Clearing, CacheMoves, dirVars, cacheVars, runVars, artifactVars, NamesInv,
     Forced, TraceOut
<1>8. CASE Copying
  BY <1>8, <1>s DEF Copying, CacheMoves, dirVars, runVars, artifactVars, NamesInv, Forced,
     TraceOut
<1>9. CASE Marking
  BY <1>9, <1>s DEF Marking, Goes, CacheMoves, dirVars, cacheVars, jobVars, runVars,
     artifactVars, NamesInv, Forced, TraceOut
<1>10. CASE Renaming
  BY <1>10, <1>s DEF Renaming, Goes, CacheMoves, dirVars, runVars, artifactVars, NamesInv,
     Forced, TraceOut
<1>11. CASE ServerStarts
  BY <1>11, <1>s DEF ServerStarts, Goes, dirVars, cacheVars, runVars, artifactVars, NamesInv,
     Forced, TraceOut
<1>12. ASSUME NEW rows \in SUBSET Questions, Ready(rows) PROVE NamesInv'
  BY <1>12, <1>s DEF Ready, Goes, dirVars, cacheVars, artifactVars, NamesInv, Forced, TraceOut,
     Free, Exists
<1>13. CASE WriteTrace
  BY <1>13, <1>s DEF WriteTrace, Goes, Moves, dirVars, cacheVars, runVars, NamesInv, Forced,
     TraceOut, VerdictInv, Office
<1>14. CASE WriteOut
  BY <1>14, <1>s DEF WriteOut, Goes, Moves, dirVars, cacheVars, runVars, NamesInv, Forced,
     TraceOut
<1>15. ASSUME NEW x \in Questions, Question(x) PROVE NamesInv'
  <2>1. Stays /\ q[x].at # "done" /\ q \in [Questions -> Standing]
    BY <1>15, <1>s, QuestionShape DEF JobTypes
  <2>2. UNCHANGED <<job, at, case, out, trace>> /\ at = "asking"
    BY <2>1 DEF Stays, jobVars, artifactVars
  <2>3. \A y \in Questions : q'[y].at # "done" => q[y].at # "done" /\ parts'[y] = parts[y]
    <3>1. CASE \E status \in {"infra", "scored"} : Ends(x, status)
      BY <2>1, <3>1, <1>s DEF Ends, Puts, Finish, Waiting, JobTypes
    <3>2. CASE \E r \in Standing : Puts(x, r) /\ UNCHANGED parts
      BY <2>1, <3>2 DEF Puts
    <3>3. QED
      BY <1>15, <1>s, <3>1, <3>2, QuestionShape
  <2>4. QED
    BY <1>s, <2>2, <2>3 DEF NamesInv, Forced, TraceOut
<1> QED
  BY <1>0, <1>1, <1>2, <1>3, <1>4, <1>5, <1>6, <1>7, <1>8, <1>9, <1>10, <1>11, <1>12, <1>13,
     <1>14, <1>15, StepShapes

(* What a step does to the cache keeps it one.                             *)
LEMMA FileInDir ==
    ASSUME NEW d \in [Models -> Dir], NEW m \in Models, NEW f \in Shards, NEW v \in Content
    PROVE  [d EXCEPT ![m].files[f] = v] \in [Models -> Dir]
<1>1. d[m] \in Dir
  OBVIOUS
<1>2. [d[m] EXCEPT !.files[f] = v] \in Dir
  BY <1>1 DEF Dir
<1>3. [d EXCEPT ![m].files[f] = v] = [d EXCEPT ![m] = [d[m] EXCEPT !.files[f] = v]]
  OBVIOUS
<1>4. QED
  BY <1>2, <1>3

(* Marking a copy changes none of its files.                              *)
LEMMA MarkInDir ==
    ASSUME NEW d \in [Models -> Dir], NEW m \in Models, NEW b \in BOOLEAN
    PROVE  /\ [d EXCEPT ![m].mark = b] \in [Models -> Dir]
           /\ [d EXCEPT ![m].mark = b][m].files = d[m].files
<1>1. d[m] \in Dir
  OBVIOUS
<1>2. [d[m] EXCEPT !.mark = b] \in Dir /\ [d[m] EXCEPT !.mark = b].files = d[m].files
  BY <1>1 DEF Dir
<1>3. [d EXCEPT ![m].mark = b] = [d EXCEPT ![m] = [d[m] EXCEPT !.mark = b]]
  OBVIOUS
<1>4. QED
  BY <1>2, <1>3

(* Clearing, copying, marking and renaming keep the cache in its type.    *)
LEMMA CacheTypes ==
    ASSUME CacheTypeOK, NEW m \in Models
    PROVE  /\ Clears(m) => CacheTypeOK'
           /\ \A s, f : f \in Shards /\ Copies(m, s, f) => CacheTypeOK'
           /\ Marks(m) => CacheTypeOK' /\ partial'[m].files = partial[m].files
           /\ Renames(m) => CacheTypeOK' /\ copy'[m].files = partial[m].files
<1>c. copy \in [Models -> Dir] /\ partial \in [Models -> Dir]
  BY DEF CacheTypeOK
<1>a. Absent \in Content /\ Cut \in Content /\ Saves \subseteq Content
  BY DEF Content
<1>e. Empty \in Dir
  BY <1>a DEF Empty, Nothing, Dir
<1>1. ASSUME Clears(m) PROVE CacheTypeOK'
  <2>1. CASE Without(copy, m) /\ UNCHANGED partial
    <3>1. \/ copy' = [copy EXCEPT ![m].mark = FALSE]
          \/ \E f \in Shards : copy' = [copy EXCEPT ![m].files[f] = Absent]
      BY <2>1 DEF Without
    <3>2. [copy EXCEPT ![m].mark = FALSE] \in [Models -> Dir]
      BY <1>c, MarkInDir
    <3>3. \A f \in Shards : [copy EXCEPT ![m].files[f] = Absent] \in [Models -> Dir]
      BY <1>c, <1>a, FileInDir
    <3>4. copy' \in [Models -> Dir]
      BY <3>1, <3>2, <3>3, Zenon
    <3>5. QED
      BY <1>c, <2>1, <3>4 DEF CacheTypeOK
  <2>2. CASE Without(partial, m) /\ UNCHANGED copy
    <3>1. \/ partial' = [partial EXCEPT ![m].mark = FALSE]
          \/ \E f \in Shards : partial' = [partial EXCEPT ![m].files[f] = Absent]
      BY <2>2 DEF Without
    <3>2. [partial EXCEPT ![m].mark = FALSE] \in [Models -> Dir]
      BY <1>c, MarkInDir
    <3>3. \A f \in Shards : [partial EXCEPT ![m].files[f] = Absent] \in [Models -> Dir]
      BY <1>c, <1>a, FileInDir
    <3>4. partial' \in [Models -> Dir]
      BY <3>1, <3>2, <3>3, Zenon
    <3>5. QED
      BY <1>c, <2>2, <3>4 DEF CacheTypeOK
  <2>3. QED
    BY <1>1, <2>1, <2>2 DEF Clears
<1>2. ASSUME NEW s, NEW f \in Shards, Copies(m, s, f) PROVE CacheTypeOK'
  <2>1. \E v \in Content : partial' = [partial EXCEPT ![m].files[f] = v]
    BY <1>2, <1>a DEF Copies
  <2>2. copy' = copy
    BY <1>2 DEF Copies
  <2>3. QED
    BY <1>c, <2>1, <2>2, FileInDir DEF CacheTypeOK
<1>3. ASSUME Marks(m) PROVE CacheTypeOK' /\ partial'[m].files = partial[m].files
  <2>1. partial' = [partial EXCEPT ![m].mark = TRUE] /\ copy' = copy
    BY <1>3 DEF Marks
  <2>2. QED
    BY <1>c, <2>1, MarkInDir DEF CacheTypeOK
<1>4. ASSUME Renames(m) PROVE CacheTypeOK' /\ copy'[m].files = partial[m].files
  BY <1>4, <1>c, <1>e DEF Renames, CacheTypeOK
<1>5. QED
  BY <1>1, <1>2, <1>3, <1>4

(* The cache, and what is loaded from it.                                   *)
LEMMA CacheStep ==
    ASSUME CacheInv, JobTypes, AskedInv, [Next]_vars
    PROVE  CacheInv'
<1>s. CacheInv /\ JobTypes /\ AskedInv
  OBVIOUS
<1>0. CASE UNCHANGED vars
  BY <1>0, <1>s DEF vars, dirVars, cacheVars, jobVars, runVars, artifactVars, CacheInv,
     CacheTypeOK, Places, Staging, Serving
<1>1. CASE Environment
  BY <1>1, <1>s DEF Environment, cacheVars, jobVars, runVars, artifactVars, CacheInv,
     CacheTypeOK, Places, Staging, Serving
<1>2. CASE Leaves
  BY <1>2, <1>s DEF Leaves, Exits, dirVars, cacheVars, artifactVars, CacheInv, CacheTypeOK,
     Places, Staging, Serving
<1>3. CASE Reports
  BY <1>3, <1>s DEF Reports, Exits, dirVars, cacheVars, artifactVars, CacheInv, CacheTypeOK,
     Places, Staging, Serving
<1>4. ASSUME NEW s \in Steps, NEW u \in UseCases, Begins(s, u) PROVE CacheInv'
  BY <1>4, <1>s DEF Begins, dirVars, cacheVars, runVars, artifactVars, CacheInv, CacheTypeOK,
     Places, Staging, Serving
<1>5. CASE Identified
  <2>1. /\ ident' \in Models /\ at = "preflight" /\ at' = (IF job \in Staged THEN "cache" ELSE "starting")
        /\ UNCHANGED <<job, served>> /\ CacheTypeOK'
        /\ copy' = copy /\ served' = Nothing
    BY <1>5, <1>s DEF Identified, Goes, cacheVars, verify, verify_hf_dir, identity, CacheTypeOK, CacheInv, Places, Staging, Serving
  <2>2. QED
    BY <2>1, <1>s DEF CacheInv, Places, Staging, Serving
<1>6. CASE Reuses
  <2>1. /\ at = "cache" /\ at' = "starting" /\ copy[ident].files = ident
        /\ UNCHANGED <<job, served, ident, copy, partial>>
    BY <1>6 DEF Reuses, Goes, CacheMoves, cacheVars, Reusable, same_model, identity
  <2>2. QED
    BY <2>1, <1>s DEF CacheInv, Places, Staging, Serving, CacheTypeOK
<1>7. CASE Clearing
  <2>1. at \in {"cache", "clearing"} /\ at' \in {"clearing", "copying"} /\ UNCHANGED <<job, served, ident>>
    BY <1>7 DEF Clearing, CacheMoves
  <2>2. CacheTypeOK' /\ ident \in Models
    <3>1. ident \in Models /\ CacheTypeOK
      BY <1>s, <2>1 DEF CacheInv
    <3>2. Clears(ident) \/ UNCHANGED cacheVars
      BY <1>7 DEF Clearing
    <3>3. UNCHANGED cacheVars => CacheTypeOK'
      BY <3>1 DEF cacheVars, CacheTypeOK
    <3>4. ASSUME NEW m \in Models, m = ident, Clears(ident) PROVE CacheTypeOK'
      <4>1. Clears(m)
        BY <3>4 DEF Clears, Without
      <4>2. QED
        BY <3>1, <4>1, CacheTypes
    <3>5. QED
      BY <3>1, <3>2, <3>3, <3>4, Zenon
  <2>3. QED
    BY <2>1, <2>2, <1>s DEF CacheInv, Places, Staging, Serving
<1>8. CASE Copying
  <2>1. at = "copying" /\ at' = at /\ UNCHANGED <<job, served, ident>>
    BY <1>8 DEF Copying, CacheMoves
  <2>2. CacheTypeOK' /\ ident \in Models
    BY <1>8, <1>s, <2>1, CacheTypes DEF Copying, CacheInv
  <2>3. QED
    BY <2>1, <2>2, <1>s DEF CacheInv, Places, Staging, Serving
<1>9. CASE Marking
  <2>1. /\ at = "copying" /\ at' = "marked" /\ UNCHANGED <<job, served, ident>>
        /\ partial[ident].files = ident
    BY <1>9 DEF Marking, CacheMoves, CopyMatches, same_model, identity
  <2>2. CacheTypeOK' /\ partial'[ident].files = ident /\ ident \in Models
    BY <1>9, <1>s, <2>1, CacheTypes DEF Marking, CacheInv
  <2>3. QED
    BY <2>1, <2>2, <1>s DEF CacheInv, Places, Staging, Serving
<1>10. CASE Renaming
  <2>1. at = "marked" /\ at' = "starting" /\ UNCHANGED <<job, served, ident>>
    BY <1>10 DEF Renaming, Goes, CacheMoves
  <2>2. CacheTypeOK' /\ copy'[ident].files = ident /\ ident \in Models
    BY <1>10, <1>s, <2>1, CacheTypes DEF Renaming, CacheInv
  <2>3. QED
    BY <2>1, <2>2, <1>s DEF CacheInv, Places, Staging, Serving
<1>11. CASE ServerStarts
  <2>1. /\ at = "starting" /\ at' = "healthy" /\ UNCHANGED <<job, ident, copy, partial>>
        /\ job \in Staged => served' = copy[ident].files
    BY <1>11 DEF ServerStarts, Goes, SERVE_PATH, cacheVars
  <2>2. QED
    BY <2>1, <1>s DEF CacheInv, Places, Staging, Serving, CacheTypeOK
<1>12. ASSUME NEW rows \in SUBSET Questions, Ready(rows) PROVE CacheInv'
  <2>1. UNCHANGED <<copy, partial, ident, served, job>> /\ at \in Serving /\ at' \in Serving
    BY <1>12, <1>s DEF Ready, Goes, cacheVars, Serving
  <2>2. QED
    BY <2>1, <1>s DEF CacheInv, CacheTypeOK, Places, Staging, Serving
<1>13. CASE WriteTrace
  <2>1. UNCHANGED <<copy, partial, ident, served, job>> /\ at \in Serving /\ at' \in Serving
    BY <1>13, <1>s DEF WriteTrace, Goes, Moves, cacheVars, Serving
  <2>2. QED
    BY <2>1, <1>s DEF CacheInv, CacheTypeOK, Places, Staging, Serving
<1>14. CASE WriteOut
  <2>1. UNCHANGED <<copy, partial, ident, served, job>> /\ at \in Serving /\ at' \in Serving
    BY <1>14, <1>s DEF WriteOut, Goes, Moves, cacheVars, Serving
  <2>2. QED
    BY <2>1, <1>s DEF CacheInv, CacheTypeOK, Places, Staging, Serving
<1>15. ASSUME NEW x \in Questions, Question(x) PROVE CacheInv'
  <2>1. UNCHANGED <<job, at, served, ident, copy, partial>>
    BY <1>15, <1>s, QuestionShape DEF Stays, jobVars, cacheVars
  <2>2. QED
    BY <2>1, <1>s DEF CacheInv, CacheTypeOK
<1> QED
  BY <1>0, <1>1, <1>2, <1>3, <1>4, <1>5, <1>6, <1>7, <1>8, <1>9, <1>10, <1>11, <1>12, <1>13,
     <1>14, <1>15, StepShapes

(* What EvidenceStays says of one step: no name that is taken is written.   *)
Evident ==
    /\ out' # out => out = NoArtifact \/ job \in Overwrite
    /\ trace' # trace => trace = 0 \/ job \in Overwrite
    /\ \A x \in Questions : parts'[x] # parts[x] => parts[x] = 0 \/ job \in Overwrite
    /\ \A x \in Questions : (q[x].at # "done" /\ q'[x].at = "done") => parts'[x] = job

(* No step replaces evidence, or records for a job what another asked.    *)
LEMMA EvidentStep ==
    ASSUME JobTypes, AskedInv, VerdictInv, NamesInv, [Next]_vars
    PROVE  Evident
<1>s. JobTypes /\ AskedInv /\ VerdictInv /\ NamesInv
  OBVIOUS
<1>r. (\A x \in Questions : q'[x] = Waiting) \/ UNCHANGED q => \A x \in Questions : q'[x].at = "done" => q[x].at = "done"
  BY DEF Waiting
<1>0. CASE UNCHANGED <<out, trace, parts>> /\ (q' = q \/ q' = [x \in Questions |-> Waiting])
  BY <1>0, <1>r DEF Evident
<1>1. CASE WriteTrace
  BY <1>1, <1>s DEF WriteTrace, Goes, Moves, runVars, Evident, NamesInv, Forced, TraceOut, VerdictInv, Office
<1>2. CASE WriteOut
  BY <1>2, <1>s DEF WriteOut, Goes, Moves, runVars, Evident, NamesInv, Forced, VerdictInv
<1>3. ASSUME NEW x \in Questions, Question(x) PROVE Evident
  <2>1. Stays /\ q[x].at # "done" /\ q \in [Questions -> Standing] /\ parts \in [Questions -> Jobs \cup {0}]
    BY <1>3, <1>s, QuestionShape DEF JobTypes
  <2>2. UNCHANGED <<out, trace>> /\ (job \notin Overwrite => parts[x] = 0)
    BY <2>1, <1>s DEF Stays, artifactVars, NamesInv, Forced
  <2>3. CASE \E status \in {"infra", "scored"} : Ends(x, status)
    BY <2>1, <2>2, <2>3 DEF Ends, Puts, Evident
  <2>4. CASE \E r \in Standing : Puts(x, r) /\ UNCHANGED parts /\ r.at # "done"
    BY <2>1, <2>2, <2>4 DEF Puts, Evident
  <2>5. QED
    BY <1>3, <1>s, <2>3, <2>4, QuestionShape
<1>4. UNCHANGED vars \/ Environment \/ Identified \/ Reuses \/ Clearing \/ Copying \/ Marking \/ Renaming \/ ServerStarts
        => UNCHANGED <<out, trace, parts, q>>
  BY DEF vars, Environment, Identified, Reuses, Clearing, Copying, Marking, Renaming, ServerStarts,
     CacheMoves, runVars, artifactVars
<1>5. Leaves \/ Reports => UNCHANGED <<out, trace, parts>> /\ q' = [x \in Questions |-> Waiting]
  BY DEF Leaves, Reports, Exits, artifactVars
<1>6. (\E s \in Steps, u \in UseCases : Begins(s, u)) \/ (\E rows \in SUBSET Questions : Ready(rows))
        => UNCHANGED <<out, trace, parts, q>>
  BY DEF Begins, Ready, runVars, artifactVars
<1>7. QED
  BY <1>0, <1>1, <1>2, <1>3, <1>4, <1>5, <1>6, StepShapes

-----------------------------------------------------------------------------
(* aborted is a truth value: it is only ever reset or added to.             *)
LEMMA AbortedStep ==
    ASSUME aborted \in BOOLEAN, JobTypes, AskedInv, [Next]_vars
    PROVE  aborted' \in BOOLEAN
<1>1. \/ aborted' = aborted \/ aborted' = FALSE
      \/ \E x, status : aborted' = (aborted \/ (Office /\ status = "infra"))
  <2>1. ASSUME NEW x \in Questions, Question(x)
        PROVE  aborted' = aborted \/ \E y, status : aborted' = (aborted \/ (Office /\ status = "infra"))
    BY <2>1, QuestionShape DEF Ends
  <2>2. UNCHANGED vars \/ Environment \/ Identified \/ Reuses \/ Clearing \/ Copying \/ Marking \/ Renaming
          \/ ServerStarts \/ WriteTrace \/ WriteOut => aborted' = aborted
    BY DEF vars, Environment, Identified, Reuses, Clearing, Copying, Marking, Renaming, ServerStarts,
       CacheMoves, WriteTrace, WriteOut, Moves, runVars
  <2>3. Leaves \/ Reports => aborted' = FALSE
    BY DEF Leaves, Reports, Exits
  <2>4. (\E s \in Steps, u \in UseCases : Begins(s, u)) \/ (\E rows \in SUBSET Questions : Ready(rows))
          => aborted' = aborted
    BY DEF Begins, Ready, runVars
  <2>5. QED
    BY <2>1, <2>2, <2>3, <2>4, StepShapes
<1>2. QED
  BY <1>1, Zenon

(* The strengthening holds at the start.                                  *)
LEMMA InitIInv == Init => IInv
<1> SUFFICES ASSUME Init PROVE IInv
  OBVIOUS
<1>1. DirInv
  BY RunDirConstantsOK DEF Init, RunDirInit, DirInv, RunDirTypeOK, Nothing, Content
<1>2. CacheInv
  <2>1. Empty \in Dir
    BY DEF Empty, Nothing, Dir, Content
  <2>2. QED
    BY <2>1 DEF Init, CacheInit, CacheInv, CacheTypeOK, Places, Staging, Serving
<1>3. JobTypes
  BY Updates DEF Init, JobTypes, NotYet
<1>4. AskedInv /\ NamesInv
  BY DEF Init, AskedInv, NamesInv, Waiting, None
<1>5. VerdictInv
  BY DEF Init, VerdictInv, NotYet
<1>6. QED
  BY <1>1, <1>2, <1>3, <1>4, <1>5 DEF IInv, Init

(* Every step preserves the strengthening.                                *)
LEMMA NextIInv == IInv /\ [Next]_vars => IInv'
<1> SUFFICES ASSUME IInv, [Next]_vars PROVE IInv'
  OBVIOUS
<1>1. DirInv /\ CacheInv /\ JobTypes /\ aborted \in BOOLEAN /\ AskedInv /\ VerdictInv /\ NamesInv
  BY DEF IInv
<1>2. DirInv'
  <2>1. CASE RunDirNext
    BY <1>1, <2>1, DirStep
  <2>2. CASE UNCHANGED dirVars
    BY <1>1, <2>2 DEF dirVars, DirInv, RunDirTypeOK
  <2>3. \A x \in Questions : Question(x) => UNCHANGED dirVars
    BY <1>1, QuestionShape DEF Stays
  <2>4. UNCHANGED vars \/ Leaves \/ Reports \/ Identified \/ Reuses \/ Clearing \/ Copying \/ Marking \/ Renaming
          \/ ServerStarts \/ WriteTrace \/ WriteOut => UNCHANGED dirVars
    BY DEF vars, dirVars, Leaves, Reports, Exits, Identified, Reuses, Clearing, Copying, Marking, Renaming,
       ServerStarts, CacheMoves, WriteTrace, WriteOut, Moves
  <2>5. (\E s \in Steps, u \in UseCases : Begins(s, u)) \/ (\E rows \in SUBSET Questions : Ready(rows))
          => UNCHANGED dirVars
    BY DEF Begins, Ready
  <2>6. QED
    BY <2>1, <2>2, <2>3, <2>4, <2>5, StepShapes DEF Environment
<1>3. JobTypes' /\ AskedInv' /\ VerdictInv' /\ NamesInv'
  BY <1>1, TypeStep, AskedStep, VerdictStep, NamesStep
<1>4. CacheInv' /\ aborted' \in BOOLEAN
  BY <1>1, CacheStep, AbortedStep
<1>5. QED
  BY <1>2, <1>3, <1>4 DEF IInv

(* The strengthening is an invariant.                                     *)
THEOREM InductiveInvariant == Spec => []IInv
  BY InitIInv, NextIInv, PTL DEF Spec

(* The newest checkpoint that was ever complete can be served, whatever is  *)
(* pruned beside a run that still saves and wherever a delete fails.        *)
THEOREM NewestStaysHolds == Spec => []NewestStays
<1>1. IInv => NewestStays
  <2> SUFFICES ASSUME DirInv, newest # 0 PROVE newest \in list_complete
    BY DEF IInv, NewestStays
  <2>1. newest \in Steps /\ ckpt[newest].manifest
    BY DEF DirInv, RunDirTypeOK
  <2>2. ckpt[newest].files \in [Shards -> SavesOf(newest)]
    BY <2>1 DEF DirInv, RunDirTypeOK
  <2>3. ckpt[newest].files \in Models
    BY <2>1, <2>2 DEF Models
  <2>4. QED
    BY <2>1, <2>3 DEF list_complete, verify, verify_hf_dir
<1>2. QED
  BY <1>1, InductiveInvariant, PTL

(* A job that copied its model serves the model its artifact names,         *)
(* whatever earlier jobs left in the cache and however the checkpoint was   *)
(* pruned or saved again under the copy.                                    *)
THEOREM ArtifactIsTheModelsHolds == Spec => []ArtifactIsTheModels
<1>1. IInv => ArtifactIsTheModels
  BY DEF IInv, CacheInv, ArtifactIsTheModels
<1>2. QED
  BY <1>1, InductiveInvariant, PTL

(* An outage is never scored, a verdict and an exit code are earned, and    *)
(* evidence is not replaced, for every number of questions asked at once.   *)
THEOREM EvidenceIsSoundHolds == Spec => EvidenceIsSound
<1>1. IInv => TypeOK /\ ValidIsTrustworthy
  BY DEF IInv, DirInv, CacheInv, JobTypes, AskedInv, VerdictInv, TypeOK, ValidIsTrustworthy, Standing
<1>2. IInv /\ [Next]_vars => [Evident]_vars
  BY EvidentStep DEF IInv
<1>3. QED
  BY <1>1, <1>2, InductiveInvariant, PTL DEF Spec, EvidenceIsSound, EvidenceStays, Evident
=============================================================================
