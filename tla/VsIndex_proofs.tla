----------------------------- MODULE VsIndex_proofs -----------------------------
(***************************************************************************)
(* VsIndex, and the corpus file beside it, for every number of builds, of  *)
(* sources and of editions, every configuration that keeps indexes, and    *)
(* without the bounds of the model-checked instance: all of a build, a     *)
(* rebuilt corpus and a cleanup may happen at once.                        *)
(***************************************************************************)
EXTENDS VsIndex, FiniteSetTheorems, TLAPS

Tables == [sha : Content, n : Nat]
Stages == {"idle", "exists?", "create", "copy", "verify", "rename", "endpoint", "index", "wait", "ended"}

(* The two files.  While a build may be replacing the corpus there is no    *)
(* manifest, and what a manifest names is a corpus with something in it.   *)
CorpusInv ==
    /\ CorpusTypeOK /\ ManifestDescribes
    /\ build.at # "idle" => build.of \in Corpora
    /\ build.at \in {"unlinked", "written"} => manifest = NoManifest
    /\ build.at = "written" => corpus = build.of
    /\ manifest # NoManifest => manifest.of \in Corpora

(* A running build knows its corpus, so it never touches another's table.  *)
IdentInv == \A r \in Runs : Running(r) => ident[r] \in Corpora

(* Once verified, a staging table stays what it was or is dropped; it       *)
(* carries its build's own name, so no other build loads into it.          *)
StagingInv ==
    \A r \in Runs : at[r] = "rename" /\ staging[r] # NoTable => verify_table(staging[r], ident[r])

WholeInv == \A c \in Corpora : table[c] # NoTable => verify_table(table[c], c)

(* A plan, once made, is what is deleted, however long that takes.          *)
PlanInv ==
    /\ doomed \in [indexes : SUBSET Corpora, tables : SUBSET Corpora, staging : SUBSET Runs]
    /\ (doomed.indexes \cup doomed.tables) \cap Keep = {}

IndexStates == [state : {"none", "pending", "online", "failed"}, n : Nat]

JobTypes ==
    /\ at \in [Runs -> Stages] /\ ident \in [Runs -> Content] /\ polls \in [Runs -> 0..MaxPolls]
    /\ wait \in [Runs -> BOOLEAN] /\ rc \in [Runs -> {NotYet, 0, 1, NOT_READY}]
    /\ table \in [Corpora -> Tables] /\ staging \in [Runs -> Tables]
    /\ endpoint \in {"none", "provisioning", "online", "offline"} /\ index \in [Corpora -> IndexStates]

JobInv == IdentInv /\ StagingInv /\ WholeInv /\ PlanInv

IInv == CorpusInv /\ JobTypes /\ JobInv

(* What KeptIsUntouched says of one step.                                  *)
Kept ==
    \A c \in Corpora : /\ table[c] # NoTable => table'[c] \in {table[c], NoTable}
                       /\ c \in Keep => (table[c] # NoTable => table'[c] # NoTable)
                       /\ c \in Keep => (index[c] # NoIndex => index'[c] # NoIndex)
-----------------------------------------------------------------------------
(* Steps of the proof.  A corpus has a number of rows.                     *)
LEMMA RowsNat == \A c \in Content : rows(c) \in Nat
<1> SUFFICES ASSUME NEW c \in Content PROVE rows(c) \in Nat
  OBVIOUS
<1>1. c.from \subseteq Sources
  BY DEF Content
<1>2. IsFiniteSet(c.from)
  BY <1>1, CorpusConstantsOK, FS_Subset
<1>3. QED
  BY <1>2, FS_CardinalityType DEF rows

(* No corpus is a content, and none that a build collects.                *)
LEMMA NoCorpusType == NoCorpus \in Content /\ NoCorpus \notin Corpora /\ Corpora \subseteq Content
  BY DEF NoCorpus, Content, Corpora

(* The polls stay in their range when they are counted up.                *)
LEMMA PollTypes == 0 \in 0..MaxPolls /\ \A k \in 0..MaxPolls : k < MaxPolls => k + 1 \in 0..MaxPolls
  BY VsConstantsOK

(* Every change that a step makes to a table gives a table.               *)
LEMMA TableTypes ==
    /\ NoTable \in Tables
    /\ \A c \in Content : [NoTable EXCEPT !.sha = c] \in Tables
    /\ \A t \in Tables, n \in Nat : [t EXCEPT !.n = n] \in Tables
  BY NoCorpusType DEF NoTable, Tables

(* Every change that the server makes to an index gives an index.         *)
LEMMA IndexTypes ==
    /\ NoIndex \in IndexStates /\ [state |-> "pending", n |-> 0] \in IndexStates
    /\ \A i \in IndexStates : /\ [state |-> "online", n |-> i.n + 1] \in IndexStates
                              /\ [i EXCEPT !.state = "failed"] \in IndexStates
  BY DEF NoIndex, IndexStates

(* Whatever a build of the corpus does, and wherever it is killed.          *)
LEMMA CorpusStepInv == CorpusInv /\ CorpusNext => CorpusInv'
<1> SUFFICES ASSUME CorpusInv, CorpusNext PROVE CorpusInv'
  OBVIOUS
<1> USE CorpusConstantsOK DEF CorpusInv, CorpusTypeOK, ManifestDescribes, NoManifest, NoBuild, NoCorpus, Content, Corpora
<1>1. ASSUME NEW s \in SUBSET Sources, NEW e \in Editions, NEW b \in BOOLEAN, Collects(s, e, b) PROVE CorpusInv'
  BY <1>1 DEF Collects
<1>2. CASE Unlinks
  BY <1>2 DEF Unlinks, RemovesManifest
<1>3. CASE WritesParquet
  BY <1>3 DEF WritesParquet
<1>4. CASE WritesManifest
  BY <1>4 DEF WritesManifest
<1>5. CASE BuildKilled
  BY <1>5 DEF BuildKilled
<1> HIDE DEF CorpusInv
<1>6. QED
  BY <1>1, <1>2, <1>3, <1>4, <1>5 DEF CorpusNext

(* What a reader takes for its corpus is one, when it takes any.            *)
LEMMA IdentityIsCorpus ==
    ASSUME CorpusInv, NEW b \in BOOLEAN, corpus_identity(b) # NoCorpus
    PROVE  corpus_identity(b) \in Corpora
  BY DEF CorpusInv, corpus_identity

(* A step of a build of the index, of a cleanup, of the server.             *)
LEMMA JobTypeStep ==
    ASSUME CorpusInv, JobTypes, PlanInv, [Next]_vars
    PROVE  JobTypes'
<1>s. CorpusInv /\ JobTypes /\ PlanInv
  OBVIOUS
<1> USE RowsNat, NoCorpusType, PollTypes, TableTypes, IndexTypes, IdentityIsCorpus DEF JobTypes
<1>0. CASE UNCHANGED vars
  BY <1>0, <1>s DEF vars, jobVars, storeVars
<1>1. CASE CleanupPlans
  <2>1. ident' \in [Runs -> Content]
    BY <1>1, <1>s DEF CleanupPlans, jobVars, storeVars, corpusVars
  <2>2. polls' \in [Runs -> 0..MaxPolls]
    BY <1>1, <1>s DEF CleanupPlans, jobVars, storeVars, corpusVars
  <2>3. rc' \in [Runs -> {NotYet, 0, 1, NOT_READY}]
    BY <1>1, <1>s DEF CleanupPlans, jobVars, storeVars, corpusVars
  <2>4. at' \in [Runs -> Stages]
    BY <1>1, <1>s DEF CleanupPlans, jobVars, storeVars, corpusVars, Stages
  <2>5. table' \in [Corpora -> Tables] /\ staging' \in [Runs -> Tables]
    BY <1>1, <1>s DEF CleanupPlans, jobVars, storeVars, corpusVars
  <2>6. endpoint' \in {"none", "provisioning", "online", "offline"}
    BY <1>1, <1>s DEF CleanupPlans, jobVars, storeVars, corpusVars
  <2>7. index' \in [Corpora -> IndexStates]
    BY <1>1, <1>s DEF CleanupPlans, jobVars, storeVars, corpusVars
  <2>8. wait' \in [Runs -> BOOLEAN]
    BY <1>1, <1>s DEF CleanupPlans, jobVars, storeVars, corpusVars
  <2>9. QED
    BY <2>1, <2>2, <2>3, <2>4, <2>5, <2>6, <2>7, <2>8
<1>2. CASE CleanupDeletes
  <2>1. ident' \in [Runs -> Content]
    BY <1>2, <1>s DEF CleanupDeletes, jobVars, corpusVars
  <2>2. polls' \in [Runs -> 0..MaxPolls]
    BY <1>2, <1>s DEF CleanupDeletes, jobVars, corpusVars
  <2>3. rc' \in [Runs -> {NotYet, 0, 1, NOT_READY}]
    BY <1>2, <1>s DEF CleanupDeletes, jobVars, corpusVars
  <2>4. at' \in [Runs -> Stages]
    BY <1>2, <1>s DEF CleanupDeletes, jobVars, corpusVars, Stages
  <2>5. table' \in [Corpora -> Tables] /\ staging' \in [Runs -> Tables]
    BY <1>2, <1>s DEF CleanupDeletes, jobVars, corpusVars
  <2>6. endpoint' \in {"none", "provisioning", "online", "offline"}
    BY <1>2, <1>s DEF CleanupDeletes, jobVars, corpusVars
  <2>7. index' \in [Corpora -> IndexStates]
    BY <1>2, <1>s DEF CleanupDeletes, jobVars, corpusVars
  <2>8. wait' \in [Runs -> BOOLEAN]
    BY <1>2, <1>s DEF CleanupDeletes, jobVars, corpusVars
  <2>9. QED
    BY <2>1, <2>2, <2>3, <2>4, <2>5, <2>6, <2>7, <2>8
<1>3. CASE CleanupFails
  <2>1. ident' \in [Runs -> Content]
    BY <1>3, <1>s DEF CleanupFails, jobVars, storeVars, corpusVars
  <2>2. polls' \in [Runs -> 0..MaxPolls]
    BY <1>3, <1>s DEF CleanupFails, jobVars, storeVars, corpusVars
  <2>3. rc' \in [Runs -> {NotYet, 0, 1, NOT_READY}]
    BY <1>3, <1>s DEF CleanupFails, jobVars, storeVars, corpusVars
  <2>4. at' \in [Runs -> Stages]
    BY <1>3, <1>s DEF CleanupFails, jobVars, storeVars, corpusVars, Stages
  <2>5. table' \in [Corpora -> Tables] /\ staging' \in [Runs -> Tables]
    BY <1>3, <1>s DEF CleanupFails, jobVars, storeVars, corpusVars
  <2>6. endpoint' \in {"none", "provisioning", "online", "offline"}
    BY <1>3, <1>s DEF CleanupFails, jobVars, storeVars, corpusVars
  <2>7. index' \in [Corpora -> IndexStates]
    BY <1>3, <1>s DEF CleanupFails, jobVars, storeVars, corpusVars
  <2>8. wait' \in [Runs -> BOOLEAN]
    BY <1>3, <1>s DEF CleanupFails, jobVars, storeVars, corpusVars
  <2>9. QED
    BY <2>1, <2>2, <2>3, <2>4, <2>5, <2>6, <2>7, <2>8
<1>4. CASE ServerSide
  <2>1. UNCHANGED <<jobVars, table, staging>>
    BY <1>4 DEF ServerSide
  <2>2. endpoint' \in {"none", "provisioning", "online", "offline"}
    BY <1>4, <1>s DEF ServerSide
  <2>3. index' = index \/ \E c \in Corpora, i \in IndexStates : index' = [index EXCEPT ![c] = i]
    <3>1. \A c \in Corpora : index[c] \in IndexStates
      BY <1>s
    <3>2. CASE index' = index
      BY <3>2
    <3>3. ASSUME NEW c \in Corpora, index' = [index EXCEPT ![c] = [state |-> "online", n |-> index[c].n + 1]]
          PROVE  \E d \in Corpora, i \in IndexStates : index' = [index EXCEPT ![d] = i]
      BY <3>1, <3>3, IndexTypes
    <3>4. ASSUME NEW c \in Corpora, index' = [index EXCEPT ![c] = [index[c] EXCEPT !.state = "failed"]]
          PROVE  \E d \in Corpora, i \in IndexStates : index' = [index EXCEPT ![d] = i]
      BY <3>1, <3>4, IndexTypes
    <3>5. QED
      BY <1>4, <3>2, <3>3, <3>4 DEF ServerSide
  <2>4. index' \in [Corpora -> IndexStates]
    BY <2>3, <1>s
  <2>5. QED
    BY <2>1, <2>2, <2>4, <1>s DEF jobVars
<1>5. ASSUME NEW r \in Runs, Looks(r) PROVE JobTypes'
  <2>1. ident' \in [Runs -> Content]
    BY <1>5, <1>s DEF Looks, Shared, Only, Quiet, Exits, storeVars, corpusVars
  <2>2. polls' \in [Runs -> 0..MaxPolls]
    BY <1>5, <1>s DEF Looks, Shared, Only, Quiet, Exits, storeVars, corpusVars
  <2>3. rc' \in [Runs -> {NotYet, 0, 1, NOT_READY}]
    BY <1>5, <1>s DEF Looks, Shared, Only, Quiet, Exits, storeVars, corpusVars
  <2>4. at' \in [Runs -> Stages]
    BY <1>5, <1>s DEF Looks, Shared, Only, Quiet, Exits, storeVars, corpusVars, Stages
  <2>5. table' \in [Corpora -> Tables] /\ staging' \in [Runs -> Tables]
    BY <1>5, <1>s DEF Looks, Shared, Only, Quiet, Exits, storeVars, corpusVars
  <2>6. endpoint' \in {"none", "provisioning", "online", "offline"}
    BY <1>5, <1>s DEF Looks, Shared, Only, Quiet, Exits, storeVars, corpusVars
  <2>7. index' \in [Corpora -> IndexStates]
    BY <1>5, <1>s DEF Looks, Shared, Only, Quiet, Exits, storeVars, corpusVars
  <2>8. wait' = wait \/ \E b \in BOOLEAN : wait' = [wait EXCEPT ![r] = b]
    BY <1>5, <1>s DEF Looks, Shared, Only, Quiet, Exits, storeVars, corpusVars
  <2>9. wait' \in [Runs -> BOOLEAN]
    BY <1>5, <1>s, <2>8, Zenon DEF Looks, Shared, Only, Quiet, Exits, storeVars, corpusVars
  <2>10. QED
    BY <2>1, <2>2, <2>3, <2>4, <2>5, <2>6, <2>7, <2>8, <2>9
<1>6. ASSUME NEW r \in Runs, CreatesStaging(r) PROVE JobTypes'
  <2>1. ident' \in [Runs -> Content]
    BY <1>6, <1>s DEF CreatesStaging, Goes, Shared, Only, Quiet, corpusVars
  <2>2. polls' \in [Runs -> 0..MaxPolls]
    BY <1>6, <1>s DEF CreatesStaging, Goes, Shared, Only, Quiet, corpusVars
  <2>3. rc' \in [Runs -> {NotYet, 0, 1, NOT_READY}]
    BY <1>6, <1>s DEF CreatesStaging, Goes, Shared, Only, Quiet, corpusVars
  <2>4. at' \in [Runs -> Stages]
    BY <1>6, <1>s DEF CreatesStaging, Goes, Shared, Only, Quiet, corpusVars, Stages
  <2>5. table' \in [Corpora -> Tables] /\ staging' \in [Runs -> Tables]
    BY <1>6, <1>s DEF CreatesStaging, Goes, Shared, Only, Quiet, corpusVars
  <2>6. endpoint' \in {"none", "provisioning", "online", "offline"}
    BY <1>6, <1>s DEF CreatesStaging, Goes, Shared, Only, Quiet, corpusVars
  <2>7. index' \in [Corpora -> IndexStates]
    BY <1>6, <1>s DEF CreatesStaging, Goes, Shared, Only, Quiet, corpusVars
  <2>8. wait' = wait \/ \E b \in BOOLEAN : wait' = [wait EXCEPT ![r] = b]
    BY <1>6, <1>s DEF CreatesStaging, Goes, Shared, Only, Quiet, corpusVars
  <2>9. wait' \in [Runs -> BOOLEAN]
    BY <1>6, <1>s, <2>8, Zenon DEF CreatesStaging, Goes, Shared, Only, Quiet, corpusVars
  <2>10. QED
    BY <2>1, <2>2, <2>3, <2>4, <2>5, <2>6, <2>7, <2>8, <2>9
<1>7. ASSUME NEW r \in Runs, VerifiesLoad(r) PROVE JobTypes'
  <2>1. ident' \in [Runs -> Content]
    BY <1>7, <1>s DEF VerifiesLoad, Goes, Shared, Only, Quiet, Exits, storeVars, corpusVars
  <2>2. polls' \in [Runs -> 0..MaxPolls]
    BY <1>7, <1>s DEF VerifiesLoad, Goes, Shared, Only, Quiet, Exits, storeVars, corpusVars
  <2>3. rc' \in [Runs -> {NotYet, 0, 1, NOT_READY}]
    BY <1>7, <1>s DEF VerifiesLoad, Goes, Shared, Only, Quiet, Exits, storeVars, corpusVars
  <2>4. at' \in [Runs -> Stages]
    BY <1>7, <1>s DEF VerifiesLoad, Goes, Shared, Only, Quiet, Exits, storeVars, corpusVars,
       Stages
  <2>5. table' \in [Corpora -> Tables] /\ staging' \in [Runs -> Tables]
    BY <1>7, <1>s DEF VerifiesLoad, Goes, Shared, Only, Quiet, Exits, storeVars, corpusVars
  <2>6. endpoint' \in {"none", "provisioning", "online", "offline"}
    BY <1>7, <1>s DEF VerifiesLoad, Goes, Shared, Only, Quiet, Exits, storeVars, corpusVars
  <2>7. index' \in [Corpora -> IndexStates]
    BY <1>7, <1>s DEF VerifiesLoad, Goes, Shared, Only, Quiet, Exits, storeVars, corpusVars
  <2>8. wait' = wait \/ \E b \in BOOLEAN : wait' = [wait EXCEPT ![r] = b]
    BY <1>7, <1>s DEF VerifiesLoad, Goes, Shared, Only, Quiet, Exits, storeVars, corpusVars
  <2>9. wait' \in [Runs -> BOOLEAN]
    BY <1>7, <1>s, <2>8, Zenon DEF VerifiesLoad, Goes, Shared, Only, Quiet, Exits, storeVars,
       corpusVars
  <2>10. QED
    BY <2>1, <2>2, <2>3, <2>4, <2>5, <2>6, <2>7, <2>8, <2>9
<1>8. ASSUME NEW r \in Runs, Renames(r) PROVE JobTypes'
  <2>1. ident' \in [Runs -> Content]
    BY <1>8, <1>s DEF Renames, Goes, Shared, Only, Quiet, Exits, storeVars, corpusVars
  <2>2. polls' \in [Runs -> 0..MaxPolls]
    BY <1>8, <1>s DEF Renames, Goes, Shared, Only, Quiet, Exits, storeVars, corpusVars
  <2>3. rc' \in [Runs -> {NotYet, 0, 1, NOT_READY}]
    BY <1>8, <1>s DEF Renames, Goes, Shared, Only, Quiet, Exits, storeVars, corpusVars
  <2>4. at' \in [Runs -> Stages]
    BY <1>8, <1>s DEF Renames, Goes, Shared, Only, Quiet, Exits, storeVars, corpusVars, Stages
  <2>5. table' \in [Corpora -> Tables] /\ staging' \in [Runs -> Tables]
    BY <1>8, <1>s DEF Renames, Goes, Shared, Only, Quiet, Exits, storeVars, corpusVars
  <2>6. endpoint' \in {"none", "provisioning", "online", "offline"}
    BY <1>8, <1>s DEF Renames, Goes, Shared, Only, Quiet, Exits, storeVars, corpusVars
  <2>7. index' \in [Corpora -> IndexStates]
    BY <1>8, <1>s DEF Renames, Goes, Shared, Only, Quiet, Exits, storeVars, corpusVars
  <2>8. wait' = wait \/ \E b \in BOOLEAN : wait' = [wait EXCEPT ![r] = b]
    BY <1>8, <1>s DEF Renames, Goes, Shared, Only, Quiet, Exits, storeVars, corpusVars
  <2>9. wait' \in [Runs -> BOOLEAN]
    BY <1>8, <1>s, <2>8, Zenon DEF Renames, Goes, Shared, Only, Quiet, Exits, storeVars,
       corpusVars
  <2>10. QED
    BY <2>1, <2>2, <2>3, <2>4, <2>5, <2>6, <2>7, <2>8, <2>9
<1>9. ASSUME NEW r \in Runs, EndpointCreated(r) PROVE JobTypes'
  <2>1. ident' \in [Runs -> Content]
    BY <1>9, <1>s DEF EndpointCreated, Shared, Only, corpusVars
  <2>2. polls' \in [Runs -> 0..MaxPolls]
    BY <1>9, <1>s DEF EndpointCreated, Shared, Only, corpusVars
  <2>3. rc' \in [Runs -> {NotYet, 0, 1, NOT_READY}]
    BY <1>9, <1>s DEF EndpointCreated, Shared, Only, corpusVars
  <2>4. at' \in [Runs -> Stages]
    BY <1>9, <1>s DEF EndpointCreated, Shared, Only, corpusVars, Stages
  <2>5. table' \in [Corpora -> Tables] /\ staging' \in [Runs -> Tables]
    BY <1>9, <1>s DEF EndpointCreated, Shared, Only, corpusVars
  <2>6. endpoint' \in {"none", "provisioning", "online", "offline"}
    BY <1>9, <1>s DEF EndpointCreated, Shared, Only, corpusVars
  <2>7. index' \in [Corpora -> IndexStates]
    BY <1>9, <1>s DEF EndpointCreated, Shared, Only, corpusVars
  <2>8. wait' = wait \/ \E b \in BOOLEAN : wait' = [wait EXCEPT ![r] = b]
    BY <1>9, <1>s DEF EndpointCreated, Shared, Only, corpusVars
  <2>9. wait' \in [Runs -> BOOLEAN]
    BY <1>9, <1>s, <2>8, Zenon DEF EndpointCreated, Shared, Only, corpusVars
  <2>10. QED
    BY <2>1, <2>2, <2>3, <2>4, <2>5, <2>6, <2>7, <2>8, <2>9
<1>10. ASSUME NEW r \in Runs, EndpointPolled(r) PROVE JobTypes'
  <2>1. ident' \in [Runs -> Content]
    BY <1>10, <1>s DEF EndpointPolled, Shared, Only, Exits, Polls, storeVars, corpusVars
  <2>2. polls' \in [Runs -> 0..MaxPolls]
    BY <1>10, <1>s DEF EndpointPolled, Shared, Only, Exits, Polls, storeVars, corpusVars
  <2>3. rc' \in [Runs -> {NotYet, 0, 1, NOT_READY}]
    BY <1>10, <1>s DEF EndpointPolled, Shared, Only, Exits, Polls, storeVars, corpusVars
  <2>4. at' \in [Runs -> Stages]
    BY <1>10, <1>s DEF EndpointPolled, Shared, Only, Exits, Polls, storeVars, corpusVars, Stages
  <2>5. table' \in [Corpora -> Tables] /\ staging' \in [Runs -> Tables]
    BY <1>10, <1>s DEF EndpointPolled, Shared, Only, Exits, Polls, storeVars, corpusVars
  <2>6. endpoint' \in {"none", "provisioning", "online", "offline"}
    BY <1>10, <1>s DEF EndpointPolled, Shared, Only, Exits, Polls, storeVars, corpusVars
  <2>7. index' \in [Corpora -> IndexStates]
    BY <1>10, <1>s DEF EndpointPolled, Shared, Only, Exits, Polls, storeVars, corpusVars
  <2>8. wait' = wait \/ \E b \in BOOLEAN : wait' = [wait EXCEPT ![r] = b]
    BY <1>10, <1>s DEF EndpointPolled, Shared, Only, Exits, Polls, storeVars, corpusVars
  <2>9. wait' \in [Runs -> BOOLEAN]
    BY <1>10, <1>s, <2>8, Zenon DEF EndpointPolled, Shared, Only, Exits, Polls, storeVars,
       corpusVars
  <2>10. QED
    BY <2>1, <2>2, <2>3, <2>4, <2>5, <2>6, <2>7, <2>8, <2>9
<1>11. ASSUME NEW r \in Runs, EnsuresIndex(r) PROVE JobTypes'
  <2>1. ident' \in [Runs -> Content]
    BY <1>11, <1>s DEF EnsuresIndex, Goes, Shared, Only, Quiet, Exits, corpusVars
  <2>2. polls' \in [Runs -> 0..MaxPolls]
    BY <1>11, <1>s DEF EnsuresIndex, Goes, Shared, Only, Quiet, Exits, corpusVars
  <2>3. rc' \in [Runs -> {NotYet, 0, 1, NOT_READY}]
    BY <1>11, <1>s DEF EnsuresIndex, Goes, Shared, Only, Quiet, Exits, corpusVars
  <2>4. at' \in [Runs -> Stages]
    BY <1>11, <1>s DEF EnsuresIndex, Goes, Shared, Only, Quiet, Exits, corpusVars, Stages
  <2>5. table' \in [Corpora -> Tables] /\ staging' \in [Runs -> Tables]
    BY <1>11, <1>s DEF EnsuresIndex, Goes, Shared, Only, Quiet, Exits, corpusVars
  <2>6. endpoint' \in {"none", "provisioning", "online", "offline"}
    BY <1>11, <1>s DEF EnsuresIndex, Goes, Shared, Only, Quiet, Exits, corpusVars
  <2>7. index' \in [Corpora -> IndexStates]
    BY <1>11, <1>s DEF EnsuresIndex, Goes, Shared, Only, Quiet, Exits, corpusVars
  <2>8. wait' = wait \/ \E b \in BOOLEAN : wait' = [wait EXCEPT ![r] = b]
    BY <1>11, <1>s DEF EnsuresIndex, Goes, Shared, Only, Quiet, Exits, corpusVars
  <2>9. wait' \in [Runs -> BOOLEAN]
    BY <1>11, <1>s, <2>8, Zenon DEF EnsuresIndex, Goes, Shared, Only, Quiet, Exits, corpusVars
  <2>10. QED
    BY <2>1, <2>2, <2>3, <2>4, <2>5, <2>6, <2>7, <2>8, <2>9
<1>12. ASSUME NEW r \in Runs, NoWait(r) PROVE JobTypes'
  <2>1. ident' \in [Runs -> Content]
    BY <1>12, <1>s DEF NoWait, Shared, Exits, storeVars, corpusVars
  <2>2. polls' \in [Runs -> 0..MaxPolls]
    BY <1>12, <1>s DEF NoWait, Shared, Exits, storeVars, corpusVars
  <2>3. rc' \in [Runs -> {NotYet, 0, 1, NOT_READY}]
    BY <1>12, <1>s DEF NoWait, Shared, Exits, storeVars, corpusVars
  <2>4. at' \in [Runs -> Stages]
    BY <1>12, <1>s DEF NoWait, Shared, Exits, storeVars, corpusVars, Stages
  <2>5. table' \in [Corpora -> Tables] /\ staging' \in [Runs -> Tables]
    BY <1>12, <1>s DEF NoWait, Shared, Exits, storeVars, corpusVars
  <2>6. endpoint' \in {"none", "provisioning", "online", "offline"}
    BY <1>12, <1>s DEF NoWait, Shared, Exits, storeVars, corpusVars
  <2>7. index' \in [Corpora -> IndexStates]
    BY <1>12, <1>s DEF NoWait, Shared, Exits, storeVars, corpusVars
  <2>8. wait' = wait \/ \E b \in BOOLEAN : wait' = [wait EXCEPT ![r] = b]
    BY <1>12, <1>s DEF NoWait, Shared, Exits, storeVars, corpusVars
  <2>9. wait' \in [Runs -> BOOLEAN]
    BY <1>12, <1>s, <2>8, Zenon DEF NoWait, Shared, Exits, storeVars, corpusVars
  <2>10. QED
    BY <2>1, <2>2, <2>3, <2>4, <2>5, <2>6, <2>7, <2>8, <2>9
<1>13. ASSUME NEW r \in Runs, WaitsIndex(r) PROVE JobTypes'
  <2>1. ident' \in [Runs -> Content]
    BY <1>13, <1>s DEF WaitsIndex, Shared, Only, Exits, Polls, storeVars, corpusVars
  <2>2. polls' \in [Runs -> 0..MaxPolls]
    BY <1>13, <1>s DEF WaitsIndex, Shared, Only, Exits, Polls, storeVars, corpusVars
  <2>3. rc' \in [Runs -> {NotYet, 0, 1, NOT_READY}]
    BY <1>13, <1>s DEF WaitsIndex, Shared, Only, Exits, Polls, storeVars, corpusVars
  <2>4. at' \in [Runs -> Stages]
    BY <1>13, <1>s DEF WaitsIndex, Shared, Only, Exits, Polls, storeVars, corpusVars, Stages
  <2>5. table' \in [Corpora -> Tables] /\ staging' \in [Runs -> Tables]
    BY <1>13, <1>s DEF WaitsIndex, Shared, Only, Exits, Polls, storeVars, corpusVars
  <2>6. endpoint' \in {"none", "provisioning", "online", "offline"}
    BY <1>13, <1>s DEF WaitsIndex, Shared, Only, Exits, Polls, storeVars, corpusVars
  <2>7. index' \in [Corpora -> IndexStates]
    BY <1>13, <1>s DEF WaitsIndex, Shared, Only, Exits, Polls, storeVars, corpusVars
  <2>8. wait' = wait \/ \E b \in BOOLEAN : wait' = [wait EXCEPT ![r] = b]
    BY <1>13, <1>s DEF WaitsIndex, Shared, Only, Exits, Polls, storeVars, corpusVars
  <2>9. wait' \in [Runs -> BOOLEAN]
    BY <1>13, <1>s, <2>8, Zenon DEF WaitsIndex, Shared, Only, Exits, Polls, storeVars,
       corpusVars
  <2>10. QED
    BY <2>1, <2>2, <2>3, <2>4, <2>5, <2>6, <2>7, <2>8, <2>9
<1>14. ASSUME NEW r \in Runs, Killed(r) PROVE JobTypes'
  <2>1. ident' \in [Runs -> Content]
    BY <1>14, <1>s DEF Killed, Shared, Exits, storeVars, corpusVars
  <2>2. polls' \in [Runs -> 0..MaxPolls]
    BY <1>14, <1>s DEF Killed, Shared, Exits, storeVars, corpusVars
  <2>3. rc' \in [Runs -> {NotYet, 0, 1, NOT_READY}]
    BY <1>14, <1>s DEF Killed, Shared, Exits, storeVars, corpusVars
  <2>4. at' \in [Runs -> Stages]
    BY <1>14, <1>s DEF Killed, Shared, Exits, storeVars, corpusVars, Stages
  <2>5. table' \in [Corpora -> Tables] /\ staging' \in [Runs -> Tables]
    BY <1>14, <1>s DEF Killed, Shared, Exits, storeVars, corpusVars
  <2>6. endpoint' \in {"none", "provisioning", "online", "offline"}
    BY <1>14, <1>s DEF Killed, Shared, Exits, storeVars, corpusVars
  <2>7. index' \in [Corpora -> IndexStates]
    BY <1>14, <1>s DEF Killed, Shared, Exits, storeVars, corpusVars
  <2>8. wait' = wait \/ \E b \in BOOLEAN : wait' = [wait EXCEPT ![r] = b]
    BY <1>14, <1>s DEF Killed, Shared, Exits, storeVars, corpusVars
  <2>9. wait' \in [Runs -> BOOLEAN]
    BY <1>14, <1>s, <2>8, Zenon DEF Killed, Shared, Exits, storeVars, corpusVars
  <2>10. QED
    BY <2>1, <2>2, <2>3, <2>4, <2>5, <2>6, <2>7, <2>8, <2>9
<1>15. ASSUME NEW r \in Runs, NEW n \in 0..rows(corpus), Copies(r, n) PROVE JobTypes'
  <2>1. ident' \in [Runs -> Content]
    BY <1>15, <1>s DEF Copies, Goes, Shared, Only, Quiet, corpusVars
  <2>2. polls' \in [Runs -> 0..MaxPolls]
    BY <1>15, <1>s DEF Copies, Goes, Shared, Only, Quiet, corpusVars
  <2>3. rc' \in [Runs -> {NotYet, 0, 1, NOT_READY}]
    BY <1>15, <1>s DEF Copies, Goes, Shared, Only, Quiet, corpusVars
  <2>4. at' \in [Runs -> Stages]
    BY <1>15, <1>s DEF Copies, Goes, Shared, Only, Quiet, corpusVars, Stages
  <2>5. table' \in [Corpora -> Tables] /\ staging' \in [Runs -> Tables]
    BY <1>15, <1>s DEF Copies, Goes, Shared, Only, Quiet, corpusVars
  <2>6. endpoint' \in {"none", "provisioning", "online", "offline"}
    BY <1>15, <1>s DEF Copies, Goes, Shared, Only, Quiet, corpusVars
  <2>7. index' \in [Corpora -> IndexStates]
    BY <1>15, <1>s DEF Copies, Goes, Shared, Only, Quiet, corpusVars
  <2>8. wait' = wait \/ \E b \in BOOLEAN : wait' = [wait EXCEPT ![r] = b]
    BY <1>15, <1>s DEF Copies, Goes, Shared, Only, Quiet, corpusVars
  <2>9. wait' \in [Runs -> BOOLEAN]
    BY <1>15, <1>s, <2>8, Zenon DEF Copies, Goes, Shared, Only, Quiet, corpusVars
  <2>10. QED
    BY <2>1, <2>2, <2>3, <2>4, <2>5, <2>6, <2>7, <2>8, <2>9
<1>16. ASSUME NEW r \in Runs, NEW w \in BOOLEAN, NEW b \in BOOLEAN, Starts(r, w, b) PROVE JobTypes'
  <2>1. ident' \in [Runs -> Content]
    BY <1>16, <1>s DEF Starts, storeVars, corpusVars
  <2>2. polls' \in [Runs -> 0..MaxPolls]
    BY <1>16, <1>s DEF Starts, storeVars, corpusVars
  <2>3. rc' \in [Runs -> {NotYet, 0, 1, NOT_READY}]
    BY <1>16, <1>s DEF Starts, storeVars, corpusVars
  <2>4. at' \in [Runs -> Stages]
    BY <1>16, <1>s DEF Starts, storeVars, corpusVars, Stages
  <2>5. table' \in [Corpora -> Tables] /\ staging' \in [Runs -> Tables]
    BY <1>16, <1>s DEF Starts, storeVars, corpusVars
  <2>6. endpoint' \in {"none", "provisioning", "online", "offline"}
    BY <1>16, <1>s DEF Starts, storeVars, corpusVars
  <2>7. index' \in [Corpora -> IndexStates]
    BY <1>16, <1>s DEF Starts, storeVars, corpusVars
  <2>8. wait' = wait \/ \E v \in BOOLEAN : wait' = [wait EXCEPT ![r] = v]
    BY <1>16, <1>s DEF Starts, storeVars, corpusVars
  <2>9. wait' \in [Runs -> BOOLEAN]
    BY <1>16, <1>s, <2>8, Zenon DEF Starts, storeVars, corpusVars
  <2>10. QED
    BY <2>1, <2>2, <2>3, <2>4, <2>5, <2>6, <2>7, <2>8, <2>9
<1>18. CASE CorpusStep
  BY <1>18 DEF CorpusStep, jobVars, storeVars
<1> HIDE DEF JobTypes
<1> QED
  BY <1>0, <1>1, <1>2, <1>3, <1>4, <1>5, <1>6, <1>7, <1>8, <1>9, <1>10, <1>11, <1>12, <1>13,
     <1>14, <1>15, <1>16, <1>18
     DEF Next, Build

(* Every step preserves what the builds and the cleanup know of the store. *)
LEMMA JobInvStep ==
    ASSUME CorpusInv, JobTypes, JobTypes', JobInv, [Next]_vars
    PROVE  JobInv'
<1>s. CorpusInv /\ JobTypes /\ JobTypes' /\ JobInv
  OBVIOUS
<1> USE DEF JobInv
<1>0. CASE UNCHANGED vars
  BY <1>0, <1>s DEF vars, jobVars, storeVars, IdentInv, Running, StagingInv, WholeInv, PlanInv, verify_table
<1>1. CASE CleanupPlans
  <2>1. IdentInv'
    BY <1>1, <1>s DEF CleanupPlans, jobVars, storeVars, corpusVars, IdentInv, Running, JobTypes
  <2>2. StagingInv'
    BY <1>1, <1>s DEF CleanupPlans, jobVars, storeVars, corpusVars, StagingInv, verify_table,
       JobTypes
  <2>3. WholeInv'
    BY <1>1, <1>s DEF CleanupPlans, jobVars, storeVars, corpusVars, WholeInv, StagingInv,
       IdentInv, Running, verify_table, JobTypes
  <2>4. PlanInv'
    BY <1>1, <1>s DEF CleanupPlans, jobVars, storeVars, corpusVars, PlanInv, NoPlan, JobTypes,
       Deletable
  <2>5. QED
    BY <2>1, <2>2, <2>3, <2>4
<1>2. CASE CleanupDeletes
  <2>1. IdentInv'
    BY <1>2, <1>s DEF CleanupDeletes, jobVars, corpusVars, IdentInv, Running, JobTypes
  <2>2. StagingInv'
    BY <1>2, <1>s DEF CleanupDeletes, jobVars, corpusVars, StagingInv, verify_table, JobTypes
  <2>3. WholeInv'
    BY <1>2, <1>s DEF CleanupDeletes, jobVars, corpusVars, WholeInv, StagingInv, IdentInv,
       Running, verify_table, JobTypes
  <2>4. PlanInv'
    BY <1>2, <1>s DEF CleanupDeletes, jobVars, corpusVars, PlanInv, NoPlan, JobTypes, Deletable
  <2>5. QED
    BY <2>1, <2>2, <2>3, <2>4
<1>3. CASE CleanupFails
  <2>1. IdentInv'
    BY <1>3, <1>s DEF CleanupFails, jobVars, storeVars, corpusVars, IdentInv, Running, JobTypes
  <2>2. StagingInv'
    BY <1>3, <1>s DEF CleanupFails, jobVars, storeVars, corpusVars, StagingInv, verify_table,
       JobTypes
  <2>3. WholeInv'
    BY <1>3, <1>s DEF CleanupFails, jobVars, storeVars, corpusVars, WholeInv, StagingInv,
       IdentInv, Running, verify_table, JobTypes
  <2>4. PlanInv'
    BY <1>3, <1>s DEF CleanupFails, jobVars, storeVars, corpusVars, PlanInv, NoPlan, JobTypes,
       Deletable
  <2>5. QED
    BY <2>1, <2>2, <2>3, <2>4
<1>4. CASE ServerSide
  <2>1. IdentInv'
    BY <1>4, <1>s DEF ServerSide, jobVars, corpusVars, IdentInv, Running, JobTypes
  <2>2. StagingInv'
    BY <1>4, <1>s DEF ServerSide, jobVars, corpusVars, StagingInv, verify_table, JobTypes
  <2>3. WholeInv'
    BY <1>4, <1>s DEF ServerSide, jobVars, corpusVars, WholeInv, StagingInv, IdentInv, Running,
       verify_table, JobTypes
  <2>4. PlanInv'
    BY <1>4, <1>s DEF ServerSide, jobVars, corpusVars, PlanInv, NoPlan, JobTypes, Deletable
  <2>5. QED
    BY <2>1, <2>2, <2>3, <2>4
<1>5. ASSUME NEW r \in Runs, Looks(r) PROVE JobInv'
  <2>1. IdentInv'
    BY <1>5, <1>s DEF Looks, Shared, Only, Quiet, Exits, storeVars, corpusVars, IdentInv,
       Running, JobTypes
  <2>2. StagingInv'
    BY <1>5, <1>s DEF Looks, Shared, Only, Quiet, Exits, storeVars, corpusVars, StagingInv,
       verify_table, JobTypes
  <2>3. WholeInv'
    BY <1>5, <1>s DEF Looks, Shared, Only, Quiet, Exits, storeVars, corpusVars, WholeInv,
       StagingInv, IdentInv, Running, verify_table, JobTypes
  <2>4. PlanInv'
    BY <1>5, <1>s DEF Looks, Shared, Only, Quiet, Exits, storeVars, corpusVars, PlanInv, NoPlan,
       JobTypes, Deletable
  <2>5. QED
    BY <2>1, <2>2, <2>3, <2>4
<1>6. ASSUME NEW r \in Runs, CreatesStaging(r) PROVE JobInv'
  <2>1. IdentInv'
    BY <1>6, <1>s DEF CreatesStaging, Goes, Shared, Only, Quiet, corpusVars, IdentInv, Running,
       JobTypes
  <2>2. StagingInv'
    BY <1>6, <1>s DEF CreatesStaging, Goes, Shared, Only, Quiet, corpusVars, StagingInv,
       verify_table, JobTypes
  <2>3. WholeInv'
    BY <1>6, <1>s DEF CreatesStaging, Goes, Shared, Only, Quiet, corpusVars, WholeInv,
       StagingInv, IdentInv, Running, verify_table, JobTypes
  <2>4. PlanInv'
    BY <1>6, <1>s DEF CreatesStaging, Goes, Shared, Only, Quiet, corpusVars, PlanInv, NoPlan,
       JobTypes, Deletable
  <2>5. QED
    BY <2>1, <2>2, <2>3, <2>4
<1>7. ASSUME NEW r \in Runs, VerifiesLoad(r) PROVE JobInv'
  <2>1. IdentInv'
    BY <1>7, <1>s DEF VerifiesLoad, Goes, Shared, Only, Quiet, Exits, storeVars, corpusVars,
       IdentInv, Running, JobTypes
  <2>2. StagingInv'
    BY <1>7, <1>s DEF VerifiesLoad, Goes, Shared, Only, Quiet, Exits, storeVars, corpusVars,
       StagingInv, verify_table, JobTypes
  <2>3. WholeInv'
    BY <1>7, <1>s DEF VerifiesLoad, Goes, Shared, Only, Quiet, Exits, storeVars, corpusVars,
       WholeInv, StagingInv, IdentInv, Running, verify_table, JobTypes
  <2>4. PlanInv'
    BY <1>7, <1>s DEF VerifiesLoad, Goes, Shared, Only, Quiet, Exits, storeVars, corpusVars,
       PlanInv, NoPlan, JobTypes, Deletable
  <2>5. QED
    BY <2>1, <2>2, <2>3, <2>4
<1>8. ASSUME NEW r \in Runs, Renames(r) PROVE JobInv'
  <2>1. IdentInv'
    BY <1>8, <1>s DEF Renames, Goes, Shared, Only, Quiet, Exits, storeVars, corpusVars,
       IdentInv, Running, JobTypes
  <2>2. StagingInv'
    BY <1>8, <1>s DEF Renames, Goes, Shared, Only, Quiet, Exits, storeVars, corpusVars,
       StagingInv, verify_table, JobTypes
  <2>3. WholeInv'
    BY <1>8, <1>s DEF Renames, Goes, Shared, Only, Quiet, Exits, storeVars, corpusVars,
       WholeInv, StagingInv, IdentInv, Running, verify_table, JobTypes
  <2>4. PlanInv'
    BY <1>8, <1>s DEF Renames, Goes, Shared, Only, Quiet, Exits, storeVars, corpusVars, PlanInv,
       NoPlan, JobTypes, Deletable
  <2>5. QED
    BY <2>1, <2>2, <2>3, <2>4
<1>9. ASSUME NEW r \in Runs, EndpointCreated(r) PROVE JobInv'
  <2>1. IdentInv'
    BY <1>9, <1>s DEF EndpointCreated, Shared, Only, corpusVars, IdentInv, Running, JobTypes
  <2>2. StagingInv'
    BY <1>9, <1>s DEF EndpointCreated, Shared, Only, corpusVars, StagingInv, verify_table,
       JobTypes
  <2>3. WholeInv'
    BY <1>9, <1>s DEF EndpointCreated, Shared, Only, corpusVars, WholeInv, StagingInv, IdentInv,
       Running, verify_table, JobTypes
  <2>4. PlanInv'
    BY <1>9, <1>s DEF EndpointCreated, Shared, Only, corpusVars, PlanInv, NoPlan, JobTypes,
       Deletable
  <2>5. QED
    BY <2>1, <2>2, <2>3, <2>4
<1>10. ASSUME NEW r \in Runs, EndpointPolled(r) PROVE JobInv'
  <2>1. IdentInv'
    BY <1>10, <1>s DEF EndpointPolled, Shared, Only, Exits, Polls, storeVars, corpusVars,
       IdentInv, Running, JobTypes
  <2>2. StagingInv'
    BY <1>10, <1>s DEF EndpointPolled, Shared, Only, Exits, Polls, storeVars, corpusVars,
       StagingInv, verify_table, JobTypes
  <2>3. WholeInv'
    BY <1>10, <1>s DEF EndpointPolled, Shared, Only, Exits, Polls, storeVars, corpusVars,
       WholeInv, StagingInv, IdentInv, Running, verify_table, JobTypes
  <2>4. PlanInv'
    BY <1>10, <1>s DEF EndpointPolled, Shared, Only, Exits, Polls, storeVars, corpusVars,
       PlanInv, NoPlan, JobTypes, Deletable
  <2>5. QED
    BY <2>1, <2>2, <2>3, <2>4
<1>11. ASSUME NEW r \in Runs, EnsuresIndex(r) PROVE JobInv'
  <2>1. IdentInv'
    BY <1>11, <1>s DEF EnsuresIndex, Goes, Shared, Only, Quiet, Exits, corpusVars, IdentInv,
       Running, JobTypes
  <2>2. StagingInv'
    BY <1>11, <1>s DEF EnsuresIndex, Goes, Shared, Only, Quiet, Exits, corpusVars, StagingInv,
       verify_table, JobTypes
  <2>3. WholeInv'
    BY <1>11, <1>s DEF EnsuresIndex, Goes, Shared, Only, Quiet, Exits, corpusVars, WholeInv,
       StagingInv, IdentInv, Running, verify_table, JobTypes
  <2>4. PlanInv'
    BY <1>11, <1>s DEF EnsuresIndex, Goes, Shared, Only, Quiet, Exits, corpusVars, PlanInv,
       NoPlan, JobTypes, Deletable
  <2>5. QED
    BY <2>1, <2>2, <2>3, <2>4
<1>12. ASSUME NEW r \in Runs, NoWait(r) PROVE JobInv'
  <2>1. IdentInv'
    BY <1>12, <1>s DEF NoWait, Shared, Exits, storeVars, corpusVars, IdentInv, Running, JobTypes
  <2>2. StagingInv'
    BY <1>12, <1>s DEF NoWait, Shared, Exits, storeVars, corpusVars, StagingInv, verify_table,
       JobTypes
  <2>3. WholeInv'
    BY <1>12, <1>s DEF NoWait, Shared, Exits, storeVars, corpusVars, WholeInv, StagingInv,
       IdentInv, Running, verify_table, JobTypes
  <2>4. PlanInv'
    BY <1>12, <1>s DEF NoWait, Shared, Exits, storeVars, corpusVars, PlanInv, NoPlan, JobTypes,
       Deletable
  <2>5. QED
    BY <2>1, <2>2, <2>3, <2>4
<1>13. ASSUME NEW r \in Runs, WaitsIndex(r) PROVE JobInv'
  <2>1. IdentInv'
    BY <1>13, <1>s DEF WaitsIndex, Shared, Only, Exits, Polls, storeVars, corpusVars, IdentInv,
       Running, JobTypes
  <2>2. StagingInv'
    BY <1>13, <1>s DEF WaitsIndex, Shared, Only, Exits, Polls, storeVars, corpusVars,
       StagingInv, verify_table, JobTypes
  <2>3. WholeInv'
    BY <1>13, <1>s DEF WaitsIndex, Shared, Only, Exits, Polls, storeVars, corpusVars, WholeInv,
       StagingInv, IdentInv, Running, verify_table, JobTypes
  <2>4. PlanInv'
    BY <1>13, <1>s DEF WaitsIndex, Shared, Only, Exits, Polls, storeVars, corpusVars, PlanInv,
       NoPlan, JobTypes, Deletable
  <2>5. QED
    BY <2>1, <2>2, <2>3, <2>4
<1>14. ASSUME NEW r \in Runs, Killed(r) PROVE JobInv'
  <2>1. IdentInv'
    BY <1>14, <1>s DEF Killed, Shared, Exits, storeVars, corpusVars, IdentInv, Running, JobTypes
  <2>2. StagingInv'
    BY <1>14, <1>s DEF Killed, Shared, Exits, storeVars, corpusVars, StagingInv, verify_table,
       JobTypes
  <2>3. WholeInv'
    BY <1>14, <1>s DEF Killed, Shared, Exits, storeVars, corpusVars, WholeInv, StagingInv,
       IdentInv, Running, verify_table, JobTypes
  <2>4. PlanInv'
    BY <1>14, <1>s DEF Killed, Shared, Exits, storeVars, corpusVars, PlanInv, NoPlan, JobTypes,
       Deletable
  <2>5. QED
    BY <2>1, <2>2, <2>3, <2>4
<1>15. ASSUME NEW r \in Runs, NEW n \in 0..rows(corpus), Copies(r, n) PROVE JobInv'
  <2>1. IdentInv'
    BY <1>15, <1>s DEF Copies, Goes, Shared, Only, Quiet, corpusVars, IdentInv, Running,
       JobTypes
  <2>2. StagingInv'
    BY <1>15, <1>s DEF Copies, Goes, Shared, Only, Quiet, corpusVars, StagingInv, verify_table,
       JobTypes
  <2>3. WholeInv'
    BY <1>15, <1>s DEF Copies, Goes, Shared, Only, Quiet, corpusVars, WholeInv, StagingInv,
       IdentInv, Running, verify_table, JobTypes
  <2>4. PlanInv'
    BY <1>15, <1>s DEF Copies, Goes, Shared, Only, Quiet, corpusVars, PlanInv, NoPlan, JobTypes,
       Deletable
  <2>5. QED
    BY <2>1, <2>2, <2>3, <2>4
<1>16. ASSUME NEW r \in Runs, NEW w \in BOOLEAN, NEW b \in BOOLEAN, Starts(r, w, b) PROVE JobInv'
  <2>1. IdentInv'
    BY <1>16, <1>s, IdentityIsCorpus DEF Starts, storeVars, corpusVars, IdentInv, Running,
       JobTypes
  <2>2. StagingInv'
    BY <1>16, <1>s DEF Starts, storeVars, corpusVars, StagingInv, verify_table, JobTypes
  <2>3. WholeInv'
    BY <1>16, <1>s DEF Starts, storeVars, corpusVars, WholeInv, StagingInv, IdentInv, Running,
       verify_table, JobTypes
  <2>4. PlanInv'
    BY <1>16, <1>s DEF Starts, storeVars, corpusVars, PlanInv, NoPlan, JobTypes, Deletable
  <2>5. QED
    BY <2>1, <2>2, <2>3, <2>4
<1>18. CASE CorpusStep
  BY <1>18, <1>s DEF CorpusStep, jobVars, storeVars, IdentInv, Running, StagingInv, WholeInv, PlanInv,
     verify_table
<1> HIDE DEF JobInv
<1> QED
  BY <1>0, <1>1, <1>2, <1>3, <1>4, <1>5, <1>6, <1>7, <1>8, <1>9, <1>10, <1>11, <1>12, <1>13,
     <1>14, <1>15, <1>16, <1>18
     DEF Next, Build

(* No step touches what is kept.                                          *)
LEMMA KeptStep ==
    ASSUME JobTypes, JobInv, [Next]_vars
    PROVE  Kept
<1>s. JobTypes /\ JobInv
  OBVIOUS
<1> USE DEF Kept, JobTypes, JobInv, IdentInv, Running, PlanInv, NoIndex, IndexStates
<1>0. CASE UNCHANGED vars
  BY <1>0, <1>s DEF vars, jobVars, storeVars
<1>1. CASE CleanupPlans
  BY <1>1, <1>s DEF CleanupPlans, jobVars, storeVars, corpusVars
<1>2. CASE CleanupDeletes
  BY <1>2, <1>s DEF CleanupDeletes, jobVars, corpusVars
<1>3. CASE CleanupFails
  BY <1>3, <1>s DEF CleanupFails, jobVars, storeVars, corpusVars
<1>4. CASE ServerSide
  BY <1>4, <1>s DEF ServerSide, jobVars, corpusVars
<1>5. ASSUME NEW r \in Runs, Looks(r) PROVE Kept
  BY <1>5, <1>s DEF Looks, Shared, Only, Quiet, Exits, storeVars, corpusVars
<1>6. ASSUME NEW r \in Runs, CreatesStaging(r) PROVE Kept
  BY <1>6, <1>s DEF CreatesStaging, Goes, Shared, Only, Quiet, corpusVars
<1>7. ASSUME NEW r \in Runs, VerifiesLoad(r) PROVE Kept
  BY <1>7, <1>s DEF VerifiesLoad, Goes, Shared, Only, Quiet, Exits, storeVars, corpusVars
<1>8. ASSUME NEW r \in Runs, Renames(r) PROVE Kept
  BY <1>8, <1>s DEF Renames, Goes, Shared, Only, Quiet, Exits, storeVars, corpusVars
<1>9. ASSUME NEW r \in Runs, EndpointCreated(r) PROVE Kept
  BY <1>9, <1>s DEF EndpointCreated, Shared, Only, corpusVars
<1>10. ASSUME NEW r \in Runs, EndpointPolled(r) PROVE Kept
  BY <1>10, <1>s DEF EndpointPolled, Shared, Only, Exits, Polls, storeVars, corpusVars
<1>11. ASSUME NEW r \in Runs, EnsuresIndex(r) PROVE Kept
  BY <1>11, <1>s DEF EnsuresIndex, Goes, Shared, Only, Quiet, Exits, corpusVars
<1>12. ASSUME NEW r \in Runs, NoWait(r) PROVE Kept
  BY <1>12, <1>s DEF NoWait, Shared, Exits, storeVars, corpusVars
<1>13. ASSUME NEW r \in Runs, WaitsIndex(r) PROVE Kept
  BY <1>13, <1>s DEF WaitsIndex, Shared, Only, Exits, Polls, storeVars, corpusVars
<1>14. ASSUME NEW r \in Runs, Killed(r) PROVE Kept
  BY <1>14, <1>s DEF Killed, Shared, Exits, storeVars, corpusVars
<1>15. ASSUME NEW r \in Runs, NEW n \in 0..rows(corpus), Copies(r, n) PROVE Kept
  BY <1>15, <1>s DEF Copies, Goes, Shared, Only, Quiet, corpusVars
<1>16. ASSUME NEW r \in Runs, NEW w \in BOOLEAN, NEW b \in BOOLEAN, Starts(r, w, b) PROVE Kept
  BY <1>16, <1>s DEF Starts, storeVars, corpusVars
<1>18. CASE CorpusStep
  BY <1>18, <1>s DEF CorpusStep, jobVars, storeVars
<1> HIDE DEF Kept
<1> QED
  BY <1>0, <1>1, <1>2, <1>3, <1>4, <1>5, <1>6, <1>7, <1>8, <1>9, <1>10, <1>11, <1>12, <1>13,
     <1>14, <1>15, <1>16, <1>18
     DEF Next, Build

(* The initial state: no corpus, no table, no index.                       *)
LEMMA InitIInv == Init => IInv
<1> SUFFICES ASSUME Init PROVE IInv
  OBVIOUS
<1>1. CorpusInv
  BY DEF Init, CorpusInit, CorpusInv, CorpusTypeOK, ManifestDescribes, NoManifest, NoBuild, NoCorpus, Content
<1>2. JobTypes
  BY NoCorpusType, PollTypes, TableTypes, IndexTypes DEF Init, JobTypes, Stages, NotYet
<1>3. JobInv
  BY DEF Init, JobInv, IdentInv, Running, StagingInv, WholeInv, PlanInv, NoPlan
<1>4. QED
  BY <1>1, <1>2, <1>3 DEF IInv

(* Every step preserves the strengthening.                                *)
LEMMA NextIInv == IInv /\ [Next]_vars => IInv'
<1> SUFFICES ASSUME IInv, [Next]_vars PROVE IInv'
  OBVIOUS
<1>1. CorpusInv /\ JobTypes /\ JobInv /\ PlanInv
  BY DEF IInv, JobInv
<1>2. JobTypes'
  BY <1>1, JobTypeStep
<1>3. JobInv'
  BY <1>1, <1>2, JobInvStep
<1>4. CASE CorpusNext
  BY <1>1, <1>2, <1>3, <1>4, CorpusStepInv DEF IInv
<1>5. CASE UNCHANGED corpusVars
  <2>1. corpus' = corpus /\ manifest' = manifest /\ build' = build
    BY <1>5 DEF corpusVars
  <2>2. CorpusInv'
    BY <2>1, <1>1 DEF CorpusInv, CorpusTypeOK, ManifestDescribes
  <2>3. QED
    BY <1>2, <1>3, <2>2 DEF IInv
<1>6. UNCHANGED vars => UNCHANGED corpusVars
  BY DEF vars, corpusVars
<1>7. \A r \in Runs : Build(r) => UNCHANGED corpusVars
  BY DEF Build, Looks, CreatesStaging, VerifiesLoad, Renames, Copies, EndpointCreated, EndpointPolled,
     EnsuresIndex, NoWait, WaitsIndex, Goes, Exits, Polls, Quiet, Only, Shared
<1>8. \A r \in Runs : Killed(r) \/ (\E w, p \in BOOLEAN : Starts(r, w, p)) => UNCHANGED corpusVars
  BY DEF Killed, Exits, Shared, Starts
<1>9. CleanupPlans \/ CleanupDeletes \/ CleanupFails \/ ServerSide => UNCHANGED corpusVars
  BY DEF CleanupPlans, CleanupDeletes, CleanupFails, ServerSide
<1>10. QED
  BY <1>4, <1>5, <1>6, <1>7, <1>8, <1>9 DEF Next, CorpusStep

(* The strengthening is an invariant.                                     *)
THEOREM InductiveInvariant == Spec => []IInv
  BY InitIInv, NextIInv, PTL DEF Spec

(* A manifest that is there describes the corpus that is there, wherever    *)
(* builds of the corpus were killed (RemovesManifest comes before the       *)
(* parquet is replaced).                                                    *)
THEOREM ManifestDescribesHolds == Spec => []ManifestDescribes
<1>1. IInv => ManifestDescribes
  BY DEF IInv, CorpusInv
<1>2. QED
  BY <1>1, InductiveInvariant, PTL

(* No table under a versioned name is short of its corpus, whichever builds *)
(* ran into each other, were killed, loaded too little or read a corpus     *)
(* that had been replaced.                                                  *)
THEOREM VersionedIsWholeHolds == Spec => []VersionedIsWhole
<1>1. IInv => VersionedIsWhole
  BY DEF IInv, CorpusInv, JobTypes, JobInv, WholeInv, verify_table, VersionedIsWhole, TypeOK, Tables
<1>2. QED
  BY <1>1, InductiveInvariant, PTL

(* No step writes over a table that has its name, or deletes one that the   *)
(* configuration keeps, however old the cleanup's plan is.                  *)
THEOREM KeptIsUntouchedHolds == Spec => KeptIsUntouched
<1>1. IInv /\ [Next]_vars => [Kept]_vars
  BY KeptStep DEF IInv
<1>2. QED
  BY <1>1, InductiveInvariant, PTL DEF Spec, KeptIsUntouched, Kept

(* A build that waited and reports success has seen its index ONLINE with   *)
(* as many rows as its corpus has passages, at the poll it decides on.      *)
THEOREM ReadyIsSearchableHolds == Spec => ReadyIsSearchable
<1> DEFINE Searchable(c) == index[c].state = "online" /\ index[c].n = rows(c)
<1>1. ASSUME JobTypes, [Next]_vars, NEW r \in Runs, rc[r] = NotYet, rc'[r] = 0, wait[r]
      PROVE  Searchable(ident[r])
  <2>1. rc \in [Runs -> {NotYet, 0, 1, NOT_READY}] /\ rc' # rc
    BY <1>1 DEF JobTypes, NotYet
  <2>2. \A q \in Runs : \A code : Exits(q, code) => q = r /\ code = 0
    BY <1>1, <2>1 DEF Exits, NotYet
  <2>3. PICK q \in Runs : Build(q) \/ Killed(q) \/ \E w, p \in BOOLEAN : Starts(q, w, p)
    BY <1>1, <2>1 DEF Next, CorpusStep, CleanupPlans, CleanupDeletes, CleanupFails, ServerSide, jobVars, vars
  <2>4. ~ Killed(q)
    BY <2>2 DEF Killed
  <2>5. ASSUME NEW w \in BOOLEAN, NEW p \in BOOLEAN PROVE ~ Starts(q, w, p)
    BY <1>1, <2>1 DEF Starts, NotYet
  <2>6. ~ Looks(q) /\ ~ CreatesStaging(q) /\ ~ VerifiesLoad(q) /\ ~ Renames(q)
    BY <2>1, <2>2 DEF Looks, CreatesStaging, VerifiesLoad, Renames, Goes, Quiet
  <2>7. \A n : ~ Copies(q, n)
    BY <2>1 DEF Copies, Quiet
  <2>8. ~ EndpointCreated(q) /\ ~ EndpointPolled(q) /\ ~ EnsuresIndex(q)
    BY <2>1, <2>2 DEF EndpointCreated, EndpointPolled, EnsuresIndex, Polls, Quiet, NOT_READY
  <2>9. ~ NoWait(q)
    BY <1>1, <2>2 DEF NoWait
  <2>10. WaitsIndex(q)
    BY <2>3, <2>4, <2>5, <2>6, <2>7, <2>8, <2>9 DEF Build
  <2>11. Exits(q, 0) /\ IsReady(index[ident[q]], ident[q])
    BY <2>1, <2>2, <2>10 DEF WaitsIndex, Polls, NOT_READY
  <2>12. QED
    BY <2>2, <2>11 DEF IsReady
<1>2. IInv /\ [Next]_vars
        => [\A r \in Runs : (rc[r] = NotYet /\ rc'[r] = 0 /\ wait[r]) => Searchable(ident[r])]_vars
  BY <1>1 DEF IInv
<1>3. QED
  BY <1>2, InductiveInvariant, PTL DEF Spec, ReadyIsSearchable, Searchable
=============================================================================
