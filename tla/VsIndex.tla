-------------------------------- MODULE VsIndex --------------------------------
(***************************************************************************)
(* Building the Vector Search index of a corpus (create_vs_index.py) and   *)
(* removing old ones (cleanup_vs.py).  Jobs run side by side against one   *)
(* catalog: the corpus may be rebuilt under a build, a build may be killed *)
(* and started again, SQL may fail before or after it took effect, tables  *)
(* may be dropped, the endpoint and the index go their own way.            *)
(***************************************************************************)
EXTENDS CorpusFile

CONSTANTS
    Runs,           \* the RUN_IDs of builds
    Keep,           \* the contents whose index config.env or --keep names
    MaxPolls        \* the wait deadline, in polls

ASSUME VsConstantsOK == MaxPolls \in Nat

VARIABLES
    at, ident,      \* each build: where it is, corpus_identity
    polls, wait,    \* polls of the current wait; without --no-wait
    rc,
    table,          \* <table>_v<h8>, by content hash
    staging,        \* <table>_v<h8>__staging_<run>
    endpoint,       \* the endpoint's state
    index,          \* <table>_v<h8>_index: its state and indexed_row_count
    doomed          \* what the running cleanup has planned: indexes and tables

jobVars == <<at, ident, polls, wait, rc>>
storeVars == <<table, staging, endpoint, index>>
vars == <<corpusVars, jobVars, storeVars, doomed>>

Corpora == {c \in Content : c.from # {} /\ c.edition # 0}
NoTable == [sha |-> NoCorpus, n |-> 0]
NoIndex == [state |-> "none", n |-> 0]
NoPlan == [indexes |-> {}, tables |-> {}, staging |-> {}]
NotYet == 9
NOT_READY == 3

Init ==
    /\ CorpusInit
    /\ at = [r \in Runs |-> "idle"] /\ ident = [r \in Runs |-> NoCorpus]
    /\ polls = [r \in Runs |-> 0] /\ wait = [r \in Runs |-> FALSE] /\ rc = [r \in Runs |-> NotYet]
    /\ table = [c \in Corpora |-> NoTable] /\ staging = [r \in Runs |-> NoTable]
    /\ endpoint = "none" /\ index = [c \in Corpora |-> NoIndex] /\ doomed = NoPlan

-----------------------------------------------------------------------------
Goes(r, from, to) == at[r] = from /\ at' = [at EXCEPT ![r] = to]
Shared == UNCHANGED <<corpusVars, doomed>>
Only == UNCHANGED <<ident, wait>> /\ Shared
Quiet == UNCHANGED <<polls, rc>> /\ Only

Exits(r, code) ==
    /\ at' = [at EXCEPT ![r] = "ended"] /\ rc' = [rc EXCEPT ![r] = code]
    /\ polls' = [polls EXCEPT ![r] = 0] /\ ident' = [ident EXCEPT ![r] = NoCorpus]
    /\ wait' = [wait EXCEPT ![r] = FALSE] /\ Shared

Running(r) == at[r] \notin {"idle", "ended"}

(* Killed, or an exception: before a step, or after it has taken effect.    *)
Killed(r) == Running(r) /\ Exits(r, 1) /\ UNCHANGED storeVars

(* A build starts, again after another of the same RUN_ID: the corpus must  *)
(* be the file its manifest describes.                                      *)
Starts(r, waits, allow_partial) ==
    /\ ~Running(r)
    /\ corpus_identity(allow_partial) # NoCorpus
    /\ at' = [at EXCEPT ![r] = "exists?"]
    /\ ident' = [ident EXCEPT ![r] = corpus_identity(allow_partial)]
    /\ wait' = [wait EXCEPT ![r] = waits] /\ rc' = [rc EXCEPT ![r] = NotYet]
    /\ UNCHANGED <<corpusVars, polls, storeVars, doomed>>

(***************************************************************************)
(* 1. The table: what is there under the versioned name is verified and    *)
(* reused or left alone; a new one is loaded aside, verified and renamed.  *)
(* The columns and the change feed are the CREATE statement's own.         *)
(***************************************************************************)
\* Mutant: the corpus hash in the properties is all that is verified.
verify_properties(t, c) == t.sha = c

verify_table(t, c) == t.sha = c /\ t.n = rows(c)

Looks(r) ==
    /\ at[r] = "exists?"
    /\ LET t == table[ident[r]] IN
       \/ t = NoTable /\ at' = [at EXCEPT ![r] = "create"] /\ Quiet
       \/ t # NoTable /\ verify_table(t, ident[r]) /\ at' = [at EXCEPT ![r] = "endpoint"] /\ Quiet
       \/ t # NoTable /\ ~verify_table(t, ident[r]) /\ Exits(r, 1)
    /\ UNCHANGED storeVars

CreatesStaging(r) ==
    /\ Goes(r, "create", "copy") /\ Quiet
    /\ staging' = [staging EXCEPT ![r] = [NoTable EXCEPT !.sha = ident[r]]]
    /\ UNCHANGED <<table, endpoint, index>>

(* COPY INTO reads the file that is there now; it may load fewer rows.      *)
Copies(r, n) ==
    /\ staging[r] # NoTable /\ n <= rows(corpus)
    /\ Goes(r, "copy", "verify") /\ Quiet
    /\ staging' = [staging EXCEPT ![r] = [@ EXCEPT !.n = n]]
    /\ UNCHANGED <<table, endpoint, index>>

VerifiesLoad(r) ==
    /\ at[r] = "verify" /\ UNCHANGED storeVars
    /\ IF staging[r] # NoTable /\ verify_table(staging[r], ident[r])
       THEN Goes(r, "verify", "rename") /\ Quiet ELSE Exits(r, 1)

(* A rename fails if the name is taken or the staging table is gone.        *)
Renames(r) ==
    /\ at[r] = "rename"
    /\ IF staging[r] # NoTable /\ table[ident[r]] = NoTable
       THEN /\ table' = [table EXCEPT ![ident[r]] = staging[r]]
            /\ staging' = [staging EXCEPT ![r] = NoTable]
            /\ \/ Goes(r, "rename", "endpoint") /\ Quiet
               \/ Exits(r, 1)       \* it took effect, but too late for the deadline
            /\ UNCHANGED <<endpoint, index>>
       ELSE Exits(r, 1) /\ UNCHANGED storeVars

-----------------------------------------------------------------------------
(* 2. The endpoint: created only when asked to, ONLINE before the deadline. *)
Polls(r) == polls' = [polls EXCEPT ![r] = @ + 1] /\ polls[r] < MaxPolls /\ UNCHANGED <<at, rc>> /\ Only

EndpointCreated(r) ==
    /\ at[r] = "endpoint" /\ endpoint = "none" /\ endpoint' = "provisioning"
    /\ UNCHANGED <<at, polls, rc, table, staging, index>> /\ Only

EndpointPolled(r) ==
    /\ at[r] = "endpoint" /\ UNCHANGED storeVars
    /\ \/ endpoint = "online" /\ at' = [at EXCEPT ![r] = "index"]
          /\ polls' = [polls EXCEPT ![r] = 0] /\ UNCHANGED rc /\ Only
       \/ endpoint = "provisioning" /\ Polls(r)
       \/ endpoint = "provisioning" /\ polls[r] = MaxPolls /\ Exits(r, NOT_READY)
       \/ endpoint \in {"none", "offline"} /\ Exits(r, 1)

(* 3. The index: one that is there was made here, on its own table.  None   *)
(* is made on a table that has been dropped meanwhile.                      *)
EnsuresIndex(r) ==
    /\ at[r] = "index"
    /\ LET c == ident[r] IN
       \/ index[c] # NoIndex /\ Goes(r, "index", "wait") /\ Quiet /\ UNCHANGED index
       \/ index[c] = NoIndex /\ table[c] # NoTable /\ Goes(r, "index", "wait") /\ Quiet
          /\ index' = [index EXCEPT ![c] = [state |-> "pending", n |-> 0]]
       \/ index[c] = NoIndex /\ table[c] = NoTable /\ Exits(r, 1) /\ UNCHANGED index
    /\ UNCHANGED <<table, staging, endpoint>>

NoWait(r) == at[r] = "wait" /\ ~wait[r] /\ Exits(r, 0) /\ UNCHANGED storeVars

\* Mutant: an index that is ONLINE is ready, whatever it has indexed.
OnlineIsReady(i, c) == i.state = "online"

IsReady(i, c) == i.state = "online" /\ i.n = rows(c)

WaitsIndex(r) ==
    /\ at[r] = "wait" /\ wait[r] /\ UNCHANGED storeVars
    /\ LET i == index[ident[r]] IN
       \/ IsReady(i, ident[r]) /\ Exits(r, 0)
       \/ i.state \in {"failed", "none"} /\ Exits(r, 1)
       \/ i.state \in {"pending", "online"} /\ ~IsReady(i, ident[r])
          /\ IF polls[r] = MaxPolls THEN Exits(r, NOT_READY) ELSE Polls(r)

-----------------------------------------------------------------------------
(***************************************************************************)
(* cleanup_vs.py: a plan of the indexes and staging tables that carry our  *)
(* property and are not kept, and then one deletion after the other.       *)
(***************************************************************************)
\* Mutant: whatever we created is old.
AllOurs(c) == index[c] # NoIndex /\ table[c] # NoTable

Deletable(c) == index[c] # NoIndex /\ table[c] # NoTable /\ c \notin Keep

CleanupPlans ==
    /\ doomed = NoPlan
    /\ LET old == {c \in Corpora : Deletable(c)} IN
       doomed' = [indexes |-> old, tables |-> old, staging |-> {r \in Runs : staging[r] # NoTable}]
    /\ UNCHANGED <<corpusVars, jobVars, storeVars>>

CleanupDeletes ==
    /\ doomed # NoPlan /\ UNCHANGED <<corpusVars, jobVars, endpoint>>
    /\ \/ \E c \in doomed.indexes :
            /\ index' = [index EXCEPT ![c] = NoIndex] /\ doomed' = [doomed EXCEPT !.indexes = @ \ {c}]
            /\ UNCHANGED <<table, staging>>
       \/ doomed.indexes = {} /\ \E c \in doomed.tables :
            /\ table' = [table EXCEPT ![c] = NoTable] /\ doomed' = [doomed EXCEPT !.tables = @ \ {c}]
            /\ UNCHANGED <<index, staging>>
       \/ doomed.indexes \cup doomed.tables = {} /\ \E r \in doomed.staging :
            /\ staging' = [staging EXCEPT ![r] = NoTable] /\ doomed' = [doomed EXCEPT !.staging = @ \ {r}]
            /\ UNCHANGED <<index, table>>

CleanupFails ==
    /\ doomed # NoPlan /\ doomed' = NoPlan /\ UNCHANGED <<corpusVars, jobVars, storeVars>>

(* Server-side: the endpoint comes up or not, a snapshot is embedded in     *)
(* parts, and an index whose table is gone fails.                           *)
ServerSide ==
    /\ UNCHANGED <<corpusVars, jobVars, table, staging, doomed>>
    /\ \/ endpoint = "provisioning" /\ endpoint' \in {"online", "offline"} /\ UNCHANGED index
       \/ \E c \in Corpora :
            /\ index[c].state \in {"pending", "online"} /\ UNCHANGED endpoint
            /\ \/ table[c] # NoTable /\ index[c].n < table[c].n
                  /\ index' = [index EXCEPT ![c] = [state |-> "online", n |-> @.n + 1]]
               \/ index' = [index EXCEPT ![c] = [@ EXCEPT !.state = "failed"]]

Build(r) ==
    \/ Looks(r) \/ CreatesStaging(r) \/ VerifiesLoad(r) \/ Renames(r)
    \/ \E n \in 0..rows(corpus) : Copies(r, n)
    \/ EndpointCreated(r) \/ EndpointPolled(r) \/ EnsuresIndex(r) \/ NoWait(r) \/ WaitsIndex(r)

CorpusStep == CorpusNext /\ UNCHANGED <<jobVars, storeVars, doomed>>

Next ==
    \/ \E r \in Runs : Build(r) \/ Killed(r) \/ \E w, p \in BOOLEAN : Starts(r, w, p)
    \/ CorpusStep \/ CleanupPlans \/ CleanupDeletes \/ CleanupFails \/ ServerSide

Spec == Init /\ [][Next]_vars
FairSpec == Spec /\ \A r \in Runs : WF_vars(Build(r))

-----------------------------------------------------------------------------
TypeOK ==
    /\ CorpusTypeOK
    /\ ident \in [Runs -> Content] /\ polls \in [Runs -> 0..MaxPolls] /\ wait \in [Runs -> BOOLEAN]
    /\ rc \in [Runs -> {NotYet, 0, 1, NOT_READY}]
    /\ table \in [Corpora -> [sha : Content, n : Nat]]
    /\ endpoint \in {"none", "provisioning", "online", "offline"}

(* "the versioned name either holds the complete corpus or does not exist": *)
(* no crash, short load or second build leaves less than the rows of its    *)
(* corpus under it.                                                         *)
VersionedIsWhole ==
    TypeOK /\ \A c \in Corpora : table[c] # NoTable => table[c].sha = c /\ table[c].n = rows(c)

(* A build that waited and exits 0 has seen every passage of its corpus     *)
(* searchable.                                                              *)
ReadyIsSearchable ==
    [][\A r \in Runs : (rc[r] = NotYet /\ rc'[r] = 0 /\ wait[r]) =>
          LET c == ident[r] IN index[c].state = "online" /\ index[c].n = rows(c)]_vars

(* "nothing a running job reads is ever modified": a table never changes    *)
(* once it has its name, and what the configuration names is not deleted.   *)
KeptIsUntouched ==
    [][\A c \in Corpora : /\ table[c] # NoTable => table'[c] \in {table[c], NoTable}
                          /\ c \in Keep => (table[c] # NoTable => table'[c] # NoTable)
                          /\ c \in Keep => (index[c] # NoIndex => index'[c] # NoIndex)]_vars

(* Every wait has its deadline: a build ends whatever the server does.      *)
BuildEnds == \A r \in Runs : (at[r] = "endpoint" \/ at[r] = "wait") ~> (at[r] \notin {"endpoint", "wait"})

(* What a build says when it stops waiting is true, and it does stop.       *)
WaitIsHonest == ReadyIsSearchable /\ BuildEnds
=============================================================================
