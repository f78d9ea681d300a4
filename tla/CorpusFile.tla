------------------------------ MODULE CorpusFile ------------------------------
(***************************************************************************)
(* The passage corpus and the manifest beside it (build_corpus.py, with    *)
(* write_parquet, write_manifest and find_manifest of data_manifest.py).   *)
(* Builds follow each other and may be killed anywhere; others read the    *)
(* two files meanwhile.                                                    *)
(***************************************************************************)
EXTENDS Naturals, FiniteSets

CONSTANTS
    Sources,    \* the datasets the corpus is the union of
    Editions    \* texts the same passages can have: another normalisation, another pin

ASSUME CorpusConstantsOK == Sources # {} /\ Editions \subseteq Nat \ {0} /\ IsFiniteSet(Sources)

VARIABLES
    corpus,     \* the parquet's content, which is also its content_sha256
    manifest,   \* <stem>.manifest.json: the content it describes, and "complete"
    build       \* the running build

corpusVars == <<corpus, manifest, build>>

Content == [from : SUBSET Sources, edition : Editions \cup {0}]
NoCorpus == [from |-> {}, edition |-> 0]
NoManifest == [of |-> NoCorpus, complete |-> FALSE]
NoBuild == [at |-> "idle", of |-> NoCorpus]

rows(c) == Cardinality(c.from)

CorpusInit == corpus = NoCorpus /\ manifest = NoManifest /\ build = NoBuild

(* _collect and main: a source gives all of its passages or none; the build *)
(* goes on without one only when it was told to, and never with none.       *)
Collects(loaded, edition, allow_partial) ==
    /\ build = NoBuild /\ loaded # {} /\ (loaded = Sources \/ allow_partial)
    /\ build' = [at |-> "collected", of |-> [from |-> loaded, edition |-> edition]]
    /\ UNCHANGED <<corpus, manifest>>

\* Mutant: the manifest of the last build stays until the new one is written.
KeepsManifest == UNCHANGED manifest

RemovesManifest == manifest' = NoManifest

Unlinks ==
    /\ build.at = "collected" /\ build' = [build EXCEPT !.at = "unlinked"]
    /\ RemovesManifest /\ UNCHANGED corpus

(* Written aside, then renamed: never half a file.                          *)
WritesParquet ==
    /\ build.at = "unlinked" /\ build' = [build EXCEPT !.at = "written"]
    /\ corpus' = build.of /\ UNCHANGED manifest

WritesManifest ==
    /\ build.at = "written" /\ build' = NoBuild
    /\ manifest' = [of |-> build.of, complete |-> build.of.from = Sources]
    /\ UNCHANGED corpus

BuildKilled == build # NoBuild /\ build' = NoBuild /\ UNCHANGED <<corpus, manifest>>

CorpusNext ==
    \/ \E s \in SUBSET Sources, e \in Editions, b \in BOOLEAN : Collects(s, e, b)
    \/ Unlinks \/ WritesParquet \/ WritesManifest \/ BuildKilled

(* What a reader gets from the two files; none, unless they agree.          *)
corpus_identity(allow_partial) ==
    IF manifest # NoManifest /\ corpus = manifest.of /\ (manifest.complete \/ allow_partial)
    THEN manifest.of ELSE NoCorpus

CorpusTypeOK ==
    /\ corpus \in Content /\ manifest \in [of : Content, complete : BOOLEAN]
    /\ build \in [at : {"idle", "collected", "unlinked", "written"}, of : Content]

(* "never beside a corpus it does not describe": wherever a build is killed, *)
(* a manifest that is there describes the file that is there, and calls it  *)
(* complete only if every source is in it.                                  *)
ManifestDescribes ==
    manifest # NoManifest => manifest.of = corpus /\ (manifest.complete => corpus.from = Sources)
=============================================================================
