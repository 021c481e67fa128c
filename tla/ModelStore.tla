----------------------------- MODULE ModelStore -----------------------------
(***************************************************************************)
(* ModelManager: the current global model in three files (binary, version, *)
(* architecture hash), an archive of earlier versions and its manifest.    *)
(* Every write is std::fs::write, which truncates and then writes: a crash *)
(* or an error before it leaves the file as it was, one inside it leaves a *)
(* Torn file. The manager keeps nothing in memory between calls, so a      *)
(* crash and a failed write end a call in the same way.                    *)
(***************************************************************************)
EXTENDS Naturals, Sequences, FiniteSets

CONSTANTS
  Contents,           \* model binaries
  Metadata,           \* epoch metadata: version, signature, hash, architecture
  SanitizeVersion,    \* the file name a version is archived under
  RetentionCount,     \* model_retention_count
  None, Torn, Unknown,
  MaxStoreFaults      \* bound: crashes and failed writes

Versions == {m.version : m \in Metadata}
Architectures == {m.architecture : m \in Metadata} \ {None}

ASSUME StoreAssumption ==
  /\ {None, Torn, Unknown} \cap (Contents \cup Versions) = {}
  /\ None # Torn /\ Torn \notin Seq(Versions \cup {Torn, Unknown})
  /\ {m.hash : m \in Metadata} \subseteq Contents
  /\ SanitizeVersion \in [Versions \cup {Torn, Unknown} -> STRING]
  /\ RetentionCount \in Nat \ {0} /\ MaxStoreFaults \in Nat

VARIABLES
  current,      \* current.bin
  version,      \* current_version.txt
  archHash,     \* current_arch_hash.txt
  archive,      \* the archived binaries, by file name
  manifest,     \* manifest.json: versions, oldest first, or Torn
  storing,      \* the metadata of the model being stored, or None
  storeStep,    \* where archive_current_and_store is
  storeFaults,
  displaced     \* history: the content the last finished store replaced

storeVars == <<current, version, archHash, archive, manifest, storing, storeStep,
               storeFaults, displaced>>
files == <<current, version, archHash, archive, manifest>>

StoreInit ==
  /\ current = None /\ version = None /\ archHash = None
  /\ archive = [f \in {SanitizeVersion[v] : v \in DOMAIN SanitizeVersion} |-> None]
  /\ manifest = <<>>
  /\ storing = None /\ storeStep = "idle" /\ storeFaults = 0 /\ displaced = None

-----------------------------------------------------------------------------
VerifySignature(bytes, m) == m.signature # None /\ m.signature = bytes
VerifyHash(bytes, m) == m.hash = bytes

CheckCompatibility_NotEmpty(m) == m.architecture # None
\* Without a readable version, and against an empty hash, anything is compatible.
CheckCompatibility(m) ==
  /\ m.architecture # None
  /\ (version # None /\ archHash # None) => archHash = m.architecture

\* validate_and_store up to its first write. A rejected model changes nothing.
ValidateAndStore(bytes, m) ==
  /\ storeStep = "idle"
  /\ VerifySignature(bytes, m) /\ VerifyHash(bytes, m) /\ CheckCompatibility(m)
  /\ storing' = m
  /\ storeStep' = IF current = None THEN "binary" ELSE "archive"
  /\ UNCHANGED <<files, storeFaults, displaced>>

ArchivedAs_New == storing.version
ArchivedAs == IF version = None THEN Unknown ELSE version

Goto(here, next) == storeStep = here /\ storeStep' = next

\* archive_version: the binary, then the evictions, then the manifest. A
\* manifest that does not parse ends the call after the binary was written.
ArchiveBinary ==
  /\ storeStep = "archive"
  /\ archive' = [archive EXCEPT ![SanitizeVersion[ArchivedAs]] = current]
  /\ IF manifest = Torn THEN storeStep' = "idle" /\ storing' = None
     ELSE storeStep' = "evict" /\ UNCHANGED storing
  /\ UNCHANGED <<current, version, archHash, manifest, storeFaults, displaced>>

\* versions.retain(|v| v != removed)
Retained(versions, removed) ==
  LET kept[n \in 0..Len(versions)] ==
        IF n = 0 THEN <<>>
        ELSE IF versions[n] = removed THEN kept[n - 1]
        ELSE Append(kept[n - 1], versions[n])
  IN kept[Len(versions)]

Pushed == Append(Retained(manifest, ArchivedAs), ArchivedAs)
Excess_OffByOne ==
  IF Len(Pushed) > RetentionCount + 1 THEN Len(Pushed) - RetentionCount - 1 ELSE 0
Excess == IF Len(Pushed) > RetentionCount THEN Len(Pushed) - RetentionCount ELSE 0

Evict ==
  /\ Goto("evict", "manifest")
  /\ archive' = [f \in DOMAIN archive |->
                   IF \E i \in 1..Excess : SanitizeVersion[Pushed[i]] = f THEN None
                   ELSE archive[f]]
  /\ UNCHANGED <<current, version, archHash, manifest, storing, storeFaults, displaced>>

SaveManifest ==
  /\ Goto("manifest", "binary")
  /\ manifest' = SubSeq(Pushed, Excess + 1, Len(Pushed))
  /\ UNCHANGED <<current, version, archHash, archive, storing, storeFaults, displaced>>

\* archive_current_and_store: the three files of the new model.
WriteBinary ==
  /\ Goto("binary", "version")
  /\ displaced' = current
  /\ current' = storing.hash
  /\ UNCHANGED <<version, archHash, archive, manifest, storing, storeFaults>>

WriteVersion ==
  /\ Goto("version", "architecture")
  /\ version' = storing.version
  /\ UNCHANGED <<current, archHash, archive, manifest, storing, storeFaults, displaced>>

WriteArchHash ==
  /\ Goto("architecture", "idle")
  /\ archHash' = storing.architecture
  /\ storing' = None
  /\ UNCHANGED <<current, version, archive, manifest, storeFaults, displaced>>

\* The write that is next fails, and what it was to replace is kept or torn.
\* A truncated architecture hash may be empty.
StoreFault ==
  /\ storeStep # "idle" /\ storeFaults < MaxStoreFaults
  /\ storeFaults' = storeFaults + 1
  /\ storeStep' = "idle" /\ storing' = None
  /\ \/ UNCHANGED files
     \/ /\ storeStep = "archive"
        /\ archive' = [archive EXCEPT ![SanitizeVersion[ArchivedAs]] = Torn]
        /\ UNCHANGED <<current, version, archHash, manifest>>
     \/ storeStep = "manifest" /\ manifest' = Torn /\ UNCHANGED <<current, version, archHash, archive>>
     \/ storeStep = "binary" /\ current' = Torn /\ UNCHANGED <<version, archHash, archive, manifest>>
     \/ storeStep = "version" /\ version' = Torn /\ UNCHANGED <<current, archHash, archive, manifest>>
     \/ storeStep = "architecture" /\ archHash' \in {None, Torn} /\ UNCHANGED <<current, version, archive, manifest>>
  /\ UNCHANGED displaced

StoreNext ==
  \/ \E bytes \in Contents, m \in Metadata : ValidateAndStore(bytes, m)
  \/ ArchiveBinary \/ Evict \/ SaveManifest
  \/ WriteBinary \/ WriteVersion \/ WriteArchHash
  \/ StoreFault

StoreSpec == StoreInit /\ [][StoreNext]_storeVars

-----------------------------------------------------------------------------
Rollback_Oldest ==
  IF manifest \in {Torn, <<>>} THEN None ELSE archive[SanitizeVersion[manifest[1]]]

\* rollback: what it returns, None where it fails. It changes no file.
Rollback ==
  IF manifest \in {Torn, <<>>} THEN None
  ELSE archive[SanitizeVersion[manifest[Len(manifest)]]]

(* Type invariant. *)
StoreTypeOK ==
  /\ current \in Contents \cup {None, Torn} /\ version \in Versions \cup {None, Torn}
  /\ archHash \in Architectures \cup {None, Torn}
  /\ \A f \in DOMAIN archive : archive[f] \in Contents \cup {None, Torn}
  /\ manifest = Torn \/ Len(manifest) <= RetentionCount
  /\ storing \in Metadata \cup {None}
  /\ storeStep \in {"idle", "archive", "evict", "manifest", "binary", "version", "architecture"}
  /\ storeFaults \in 0..MaxStoreFaults

Mislabelled ==
  {f \in DOMAIN archive :
     archive[f] # None /\ ~\E m \in Metadata : archive[f] = m.hash /\ SanitizeVersion[m.version] = f}

(* An archive file holds the binary of a version it is named after: only a call
   that was cut short, between the binary and its version or inside a write, can
   leave one that does not, and one call leaves at most one. *)
MislabelledPerFault == Cardinality(Mislabelled) <= storeFaults

\* No two versions share a file, and an archived version survives the next one.
Distinct ==
  /\ \A v, w \in DOMAIN SanitizeVersion : v # w => SanitizeVersion[v] # SanitizeVersion[w]
  /\ RetentionCount >= 2

(* Between two stores a rollback returns the model the last store replaced, as
   long as no call was cut short; and whatever was cut short, a readable manifest
   that is not empty leads to a file. Only where two versions share a file name,
   or a single version is retained, an eviction can remove the file it needs. *)
RollbackReturnsReplaced ==
  storeStep = "idle" /\ Distinct =>
    /\ storeFaults = 0 => Rollback = displaced
    /\ manifest \notin {Torn, <<>>} => Rollback # None

ArchitectureOf(content) == {m.architecture : m \in {m \in Metadata : m.hash = content}}

(* The current model and every archived one have the architecture of the first
   model stored, as long as no call was cut short. *)
OneArchitecture ==
  storeFaults = 0 =>
    \A f \in DOMAIN archive : archive[f] # None => ArchitectureOf(archive[f]) = ArchitectureOf(current)

=============================================================================
