------------------------------- MODULE Registry -------------------------------
(***************************************************************************)
(* What administrators register by requests that do not depend on each     *)
(* other's steps, but for the assets: the state of pools                   *)
(* (adminPoolService.ts), the flags of stops (stopRoutes.ts), asset types, *)
(* the kinds of observation a type has, and the assets themselves, seeded  *)
(* from a file in one transaction (tenantRoutes.ts, assetService.ts).      *)
(***************************************************************************)
EXTENDS Naturals, Sequences

CONSTANTS ActivePool,    \* pools
          FlaggedStop,   \* stops
          Flag,          \* is_hotspot, compactor, has_trash
          TypeKey,       \* keys of asset types
          KnownTypes,    \* rows of public.asset_types, which migrations add
          CsvFile,       \* asset files: sequences of seed keys
          BadCsv,        \* a file that does not parse
          Form,          \* lists of observation keys that are posted
          Seeder,        \* requests of administrators served at one time
          NoFile

ASSUME RegistryAssumption == /\ CsvFile \subseteq Seq(STRING) \ {<<>>}
                             /\ Form \subseteq Seq(STRING) \ {<<>>}
                             /\ KnownTypes \subseteq TypeKey

AssetKey == UNION {{f[i] : i \in DOMAIN f} : f \in CsvFile}
ObservationKeys == UNION {{f[i] : i \in DOMAIN f} : f \in Form}

VARIABLES poolActive, \* pools that are active
          flags,      \* flags that are set
          types,      \* rows of core.asset_types
          kinds,      \* the form each observation key was last written from
          assets,     \* the file each asset was last written from
          seeder      \* the requests, their file or form and their place in it

registryVars == <<poolActive, flags, types, kinds, assets, seeder>>

AtRest == [does |-> "nothing", rows |-> <<>>, next |-> 1]

RegistryTypeOK ==
    /\ poolActive \subseteq ActivePool
    /\ flags \subseteq FlaggedStop \X Flag
    /\ types \subseteq TypeKey
    /\ kinds \in [ObservationKeys -> Form \union {NoFile}]
    /\ assets \in [AssetKey -> CsvFile \union {NoFile}]
    /\ \A e \in Seeder : /\ seeder[e].does \in {"nothing", "seeds", "registers"}
                         /\ seeder[e].rows \in CsvFile \union Form \union {<<>>}
                         /\ seeder[e].next \in 1..(Len(seeder[e].rows) + 1)

RegistryInit == /\ poolActive = ActivePool
                /\ flags = {}
                /\ types = {}
                /\ kinds = [k \in ObservationKeys |-> NoFile]
                /\ assets = [k \in AssetKey |-> NoFile]
                /\ seeder = [e \in Seeder |-> AtRest]

-----------------------------------------------------------------------------
(* updatePool, for the field other code reads, and softDeletePool.         *)
UpdatePool(p) ==
    /\ poolActive' \in {poolActive \union {p}, poolActive \ {p}}
    /\ UNCHANGED <<flags, types, kinds, assets, seeder>>

SoftDeletePool(p) ==
    /\ poolActive' = poolActive \ {p}
    /\ UNCHANGED <<flags, types, kinds, assets, seeder>>

(* One UPDATE of one stop (stopRoutes.ts) or of a list (bulkUpdateStops).  *)
SetFlag(s, f) ==
    /\ flags' \in {flags \union {<<s, f>>}, flags \ {<<s, f>>}}
    /\ UNCHANGED <<poolActive, types, kinds, assets, seeder>>

SetFlags(S, f) ==
    /\ flags' \in {flags \union (S \X {f}), flags \ (S \X {f})}
    /\ UNCHANGED <<poolActive, types, kinds, assets, seeder>>

(* createAssetType: an upsert by org and key.                              *)
CreateAssetType(t) ==
    /\ types' = types \union {t}
    /\ UNCHANGED <<poolActive, flags, kinds, assets, seeder>>

-----------------------------------------------------------------------------
Line(e) == seeder[e].rows[seeder[e].next]
Through(e) == seeder[e].next > Len(seeder[e].rows)
NextLine(e) == seeder' = [seeder EXCEPT ![e].next = @ + 1]
Rests(e) == seeder' = [seeder EXCEPT ![e] = AtRest]

(* POST /observation-types: the type must be the org's; then one upsert a  *)
(* row, each committed by itself.                                          *)
StartRegistering(e) ==
    /\ seeder[e] = AtRest
    /\ types # {}
    /\ \E f \in Form : seeder' = [seeder EXCEPT ![e] = [does |-> "registers", rows |-> f, next |-> 1]]
    /\ UNCHANGED <<poolActive, flags, types, kinds, assets>>

UpsertObservationTypes(e) ==
    /\ seeder[e].does = "registers"
    /\ \/ /\ ~Through(e)
          /\ kinds' = [kinds EXCEPT ![Line(e)] = seeder[e].rows]
          /\ NextLine(e)
       \/ /\ Through(e)
          /\ Rests(e)
          /\ UNCHANGED kinds
    /\ UNCHANGED <<poolActive, flags, types, assets>>

(* POST /seed-assets: the file is parsed as a whole and refused as a whole *)
(* before a row is written, and the type must be known to both tables.     *)
SeedAssets(e) ==
    /\ seeder[e] = AtRest
    /\ types \intersect KnownTypes # {}
    /\ \E f \in CsvFile \ {BadCsv} :
         seeder' = [seeder EXCEPT ![e] = [does |-> "seeds", rows |-> f, next |-> 1]]
    /\ UNCHANGED <<poolActive, flags, types, kinds, assets>>

(* The rows a transaction has written, which others wait for.              *)
Written(e) == IF seeder[e].does = "seeds"
             THEN {seeder[e].rows[i] : i \in 1..(seeder[e].next - 1)} ELSE {}

SeedRowAtOnce(e) ==
    /\ seeder[e].does = "seeds"
    /\ ~Through(e)
    /\ assets' = [assets EXCEPT ![Line(e)] = seeder[e].rows]
    /\ NextLine(e)
    /\ UNCHANGED <<poolActive, flags, types, kinds>>

SeedRow(e) ==
    /\ seeder[e].does = "seeds"
    /\ ~Through(e)
    /\ \A d \in Seeder \ {e} : Line(e) \notin Written(d)
    /\ NextLine(e)
    /\ UNCHANGED <<poolActive, flags, types, kinds, assets>>

CommitSeed(e) ==
    /\ seeder[e].does = "seeds"
    /\ Through(e)
    /\ assets' = [k \in AssetKey |-> IF k \in Written(e) THEN seeder[e].rows ELSE assets[k]]
    /\ Rests(e)
    /\ UNCHANGED <<poolActive, flags, types, kinds>>

(* A statement fails, or two files in different orders wait for each other *)
(* and the database breaks one off: of a file nothing is left, of a form   *)
(* what was written before.                                                *)
RequestFails(e) ==
    /\ seeder[e] # AtRest
    /\ Rests(e)
    /\ UNCHANGED <<poolActive, flags, types, kinds, assets>>

RegistryNext ==
    \/ \E p \in ActivePool : UpdatePool(p) \/ SoftDeletePool(p)
    \/ \E s \in FlaggedStop, f \in Flag : SetFlag(s, f)
    \/ \E S \in SUBSET FlaggedStop, f \in Flag : SetFlags(S, f)
    \/ \E t \in TypeKey : CreateAssetType(t)
    \/ \E e \in Seeder : \/ StartRegistering(e) \/ UpsertObservationTypes(e)
                         \/ SeedAssets(e) \/ SeedRow(e) \/ CommitSeed(e) \/ RequestFails(e)

RegistrySpec == RegistryInit /\ [][RegistryNext]_registryVars

-----------------------------------------------------------------------------
(* Files seeded at the same time do not mix (assetService.ts:186-218): of  *)
(* two assets that stand in the same files, both are as the same file has  *)
(* them, or neither is there, whichever requests fail on the way.          *)
FilesDoNotMix ==
    \A a, b \in AssetKey :
        (\A f \in CsvFile : (\E i \in DOMAIN f : f[i] = a) <=> (\E i \in DOMAIN f : f[i] = b))
            => assets[a] = assets[b]
=============================================================================
