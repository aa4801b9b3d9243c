--------------------------- MODULE ConfigHealProofs ---------------------------
(***************************************************************************)
(* Proofs about ConfigHeal, for any overlay, update, values and bounds.    *)
(*                                                                         *)
(* The argument follows one fact: between the engine's merge and the stop  *)
(* the union in memory holds the whole file and the whole overlay, so the  *)
(* one write of the heal makes file, union and live config equal.          *)
(***************************************************************************)
EXTENDS ConfigHeal, TLAPS

Extends(f, g) == \A k \in DOMAIN g : k \in DOMAIN f /\ f[k] = g[k]

Running == phase \in {"healed", "off", "up"}

\* What is asked is in the file.
Kept == Extends(block, asked)

\* The union holds the file and every overlay key.
UnionHolds == phase # "down" => Extends(union, block) /\ overlay \subseteq DOMAIN union

\* Before the heal the engine's merge stands.
MergeStands == phase = "merged" => union = Merged(block) /\ live = Clobbered(block)

\* After it nothing is wiped.
Whole == Running /\ accepts /\ ~blind => live = union

\* The module runs on it.
Adopted ==
    accepts /\ ~blind =>
        /\ phase = "up" => cfg = BuildConfig(live)
        /\ phase = "off" => \A k \in DOMAIN atBoot : cfg[k] = atBoot[k]

\* A settled block has every overlay key.
Complete == settled => overlay \subseteq DOMAIN block

\* A boot starts without a simulation.
NotYet == phase \in {"merged", "healed"} => ~simReady

IInv ==
    /\ TypeOK /\ Kept /\ UnionHolds /\ MergeStands /\ Whole
    /\ Adopted /\ Complete /\ NotYet /\ BuffsOffMeansNone
---------------------------------------------------------------------------
USE KeysAssumption, BuffsAssumption, BoundsAssumption

LEMMA BlockType ==
    ASSUME NEW b
    PROVE  b \in Blocks <=> /\ DOMAIN b \subseteq AllKeys
                            /\ b \in [DOMAIN b -> Values]
  <1>1. ASSUME b \in Blocks PROVE DOMAIN b \subseteq AllKeys /\ b \in [DOMAIN b -> Values]
    <2>1. PICK K \in SUBSET AllKeys : b \in [K -> Values]  BY <1>1 DEF Blocks
    <2> QED  BY <2>1
  <1>2. ASSUME DOMAIN b \subseteq AllKeys, b \in [DOMAIN b -> Values] PROVE b \in Blocks
    <2>1. [DOMAIN b -> Values] \in {[K -> Values] : K \in SUBSET AllKeys}  BY <1>2
    <2> QED  BY <2>1, <1>2 DEF Blocks
  <1> QED  BY <1>1, <1>2

\* One more key of a block.
LEMMA WithType ==
    ASSUME NEW b \in Blocks, NEW k \in AllKeys, NEW v \in Values
    PROVE  With(b, k, v) \in Blocks
  <1>1. DOMAIN b \subseteq AllKeys /\ b \in [DOMAIN b -> Values]  BY BlockType
  <1>2. /\ DOMAIN With(b, k, v) \subseteq AllKeys
        /\ With(b, k, v) \in [DOMAIN With(b, k, v) -> Values]
    BY <1>1 DEF With
  <1> QED  BY <1>2, BlockType

\* What the engine makes of a block when it boots.
LEMMA MergeType ==
    ASSUME TypeOK, NEW b \in Blocks
    PROVE  /\ Merged(b) \in Blocks /\ Clobbered(b) \in Blocks
           /\ Extends(Merged(b), b) /\ overlay \subseteq DOMAIN Merged(b)
  <1>1. overlay \subseteq FirstOverlay \cup NewKeys /\ overlay \subseteq AllKeys
    BY DEF TypeOK, AllKeys
  <1>2. DOMAIN b \subseteq AllKeys /\ b \in [DOMAIN b -> Values]  BY BlockType
  <1>3. /\ DOMAIN Merged(b) \subseteq AllKeys /\ Merged(b) \in [DOMAIN Merged(b) -> Values]
        /\ overlay \subseteq DOMAIN Merged(b)
    BY <1>1, <1>2 DEF Merged, Added
  <1>4. DOMAIN Clobbered(b) \subseteq AllKeys /\ Clobbered(b) \in [DOMAIN Clobbered(b) -> Values]
    BY <1>1, <1>2 DEF Clobbered, Added
  <1>5. Extends(Merged(b), b)  BY DEF Extends, Merged
  <1> QED  BY <1>3, <1>4, <1>5, BlockType

\* The config of any block, and that it takes over every value of it.
LEMMA BuildType ==
    ASSUME NEW l \in Blocks
    PROVE  /\ BuildConfig(l) \in [AllKeys -> Values \cup {Nil}]
           /\ \A k \in DOMAIN l : BuildConfig(l)[k] = l[k]
  <1>1. DOMAIN l \subseteq AllKeys /\ l \in [DOMAIN l -> Values]  BY BlockType
  <1> QED  BY <1>1 DEF BuildConfig, AllKeys

LEMMA NothingType == Nothing \in Blocks
  <1>1. DOMAIN Nothing = {}  BY DEF Nothing
  <1>2. Nothing \in [DOMAIN Nothing -> Values]  BY DEF Nothing
  <1> QED  BY <1>1, <1>2, BlockType

LEMMA BuffDomains ==
    ASSUME NEW b, NEW c, NEW d
    PROVE  /\ DOMAIN BuffPhase(c, b) = DOMAIN b
           /\ DOMAIN LiveBuffs(c, d, b) = DOMAIN b
  BY DEF BuffPhase, LiveBuffs, Stripped, Overridden

\* What a write does, taken or not.
LEMMA SetValEffect ==
    ASSUME TypeOK, UnionHolds, phase # "down",
           NEW k \in AllKeys, NEW v \in Values, SetVal(k, v)
    PROVE  /\ block' \in Blocks /\ union' \in Blocks /\ live' \in Blocks
           /\ ~Taken(k) => UNCHANGED store
           /\ Taken(k) => /\ live' = union' /\ block' = union'
                          /\ k \in DOMAIN union' /\ union'[k] = v
                          /\ \A j \in DOMAIN block \ {k} :
                                j \in DOMAIN block' /\ block'[j] = block[j]
                          /\ overlay \subseteq DOMAIN block'
  <1>1. block \in Blocks /\ union \in Blocks /\ live \in Blocks  BY DEF TypeOK
  <1>2. With(union, k, v) \in Blocks  BY <1>1, WithType
  <1>3. Extends(union, block) /\ overlay \subseteq DOMAIN union  BY DEF UnionHolds
  <1>4. CASE ~Taken(k)
    <2>1. UNCHANGED store  BY <1>4 DEF SetVal, Taken
    <2> QED  BY <1>1, <1>4, <2>1 DEF store
  <1>5. CASE Taken(k)
    <2>1. union' = With(union, k, v) /\ live' = union' /\ block' = union'
      BY <1>5 DEF SetVal, Taken
    <2>2. DOMAIN With(union, k, v) = DOMAIN union \cup {k}  BY DEF With
    <2>3. \A j \in DOMAIN union \cup {k} :
            With(union, k, v)[j] = IF j = k THEN v ELSE union[j]
      BY DEF With
    <2>5. \A j \in DOMAIN block \ {k} : j \in DOMAIN block' /\ block'[j] = block[j]
      BY <1>3, <2>1, <2>2, <2>3 DEF Extends
    <2>6. overlay \subseteq DOMAIN block' /\ k \in DOMAIN union' /\ union'[k] = v
      BY <1>3, <2>1, <2>2, <2>3
    <2> QED  BY <1>2, <1>5, <2>1, <2>5, <2>6
  <1> QED  BY <1>4, <1>5

\* A merged boot with nothing to heal is whole already; one with something to
\* heal has a key to heal it through.
LEMMA NothingToHeal ==
    ASSUME TypeOK, MergeStands, phase = "merged", Mismatched = {} \/ HealKeys = {}
    PROVE  live = union /\ (DOMAIN block # {} => overlay \subseteq DOMAIN block)
  <1>1. union = Merged(block) /\ live = Clobbered(block)  BY DEF MergeStands
  <1>2. block \in [DOMAIN block -> Values] /\ overlay \subseteq AllKeys
    BY BlockType DEF TypeOK, AllKeys
  <1>3. CASE Added(block) = {}
    <2>1. live = block  BY <1>1, <1>3 DEF Clobbered
    <2>2. Merged(block) = [k \in DOMAIN block |-> block[k]]  BY <1>3 DEF Merged
    <2>3. union = block  BY <1>1, <1>2, <2>2
    <2>4. overlay \subseteq DOMAIN block  BY <1>3 DEF Added
    <2> QED  BY <2>1, <2>3, <2>4
  <1>4. CASE Added(block) # {}
    <2>1. live = [k \in Added(block) |-> Default[k]]  BY <1>1, <1>4 DEF Clobbered
    <2>2. DOMAIN live = Added(block)  BY <2>1
    <2>3. DOMAIN block = {}
      <3>1. SUFFICES ASSUME NEW b \in DOMAIN block PROVE FALSE  OBVIOUS
      <3>2. b \notin DOMAIN live  BY <2>2 DEF Added
      <3>3. block[b] \in Values  BY <1>2
      <3>4. b \in Mismatched  BY <3>2, <3>3 DEF Mismatched, Get
      <3>5. PICK k \in Added(block) : TRUE  BY <1>4
      <3>6. k \in Writable /\ k \in DOMAIN block \cup DOMAIN live  BY <2>2 DEF Writable, Added
      <3>7. HealKeys # {}
        <4>1. CASE Mismatched \cap Writable # {}  BY <4>1 DEF HealKeys
        <4>2. CASE Mismatched \cap Writable = {}  BY <3>6, <4>2 DEF HealKeys
        <4> QED  BY <4>1, <4>2
      <3> QED  BY <3>4, <3>7
    <2>4. Merged(block) = [k \in Added(block) |-> Default[k]]
      BY <2>3 DEF Merged, Added
    <2> QED  BY <1>1, <2>1, <2>3, <2>4
  <1> QED  BY <1>3, <1>4

\* The key of a heal is registered, and its value the file's where there is one.
LEMMA HealKeyType ==
    ASSUME TypeOK, NEW k \in HealKeys
    PROVE  /\ k \in overlay /\ k \in AllKeys /\ HealValue(k) \in Values
           /\ k \in DOMAIN block => HealValue(k) = block[k]
  <1>1. /\ block \in [DOMAIN block -> Values] /\ live \in [DOMAIN live -> Values]
        /\ overlay \subseteq AllKeys
    BY BlockType DEF TypeOK, AllKeys
  <1>2. k \in overlay /\ k \in DOMAIN block \cup DOMAIN live
    <2>1. CASE Mismatched \cap Writable # {}  BY <2>1 DEF HealKeys, Mismatched, Writable
    <2>2. CASE Mismatched \cap Writable = {}  BY <2>2 DEF HealKeys, Writable
    <2> QED  BY <2>1, <2>2
  <1> QED  BY <1>1, <1>2 DEF HealValue

LEMMA HealStep == IInv /\ Heal => IInv'
  <1> SUFFICES ASSUME IInv, Heal PROVE IInv'  OBVIOUS
  <1>1. /\ TypeOK /\ Kept /\ UnionHolds /\ MergeStands /\ Whole
        /\ Adopted /\ Complete /\ NotYet /\ BuffsOffMeansNone
    BY DEF IInv
  <1>2. /\ phase = "merged" /\ phase' = "healed"
        /\ settled' = (accepts /\ DOMAIN block # {})
        /\ UNCHANGED <<overlay, accepts, cfg, simReady, buffs, saves, edits, asked, atBoot, blind>>
    BY DEF Heal, module
  <1>3. CASE Mismatched = {} \/ HealKeys = {}
    <2>1. UNCHANGED <<block, union, live>>  BY <1>3 DEF Heal, store
    <2>2. live = union /\ (DOMAIN block # {} => overlay \subseteq DOMAIN block)
      BY <1>1, <1>2, <1>3, NothingToHeal
    <2>3. TypeOK'  BY <1>1, <1>2, <2>1 DEF TypeOK
    <2>4. Kept' /\ UnionHolds'  BY <1>1, <1>2, <2>1 DEF Kept, UnionHolds, Extends
    <2>5. Whole' /\ Complete'  BY <1>2, <2>1, <2>2 DEF Whole, Complete
    <2>6. MergeStands' /\ Adopted' /\ NotYet' /\ BuffsOffMeansNone'
      BY <1>1, <1>2 DEF MergeStands, Adopted, NotYet, BuffsOffMeansNone
    <2> QED  BY <2>3, <2>4, <2>5, <2>6 DEF IInv
  <1>4. CASE ~(Mismatched = {} \/ HealKeys = {})
    <2>1. PICK k \in HealKeys : SetVal(k, HealValue(k))  BY <1>4 DEF Heal
    <2>2. /\ k \in overlay /\ k \in AllKeys /\ HealValue(k) \in Values
          /\ k \in DOMAIN block => HealValue(k) = block[k]
      BY <1>1, HealKeyType
    <2>3. Taken(k) <=> accepts  BY <2>2 DEF Taken
    <2>4. /\ block' \in Blocks /\ union' \in Blocks /\ live' \in Blocks
          /\ ~accepts => UNCHANGED <<block, union, live>>
          /\ accepts => /\ live' = union' /\ block' = union'
                        /\ k \in DOMAIN union' /\ union'[k] = HealValue(k)
                        /\ \A j \in DOMAIN block \ {k} :
                              j \in DOMAIN block' /\ block'[j] = block[j]
                        /\ overlay \subseteq DOMAIN block'
      BY <1>1, <1>2, <2>1, <2>2, <2>3, SetValEffect DEF store
    <2>5. TypeOK'  BY <1>1, <1>2, <2>4 DEF TypeOK
    <2>6. ASSUME ~accepts PROVE Kept' /\ UnionHolds' /\ Whole' /\ Complete'
      <3>1. Kept' /\ UnionHolds'
        BY <1>1, <1>2, <2>4, <2>6 DEF Kept, UnionHolds, Extends
      <3>2. Whole' /\ Complete'  BY <1>2, <2>6 DEF Whole, Complete
      <3> QED  BY <3>1, <3>2
    <2>7. ASSUME accepts PROVE Kept' /\ UnionHolds' /\ Whole' /\ Complete'
      <3>1. Kept'  BY <1>1, <1>2, <2>2, <2>4, <2>7 DEF Kept, Extends
      <3>2. UnionHolds' /\ Whole' /\ Complete'
        BY <1>2, <2>4, <2>7 DEF UnionHolds, Extends, Whole, Complete
      <3> QED  BY <3>1, <3>2
    <2>8. Kept' /\ UnionHolds' /\ Whole' /\ Complete'
      BY <2>6, <2>7
    <2>9. MergeStands' /\ Adopted' /\ NotYet' /\ BuffsOffMeansNone'
      BY <1>1, <1>2 DEF MergeStands, Adopted, NotYet, BuffsOffMeansNone
    <2> QED  BY <2>5, <2>8, <2>9 DEF IInv
  <1> QED  BY <1>3, <1>4

LEMMA InitHolds == Init => IInv
  <1> SUFFICES ASSUME Init PROVE IInv  OBVIOUS
  <1>1. BuildConfig(Nothing) \in [AllKeys -> Values \cup {Nil}]  BY NothingType, BuildType
  <1>2. TypeOK  BY <1>1 DEF Init, TypeOK
  <1>3. Kept /\ UnionHolds /\ MergeStands /\ Whole
    BY DEF Init, Kept, Extends, UnionHolds, MergeStands, Whole, Running
  <1>4. Adopted /\ Complete /\ NotYet /\ BuffsOffMeansNone
    BY DEF Init, Adopted, Complete, NotYet, BuffsOffMeansNone
  <1> QED  BY <1>2, <1>3, <1>4 DEF IInv

LEMMA HealBlindStep == IInv /\ HealBlind => IInv'
  <1> SUFFICES ASSUME IInv, HealBlind PROVE IInv'  OBVIOUS
  <1>1. /\ TypeOK /\ Kept /\ UnionHolds /\ Complete /\ NotYet  BY DEF IInv
  <1>2. /\ phase = "merged" /\ phase' = "healed" /\ blind' = TRUE
        /\ UNCHANGED <<overlay, block, union, live, accepts, cfg, simReady, buffs, saves, edits,
                       asked, atBoot, settled>>
    BY DEF HealBlind, store, module
  <1>3. TypeOK'  BY <1>1, <1>2 DEF TypeOK
  <1>4. Kept' /\ UnionHolds' /\ Complete' /\ NotYet'
    BY <1>1, <1>2 DEF Kept, Extends, UnionHolds, Complete, NotYet
  <1>5. MergeStands' /\ Whole' /\ Adopted' /\ BuffsOffMeansNone'
    BY <1>2 DEF MergeStands, Whole, Adopted, BuffsOffMeansNone
  <1> QED  BY <1>3, <1>4, <1>5 DEF IInv

LEMMA LoadConfigStep == IInv /\ LoadConfig => IInv'
  <1> SUFFICES ASSUME IInv, LoadConfig PROVE IInv'  OBVIOUS
  <1>1. /\ TypeOK /\ Kept /\ UnionHolds /\ Whole /\ Complete /\ NotYet  BY DEF IInv
  <1>2. /\ phase = "healed" /\ phase' \in {"off", "up"} /\ atBoot' = asked
        /\ cfg' = BuildConfig(live)
        /\ UNCHANGED <<overlay, block, union, live, accepts, simReady, buffs, saves, edits,
                       asked, blind, settled>>
    BY DEF LoadConfig, store
  <1>3. live \in Blocks  BY <1>1 DEF TypeOK
  <1>4. /\ cfg' \in [AllKeys -> Values \cup {Nil}]
        /\ \A k \in DOMAIN live : cfg'[k] = live[k]
    BY <1>2, <1>3, BuildType
  <1>5. TypeOK'  BY <1>1, <1>2, <1>4 DEF TypeOK
  <1>6. Kept' /\ UnionHolds' /\ Whole' /\ Complete'
    BY <1>1, <1>2 DEF Kept, Extends, UnionHolds, Whole, Running, Complete
  <1>7. Adopted'
    <2>1. ASSUME accepts, ~blind PROVE \A k \in DOMAIN asked : cfg'[k] = asked[k]
      <3>1. live = union  BY <1>1, <1>2, <2>1 DEF Whole, Running
      <3>2. Extends(union, block) /\ Extends(block, asked)
        BY <1>1, <1>2 DEF UnionHolds, Kept
      <3> QED  BY <1>4, <3>1, <3>2 DEF Extends
    <2> QED  BY <1>2, <2>1 DEF Adopted
  <1>8. MergeStands' /\ NotYet' /\ BuffsOffMeansNone'
    BY <1>1, <1>2 DEF MergeStands, NotYet, BuffsOffMeansNone
  <1> QED  BY <1>5, <1>6, <1>7, <1>8 DEF IInv

LEMMA StartSimStep == IInv /\ StartSim => IInv'
  <1> SUFFICES ASSUME IInv, StartSim PROVE IInv'  OBVIOUS
  <1>1. /\ TypeOK /\ Kept /\ UnionHolds /\ MergeStands /\ Whole /\ Adopted /\ Complete
    BY DEF IInv
  <1>2. /\ phase = "up" /\ buffs' = BuffPhase(cfg, buffs) /\ simReady' = TRUE
        /\ UNCHANGED <<overlay, block, union, live, accepts, phase, cfg, saves, edits,
                       asked, atBoot, blind, settled>>
    BY DEF StartSim, store, history
  <1>3. TypeOK'  BY <1>1, <1>2, BuffDomains DEF TypeOK
  <1>4. Kept' /\ UnionHolds' /\ MergeStands' /\ Complete'
    BY <1>1, <1>2 DEF Kept, Extends, UnionHolds, MergeStands, Merged, Clobbered, Added, Complete
  <1>5. Whole' /\ Adopted' /\ NotYet'
    BY <1>1, <1>2 DEF Whole, Running, Adopted, NotYet
  <1>6. BuffsOffMeansNone'
    BY <1>2 DEF BuffsOffMeansNone, BuffPhase, Stripped, BuffsOff
  <1> QED  BY <1>3, <1>4, <1>5, <1>6 DEF IInv

LEMMA StopStep == IInv /\ Stop => IInv'
  <1> SUFFICES ASSUME IInv, Stop PROVE IInv'  OBVIOUS
  <1>1. TypeOK /\ Kept /\ Complete  BY DEF IInv
  <1>2. /\ phase' = "down"
        /\ UNCHANGED <<overlay, block, union, live, accepts, cfg, simReady, buffs, saves, edits,
                       asked, atBoot, blind, settled>>
    BY DEF Stop, store, module, history
  <1>3. TypeOK'  BY <1>1, <1>2 DEF TypeOK
  <1>4. Kept' /\ Complete'  BY <1>1, <1>2 DEF Kept, Extends, Complete
  <1>5. UnionHolds' /\ MergeStands' /\ Whole' /\ Adopted' /\ NotYet' /\ BuffsOffMeansNone'
    BY <1>2 DEF UnionHolds, MergeStands, Whole, Running, Adopted, NotYet, BuffsOffMeansNone
  <1> QED  BY <1>3, <1>4, <1>5 DEF IInv

LEMMA BootStep == IInv /\ Boot => IInv'
  <1> SUFFICES ASSUME IInv, Boot PROVE IInv'  OBVIOUS
  <1>1. TypeOK /\ Kept /\ Complete  BY DEF IInv
  <1>2. /\ phase' = "merged" /\ union' = Merged(block) /\ live' = Clobbered(block)
        /\ cfg' = BuildConfig(Nothing) /\ simReady' = FALSE /\ buffs' = Shipped /\ blind' = FALSE
        /\ UNCHANGED <<overlay, block, accepts, saves, edits, asked, atBoot, settled>>
    BY DEF Boot
  <1>3. /\ Merged(block) \in Blocks /\ Clobbered(block) \in Blocks
        /\ Extends(Merged(block), block) /\ overlay \subseteq DOMAIN Merged(block)
    BY <1>1, MergeType DEF TypeOK
  <1>4. cfg' \in [AllKeys -> Values \cup {Nil}]  BY <1>2, NothingType, BuildType
  <1>5. TypeOK'  BY <1>1, <1>2, <1>3, <1>4 DEF TypeOK
  <1>6. Kept' /\ UnionHolds' /\ Complete'
    BY <1>1, <1>2, <1>3 DEF Kept, Extends, UnionHolds, Complete
  <1>7. MergeStands'  BY <1>2 DEF MergeStands, Merged, Clobbered, Added
  <1>8. Whole' /\ Adopted' /\ NotYet' /\ BuffsOffMeansNone'
    BY <1>2 DEF Whole, Running, Adopted, NotYet, BuffsOffMeansNone
  <1> QED  BY <1>5, <1>6, <1>7, <1>8 DEF IInv

\* While the server is down only the file, the overlay and the counts move.
LEMMA DownStep ==
    ASSUME IInv, phase = "down", phase' = "down", TypeOK', Kept', Complete'
    PROVE  IInv'
  BY DEF IInv, UnionHolds, MergeStands, Whole, Running, Adopted, NotYet, BuffsOffMeansNone

LEMMA EditStep ==
    ASSUME IInv, NEW k \in AllKeys, NEW v \in Values, Edit(k, v)
    PROVE  IInv'
  <1>1. TypeOK /\ Kept /\ Complete  BY DEF IInv
  <1>2. /\ phase = "down" /\ phase' = "down"
        /\ block' = With(block, k, v) /\ asked' = With(asked, k, v)
        /\ UNCHANGED <<overlay, union, live, accepts, cfg, simReady, buffs, saves,
                       atBoot, blind, settled>>
    BY DEF Edit, module
  <1>3. With(block, k, v) \in Blocks /\ With(asked, k, v) \in Blocks
    BY <1>1, WithType DEF TypeOK
  <1>4. TypeOK'  BY <1>1, <1>2, <1>3 DEF TypeOK
  <1>5. Kept' /\ Complete'  BY <1>1, <1>2 DEF Kept, Extends, Complete, With
  <1> QED  BY <1>2, <1>4, <1>5, DownStep

LEMMA RemoveStep ==
    ASSUME IInv, NEW k \in AllKeys, Remove(k)
    PROVE  IInv'
  <1>1. TypeOK /\ Kept  BY DEF IInv
  <1>2. /\ phase = "down" /\ phase' = "down" /\ settled' = FALSE
        /\ block' = [x \in DOMAIN block \ {k} |-> block[x]]
        /\ asked' = [x \in DOMAIN asked \ {k} |-> asked[x]]
        /\ UNCHANGED <<overlay, union, live, accepts, cfg, simReady, buffs, saves,
                       atBoot, blind>>
    BY DEF Remove, module
  <1>3. block' \in Blocks
    <2>1. DOMAIN block \subseteq AllKeys /\ block \in [DOMAIN block -> Values]
      BY <1>1, BlockType DEF TypeOK
    <2>2. DOMAIN block' \subseteq AllKeys /\ block' \in [DOMAIN block' -> Values]
      BY <1>2, <2>1
    <2> QED  BY <2>2, BlockType
  <1>4. asked' \in Blocks
    <2>1. DOMAIN asked \subseteq AllKeys /\ asked \in [DOMAIN asked -> Values]
      BY <1>1, BlockType DEF TypeOK
    <2>2. DOMAIN asked' \subseteq AllKeys /\ asked' \in [DOMAIN asked' -> Values]
      BY <1>2, <2>1
    <2> QED  BY <2>2, BlockType
  <1>5. TypeOK'  BY <1>1, <1>2, <1>3, <1>4 DEF TypeOK
  <1>6. Kept' /\ Complete'  BY <1>1, <1>2 DEF Kept, Extends, Complete
  <1> QED  BY <1>2, <1>5, <1>6, DownStep

LEMMA UpdateStep == IInv /\ Update => IInv'
  <1> SUFFICES ASSUME IInv, Update PROVE IInv'  OBVIOUS
  <1>1. TypeOK /\ Kept  BY DEF IInv
  <1>2. /\ phase = "down" /\ phase' = "down" /\ settled' = FALSE
        /\ overlay' = FirstOverlay \cup NewKeys
        /\ UNCHANGED <<block, union, live, accepts, cfg, simReady, buffs, saves, edits,
                       asked, atBoot, blind>>
    BY DEF Update, store, module
  <1>3. TypeOK'  BY <1>1, <1>2 DEF TypeOK
  <1>4. Kept' /\ Complete'  BY <1>1, <1>2 DEF Kept, Extends, Complete
  <1> QED  BY <1>2, <1>3, <1>4, DownStep

LEMMA SaveStep ==
    ASSUME IInv, NEW k \in AllKeys, NEW v \in Values, Save(k, v)
    PROVE  IInv'
  <1>1. /\ TypeOK /\ Kept /\ UnionHolds /\ Whole /\ Adopted /\ Complete /\ BuffsOffMeansNone
    BY DEF IInv
  <1>2. /\ phase \in {"up", "off"} /\ k \in overlay /\ SetVal(k, v)
        /\ UNCHANGED <<overlay, accepts, phase, simReady, edits, atBoot, blind>>
    BY DEF Save, Writable
  <1>3. Taken(k) <=> accepts  BY <1>2 DEF Taken
  <1>4. CASE ~accepts
    <2>1. UNCHANGED <<block, union, live, cfg, buffs, asked, settled>>
      <3>1. UNCHANGED <<block, union, live>>  BY <1>2, <1>3, <1>4 DEF SetVal, Taken, store
      <3>2. UNCHANGED <<cfg, buffs, asked>>  BY <1>3, <1>4 DEF Save
      <3>3. settled' = (settled \/ FALSE)  BY <1>3, <1>4 DEF Save
      <3>4. UNCHANGED settled  BY <1>1, <3>3 DEF TypeOK
      <3> QED  BY <3>1, <3>2, <3>4
    <2>2. TypeOK'  BY <1>1, <1>2, <2>1 DEF TypeOK
    <2>3. Kept' /\ UnionHolds' /\ Complete'
      BY <1>1, <1>2, <2>1 DEF Kept, Extends, UnionHolds, Complete
    <2>4. MergeStands' /\ NotYet'  BY <1>2 DEF MergeStands, NotYet
    <2>5. Whole' /\ Adopted'  BY <1>2, <1>4 DEF Whole, Adopted
    <2>6. BuffsOffMeansNone'  BY <1>1, <1>2, <2>1 DEF BuffsOffMeansNone
    <2> QED  BY <2>2, <2>3, <2>4, <2>5, <2>6 DEF IInv
  <1>5. CASE accepts
    <2>1. /\ block' \in Blocks /\ union' \in Blocks /\ live' \in Blocks
          /\ live' = union' /\ block' = union'
          /\ k \in DOMAIN union' /\ union'[k] = v
          /\ \A j \in DOMAIN block \ {k} : j \in DOMAIN block' /\ block'[j] = block[j]
          /\ overlay \subseteq DOMAIN block'
      BY <1>1, <1>2, <1>3, <1>5, SetValEffect
    <2>2. asked' = With(asked, k, v) /\ settled' = TRUE
      BY <1>1, <1>3, <1>5 DEF Save, TypeOK
    <2>3. phase = "up" => cfg' = BuildConfig(live')  BY <1>3, <1>5 DEF Save
    <2>4. phase = "off" => UNCHANGED <<cfg, buffs>>  BY DEF Save
    <2>5. phase = "up" =>
            buffs' = IF simReady /\ k = BuffsEnabled THEN LiveBuffs(cfg, cfg', buffs) ELSE buffs
      BY <1>3, <1>5 DEF Save
    <2>6. TypeOK'
      <3>1. asked' \in Blocks  BY <1>1, <2>2, WithType DEF TypeOK
      <3>2. cfg' \in [AllKeys -> Values \cup {Nil}]
        BY <1>1, <1>2, <2>1, <2>3, <2>4, BuildType DEF TypeOK
      <3>3. DOMAIN buffs' = DOMAIN Shipped
        <4>1. DOMAIN LiveBuffs(cfg, cfg', buffs) = DOMAIN buffs  BY BuffDomains
        <4> QED  BY <1>1, <1>2, <2>4, <2>5, <4>1 DEF TypeOK
      <3> QED  BY <1>1, <1>2, <2>1, <2>2, <3>1, <3>2, <3>3 DEF TypeOK
    <2>7. Kept'  BY <1>1, <2>1, <2>2 DEF Kept, Extends, With
    <2>8. UnionHolds' /\ Complete'
      BY <1>2, <2>1 DEF UnionHolds, Extends, Complete
    <2>9. Whole' /\ MergeStands' /\ NotYet'
      BY <1>2, <2>1 DEF Whole, MergeStands, NotYet
    <2>10. Adopted'  BY <1>1, <1>2, <2>3, <2>4 DEF Adopted
    <2>11. BuffsOffMeansNone'
      <3> SUFFICES ASSUME simReady, phase = "up", ~blind, BuffsOff(cfg')
                   PROVE  \A s \in DOMAIN buffs' : buffs'[s] = {}
        BY <1>2 DEF BuffsOffMeansNone
      <3>1. CASE k = BuffsEnabled
        <4>1. buffs' = LiveBuffs(cfg, cfg', buffs)  BY <2>5, <3>1
        <4>2. CASE BuffsOff(cfg)
          BY <1>1, <4>1, <4>2 DEF BuffsOffMeansNone, LiveBuffs
        <4>3. CASE ~BuffsOff(cfg)
          BY <4>1, <4>3 DEF LiveBuffs, Stripped
        <4> QED  BY <4>2, <4>3
      <3>2. CASE k # BuffsEnabled
        <4>1. cfg = BuildConfig(live) /\ live = union
          BY <1>1, <1>5 DEF Adopted, Whole, Running
        <4>2. With(union, k, v) = union'  BY <1>2, <1>3, <1>5 DEF SetVal, Taken
        <4>3. BuffsEnabled \in AllKeys /\ BuffsEnabled \notin OverrideKeys  BY DEF AllKeys
        <4>4. cfg'[BuffsEnabled] = cfg[BuffsEnabled]
          BY <2>1, <2>3, <3>2, <4>1, <4>2, <4>3 DEF BuildConfig, With
        <4>5. BuffsOff(cfg)  BY <4>4 DEF BuffsOff
        <4> QED  BY <1>1, <2>5, <3>2, <4>5 DEF BuffsOffMeansNone
      <3> QED  BY <3>1, <3>2
    <2> QED  BY <2>6, <2>7, <2>8, <2>9, <2>10, <2>11 DEF IInv
  <1> QED  BY <1>4, <1>5

LEMMA StutterStep == IInv /\ UNCHANGED vars => IInv'
  <1> SUFFICES ASSUME IInv, UNCHANGED vars PROVE IInv'  OBVIOUS
  <1>1. UNCHANGED <<overlay, block, union, live, accepts, phase, cfg, simReady, buffs, saves,
                    edits, asked, atBoot, blind, settled>>
    BY DEF vars, store, module, history
  <1>2. /\ TypeOK /\ Kept /\ UnionHolds /\ MergeStands /\ Whole
        /\ Adopted /\ Complete /\ NotYet /\ BuffsOffMeansNone
    BY DEF IInv
  <1>3. TypeOK'  BY <1>1, <1>2 DEF TypeOK
  <1>4. Kept' /\ UnionHolds' /\ Complete'
    BY <1>1, <1>2 DEF Kept, Extends, UnionHolds, Complete
  <1>5. MergeStands'  BY <1>1, <1>2 DEF MergeStands, Merged, Clobbered, Added
  <1>6. Whole' /\ Adopted' /\ NotYet'  BY <1>1, <1>2 DEF Whole, Running, Adopted, NotYet
  <1>7. BuffsOffMeansNone'  BY <1>1, <1>2 DEF BuffsOffMeansNone
  <1> QED  BY <1>3, <1>4, <1>5, <1>6, <1>7 DEF IInv

\* IInv is inductive.
THEOREM HealInvariant == Spec => []IInv
  <1>1. IInv /\ [Next]_vars => IInv'
    <2> SUFFICES ASSUME IInv, [Next]_vars PROVE IInv'  OBVIOUS
    <2>1. CASE UNCHANGED vars  BY <2>1, StutterStep
    <2>2. CASE Next
      BY <2>2, BootStep, HealStep, HealBlindStep, LoadConfigStep, StartSimStep, StopStep,
         UpdateStep, SaveStep, EditStep, RemoveStep DEF Next
    <2> QED  BY <2>1, <2>2
  <1> QED  BY InitHolds, <1>1, PTL DEF Spec
---------------------------------------------------------------------------
\* Every variable holds a value of its kind, over any boots, saves, edits and
\* updates.
THEOREM TypeCorrect == Spec => []TypeOK
  BY HealInvariant, PTL DEF IInv

\* No heal, boot or save ever loses what the operator asked for from the file
\* (one write puts back the whole union, healClobberedConfig).
THEOREM FileKept == Spec => []FileKeepsWhatWasAsked
  <1>1. IInv => FileKeepsWhatWasAsked
    BY DEF IInv, Kept, Extends, FileKeepsWhatWasAsked, Get
  <1> QED  BY HealInvariant, <1>1, PTL

\* The boot that wipes the live config already runs on what was asked
\* (the heal before the read in onLoad).
THEOREM Honoured == Spec => []OperatorIsHonoured
  <1>1. IInv => OperatorIsHonoured
    <2> SUFFICES ASSUME IInv, accepts, ~blind
                 PROVE  /\ phase = "up" => \A k \in DOMAIN asked : cfg[k] = asked[k]
                        /\ phase = "off" => \A k \in DOMAIN atBoot : cfg[k] = atBoot[k]
      BY DEF OperatorIsHonoured
    <2>1. TypeOK /\ Kept /\ UnionHolds /\ Whole /\ Adopted  BY DEF IInv
    <2>2. ASSUME phase = "up", NEW k \in DOMAIN asked PROVE cfg[k] = asked[k]
      <3>1. cfg = BuildConfig(live) /\ live = union /\ live \in Blocks
        BY <2>1, <2>2 DEF Adopted, Whole, Running, TypeOK
      <3>2. k \in DOMAIN union /\ union[k] = asked[k]
        BY <2>1, <2>2 DEF Kept, UnionHolds, Extends
      <3>3. \A j \in DOMAIN live : BuildConfig(live)[j] = live[j]  BY <3>1, BuildType
      <3> QED  BY <3>1, <3>2, <3>3
    <2> QED  BY <2>1, <2>2 DEF Adopted
  <1> QED  BY HealInvariant, <1>1, PTL

\* Once healed the block stays complete, so no later boot wipes anything.
THEOREM Healed == Spec => []HealedForGood
  <1>1. IInv => HealedForGood
    <2> SUFFICES ASSUME IInv, settled, phase = "merged" PROVE Mismatched = {}
      BY DEF HealedForGood
    <2>1. MergeStands /\ Complete  BY DEF IInv
    <2>2. Added(block) = {}  BY <2>1 DEF Complete, Added
    <2>3. live = block  BY <2>1, <2>2 DEF MergeStands, Clobbered
    <2> QED  BY <2>3 DEF Mismatched, Get
  <1> QED  BY HealInvariant, <1>1, PTL

\* Disabled buffs are gone from every spec, overrides or not (applyBuffConfig,
\* the live applier of BuffsEnabled).
THEOREM BuffsStayOff == Spec => []BuffsOffMeansNone
  BY HealInvariant, PTL DEF IInv
=============================================================================
