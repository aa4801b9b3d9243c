------------------------------- MODULE ConfigHeal -------------------------------
(***************************************************************************)
(* The module's config over boots: the operator's block in the file        *)
(* config-overrides.yaml, the engine's merge of it with the module's       *)
(* overlay, which on the first boot after an update wipes the operator's   *)
(* values from the live config, the self-heal that runs before the config  *)
(* is read (healClobberedConfig), what the module makes of the config      *)
(* (buildConfig, onLoad), and the buff phase when the simulation starts    *)
(* (applyBuffConfig).                                                      *)
(*                                                                         *)
(* Abstractions.  A block is a partial function from flat keys to values;  *)
(* the file's spelling, its types and canonical forms are left out.  The   *)
(* code writes back the first fitting key in name order, the model any.    *)
(* The engine is modelled from weather_config.go:309-338, its boot and one *)
(* successful SetVal; how saves race is ConfigApply's matter, so here an   *)
(* admin's save is adopted at once.                                        *)
(***************************************************************************)
EXTENDS Naturals, FiniteSets

CONSTANTS
    FirstOverlay,   \* the keys of the overlay before any update
    NewKeys,        \* keys an update of the module adds to it
    OverrideKeys,   \* the BuffOverrides.<type> keys: in no overlay
    Values,         \* values of every key
    Default,        \* key -> the overlay's and buildConfig's default
    OverriddenBuffs,\* usable override value -> the buff list it stands for
    Shipped,        \* mutator spec -> the buffs of its data file
    SpecOf,         \* override key -> the outdoor spec it names
    MaxSaves,       \* bound: admin saves
    MaxEdits        \* bound: edits of the file by hand

AllKeys == FirstOverlay \cup NewKeys \cup OverrideKeys
Enabled == "Enabled"
BuffsEnabled == "BuffsEnabled"
Nil == "nil"            \* a key that is not there
Blocks == UNION {[K -> Values] : K \in SUBSET AllKeys}

ASSUME KeysAssumption ==
    /\ {Enabled, BuffsEnabled} \subseteq FirstOverlay
    /\ OverrideKeys \cap (FirstOverlay \cup NewKeys) = {}
    /\ {"true", "false"} \subseteq Values /\ Nil \notin Values
    /\ Default \in [FirstOverlay \cup NewKeys -> Values]
    /\ Default[Enabled] = "true" /\ Default[BuffsEnabled] = "true"

ASSUME BuffsAssumption ==
    /\ DOMAIN OverriddenBuffs \subseteq Values
    /\ SpecOf \in [OverrideKeys -> DOMAIN Shipped]
    /\ \A j, k \in OverrideKeys : SpecOf[j] = SpecOf[k] => j = k

ASSUME BoundsAssumption == MaxSaves \in Nat /\ MaxEdits \in Nat

VARIABLES
    overlay,    \* the keys of the installed overlay: those the engine registers
    block,      \* the file's Modules.weather block; empty if there is none
    union,      \* the engine's overrides in memory
    live,       \* the engine's live Modules.weather
    accepts,    \* the engine accepts writes of registered keys
    phase,      \* "down", "merged" (plugins.Load), "healed", "off" or "up"
    cfg,        \* m.cfg: every key's value, Nil for an absent override
    simReady,   \* m.simReady
    buffs,      \* mutator spec -> its buffs
    saves,      \* admin saves so far (bound)
    edits,      \* edits of the file so far (bound)
    asked,      \* history: what the operator last asked for, by file or save
    atBoot,     \* history: asked when the module loaded
    blind,      \* history: this boot's heal could not read the file
    settled     \* history: a heal or a save went over the block since keys went missing

store == <<block, union, live>>
module == <<cfg, simReady, buffs>>
history == <<asked, atBoot, blind, settled>>
vars == <<overlay, store, accepts, phase, module, saves, edits, history>>

With(f, k, v) == [x \in DOMAIN f \cup {k} |-> IF x = k THEN v ELSE f[x]]
Nothing == [k \in {} |-> Nil]
Get(f, k) == IF k \in DOMAIN f THEN f[k] ELSE Nil
---------------------------------------------------------------------------
(***************************************************************************)
(* The engine                                                              *)
(***************************************************************************)
Added(b) == overlay \ DOMAIN b

\* External: AddOverlayOverrides hands over the overlay keys the block lacks,
\* and if there are any, they replace the live block.
Merged(b) == [k \in DOMAIN b \cup Added(b) |-> IF k \in DOMAIN b THEN b[k] ELSE Default[k]]
Clobbered(b) == IF Added(b) = {} THEN b ELSE [k \in Added(b) |-> Default[k]]

\* External: SetVal of a registered key applies the whole union and writes it
\* to the file; any other write is discarded (PluginConfig.Set).
SetVal(k, v) ==
    IF accepts /\ k \in overlay
    THEN union' = With(union, k, v) /\ live' = union' /\ block' = union'
    ELSE UNCHANGED store

Taken(k) == accepts /\ k \in overlay
---------------------------------------------------------------------------
(***************************************************************************)
(* The module                                                              *)
(***************************************************************************)
Mismatched == {k \in DOMAIN block : Get(live, k) # block[k]}

\* registeredConfigKey and writableConfigKeys: pinned to the overlay's keys.
Writable == overlay

\* Mutated form: the key is written back with what the wiped config holds.
HealValueLive(k) == IF k \in DOMAIN live THEN live[k] ELSE Default[k]

\* The value a key is written back with: the file's, else the live one.
HealValue(k) == IF k \in DOMAIN block THEN block[k] ELSE live[k]

\* Mutated form: only a mismatched key of the overlay is healed through.
HealKeysMismatched == Mismatched \cap Writable

\* A mismatched registered key, else any registered key that has a value.
HealKeys ==
    IF Mismatched \cap Writable # {}
    THEN Mismatched \cap Writable
    ELSE {k \in Writable : k \in DOMAIN block \cup DOMAIN live}

\* Mutated form: the wiped values are put back in the live config only.
HealLiveOnly ==
    /\ phase = "merged" /\ phase' = "healed"
    /\ live' = IF Mismatched = {} \/ ~accepts THEN live ELSE union
    /\ settled' = (accepts /\ DOMAIN block # {})
    /\ UNCHANGED <<overlay, block, union, accepts, module, saves, edits, asked, atBoot, blind>>

\* healClobberedConfig: nothing without a block or a mismatch, one write else.
Heal ==
    /\ phase = "merged" /\ phase' = "healed"
    /\ IF Mismatched = {} \/ HealKeys = {}
       THEN UNCHANGED store
       ELSE \E k \in HealKeys : SetVal(k, HealValue(k))
    /\ settled' = (accepts /\ DOMAIN block # {})
    /\ UNCHANGED <<overlay, accepts, module, saves, edits, asked, atBoot, blind>>

\* The file cannot be read or parsed: a warning, and the boot goes on.
HealBlind ==
    /\ phase = "merged" /\ phase' = "healed"
    /\ blind' = TRUE
    /\ UNCHANGED <<overlay, store, accepts, module, saves, edits, asked, atBoot, settled>>

\* buildConfig: defaults for what is absent; an override has none.
BuildConfig(l) ==
    [k \in AllKeys |-> IF k \in DOMAIN l THEN l[k]
                       ELSE IF k \in OverrideKeys THEN Nil ELSE Default[k]]

\* onLoad after the heal: a disabled module registers no listeners.
LoadConfig ==
    /\ phase = "healed"
    /\ cfg' = BuildConfig(live)
    /\ phase' = IF cfg'[Enabled] = "false" THEN "off" ELSE "up"
    /\ atBoot' = asked
    /\ UNCHANGED <<overlay, store, accepts, simReady, buffs, saves, edits, asked, blind, settled>>

BuffsOff(c) == c[BuffsEnabled] = "false"

\* buffOverrides and ApplyBuffOverrides: a usable override replaces the buffs
\* of its outdoor spec.
Overrides(c) ==
    {k \in OverrideKeys : c[k] \in DOMAIN OverriddenBuffs}
Overridden(c, b) ==
    [s \in DOMAIN b |->
        IF \E k \in Overrides(c) : SpecOf[k] = s
        THEN OverriddenBuffs[c[CHOOSE k \in Overrides(c) : SpecOf[k] = s]]
        ELSE b[s]]

\* StripBuffs: every spec of the module, overridden or not.
Stripped(b) == [s \in DOMAIN b |-> {}]

\* Mutated form: the overrides come last.
BuffPhaseSwapped(c, b) ==
    Overridden(c, IF BuffsOff(c) THEN Stripped(b) ELSE b)

\* applyBuffConfig: overrides first, then the strip.
BuffPhase(c, b) ==
    IF BuffsOff(c) THEN Stripped(Overridden(c, b)) ELSE Overridden(c, b)

\* startSim, once there is a graph.
StartSim ==
    /\ phase = "up" /\ ~simReady /\ simReady' = TRUE
    /\ buffs' = BuffPhase(cfg, buffs)
    /\ UNCHANGED <<overlay, store, accepts, phase, cfg, saves, edits, history>>

\* The live applier of BuffsEnabled: it strips, and never restores.
LiveBuffs(old, new, b) == IF ~BuffsOff(old) /\ BuffsOff(new) THEN Stripped(b) ELSE b

\* An admin's save, from the write to the applier.  The web side serves a
\* disabled module as well, which has no listener to adopt anything.
Save(k, v) ==
    /\ phase \in {"up", "off"} /\ k \in Writable /\ saves < MaxSaves
    /\ SetVal(k, v) /\ saves' = saves + 1
    /\ asked' = IF Taken(k) THEN With(asked, k, v) ELSE asked
    /\ settled' = (settled \/ Taken(k))
    /\ IF phase = "up" /\ Taken(k)
       THEN /\ cfg' = BuildConfig(live')
            /\ buffs' = IF simReady /\ k = BuffsEnabled THEN LiveBuffs(cfg, cfg', buffs) ELSE buffs
       ELSE UNCHANGED <<cfg, buffs>>
    /\ UNCHANGED <<overlay, accepts, phase, simReady, edits, atBoot, blind>>
---------------------------------------------------------------------------
(***************************************************************************)
(* The world around                                                        *)
(***************************************************************************)
\* The server starts: the engine reads the file and merges the overlay.
Boot ==
    /\ phase = "down" /\ phase' = "merged"
    /\ union' = Merged(block) /\ live' = Clobbered(block)
    /\ cfg' = BuildConfig(Nothing) /\ simReady' = FALSE /\ buffs' = Shipped
    /\ blind' = FALSE
    /\ UNCHANGED <<overlay, block, accepts, saves, edits, asked, atBoot, settled>>

\* The server stops or dies, at whatever step it is.
Stop ==
    /\ phase # "down" /\ phase' = "down"
    /\ UNCHANGED <<overlay, store, accepts, module, saves, edits, history>>

\* While it is down: the operator edits the block by hand,
Edit(k, v) ==
    /\ phase = "down" /\ edits < MaxEdits
    /\ block' = With(block, k, v) /\ asked' = With(asked, k, v)
    /\ edits' = edits + 1
    /\ UNCHANGED <<overlay, union, live, accepts, phase, module, saves, atBoot, blind, settled>>

\* takes a key out of it,
Remove(k) ==
    /\ phase = "down" /\ edits < MaxEdits /\ k \in DOMAIN block
    /\ block' = [x \in DOMAIN block \ {k} |-> block[x]]
    /\ asked' = [x \in DOMAIN asked \ {k} |-> asked[x]]
    /\ edits' = edits + 1 /\ settled' = FALSE
    /\ UNCHANGED <<overlay, union, live, accepts, phase, module, saves, atBoot, blind>>

\* or installs a version of the module with more keys.
Update ==
    /\ phase = "down" /\ overlay # FirstOverlay \cup NewKeys
    /\ overlay' = FirstOverlay \cup NewKeys /\ settled' = FALSE
    /\ UNCHANGED <<store, accepts, phase, module, saves, edits, asked, atBoot, blind>>

Init ==
    /\ overlay = FirstOverlay
    /\ block \in Blocks /\ asked = block /\ atBoot = block
    /\ union = block /\ live = block
    /\ accepts \in BOOLEAN
    /\ phase = "down" /\ cfg = BuildConfig(Nothing) /\ simReady = FALSE /\ buffs = Shipped
    /\ saves = 0 /\ edits = 0
    /\ blind = FALSE /\ settled = FALSE

Next ==
    \/ Boot \/ Heal \/ HealBlind \/ LoadConfig \/ StartSim \/ Stop \/ Update
    \/ \E k \in AllKeys, v \in Values : Save(k, v) \/ Edit(k, v)
    \/ \E k \in AllKeys : Remove(k)

Spec == Init /\ [][Next]_vars
---------------------------------------------------------------------------
(***************************************************************************)
(* Properties                                                              *)
(***************************************************************************)
TypeOK ==
    /\ overlay \in {FirstOverlay, FirstOverlay \cup NewKeys}
    /\ block \in Blocks /\ union \in Blocks /\ live \in Blocks
    /\ accepts \in BOOLEAN /\ blind \in BOOLEAN /\ settled \in BOOLEAN
    /\ phase \in {"down", "merged", "healed", "off", "up"}
    /\ cfg \in [AllKeys -> Values \cup {Nil}] /\ simReady \in BOOLEAN
    /\ DOMAIN buffs = DOMAIN Shipped
    /\ asked \in Blocks /\ atBoot \in Blocks

\* What the operator asked for stays in the file, through any number of
\* boots, heals, updates and saves of other keys.
FileKeepsWhatWasAsked == \A k \in DOMAIN asked : Get(block, k) = asked[k]

\* And the module runs on it, on the very boot that wiped it from the live
\* config too, unless the file could not be read or the engine rejects the
\* write; a module that is off loaded what was asked then.
OperatorIsHonoured ==
    accepts /\ ~blind =>
        /\ phase = "up" => \A k \in DOMAIN asked : cfg[k] = asked[k]
        /\ phase = "off" => \A k \in DOMAIN atBoot : cfg[k] = atBoot[k]

\* One heal is enough: a boot that read the block, or a save, leaves it
\* complete, so the engine wipes nothing at any later boot, until an update or
\* an edit takes keys out of it again.
HealedForGood == settled /\ phase = "merged" => Mismatched = {}

\* With buffs disabled no mutator of the module has any, whatever the
\* overrides, and whether it was at boot or live.  A boot that could not read
\* the file is left out: a later save of any other key restores the union, and
\* with it "false", but runs that key's applier only.
BuffsOffMeansNone ==
    simReady /\ phase = "up" /\ ~blind /\ BuffsOff(cfg) =>
        \A s \in DOMAIN buffs : buffs[s] = {}
=============================================================================
