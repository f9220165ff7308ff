------------------------------ MODULE Catalog ------------------------------
(***************************************************************************)
(* The catalogue of a stack's slots, options and presets, and what panels,  *)
(* banners and prompts make of a project's picks by it.  Each release of the *)
(* server has a catalogue of its own.                                       *)
(***************************************************************************)
EXTENDS Naturals, FiniteSets

CONSTANTS Slots,
          Runtime,      \* the slot of the runtime
          Options,      \* those of any release
          Catalogue,    \* the slot of an option and the runtimes it goes with, {} for all
          Releases,     \* the options each release has
          Presets,
          Preset,       \* the option a preset picks for each slot
          NoOption

ASSUME CatalogueType ==
    /\ Runtime \in Slots /\ NoOption \notin Options
    /\ Catalogue \in [Options -> [slot : Slots, runtimes : SUBSET Options]]
    /\ Releases \subseteq SUBSET Options
\* As is every preset of catalog.go.
ASSUME PresetsType ==
    /\ NoOption \notin Presets /\ Preset \in [Presets -> [Slots -> Options]]
    /\ \A p \in Presets, s \in Slots :
          LET o == Catalogue[Preset[p][s]]
          IN  o.slot = s /\ (o.runtimes # {} => Preset[p][Runtime] \in o.runtimes)

Pick(option, text, version) == [option |-> option, text |-> text, version |-> version]

\* What a query finds of a slot without a row.
NoPick == Pick(NoOption, "no row", "")

IsOptionCompatible(o, runtime) == Catalogue[o].runtimes = {} \/ runtime \in Catalogue[o].runtimes

\* The presets of a release.
PresetsOf(options) == {p \in Presets : \A s \in Slots : Preset[p][s] \in options}

\* The slots of the banner.
IncompatibleSlots(picks, options) ==
    LET runtime == picks[Runtime].option
    IN  {s \in Slots \ {Runtime} : /\ runtime # NoOption /\ picks[s].option \in options
                                   /\ ~IsOptionCompatible(picks[s].option, runtime)}

\* What an option is called, or a slot filled with, and the version beside it.
Says(value, version) == [value |-> value, version |-> version]
Nothing == Says("", "")

\* What a prompt says of a slot: of one that resolves to nothing, not even the version.
ResolveValue(pick, options) ==
    CASE pick.option \in options -> Says(pick.option, pick.version)
      [] pick.option \notin options /\ pick # NoPick /\ pick.text # "" -> Says(pick.text, pick.version)
      [] OTHER -> Nothing

\* What a chip of the panel says of it.
ChipValue(pick) ==
    CASE pick.option # NoOption -> Says(pick.option, pick.version)
      [] pick.option = NoOption /\ pick # NoPick -> Says(pick.text, pick.version)
      [] OTHER -> Nothing
=============================================================================
