--------------------------- MODULE SettingsModal ----------------------------
(***************************************************************************)
(* The settings of the terminal client: the config modal with its sections  *)
(* and panes (xoxo-tui app/modal/config.rs) and the provider pane in it      *)
(* (provider_pane.rs), which edits the configuration read when the modal was *)
(* opened and writes it back whole (config/loader.rs).                       *)
(*                                                                          *)
(* A provider is its kind and its name (a built-in's id or a custom name);    *)
(* URL, compatibility and key are fields that are typed into and not looked  *)
(* at.  Letters of a key are pressed as themselves.                          *)
(***************************************************************************)
EXTENDS Integers, Sequences

CONSTANTS
    BuiltIns,       \* ids of the registry's providers, in the order of their names
    Customs,        \* names of custom providers
    Strangers,      \* ids in config.toml the registry does not have
    Found,          \* configurations config.toml may hold at first
    MaxProviders,   \* bound: providers connected
    SaveFaults      \* bound: saves that fail

BuiltInIds == {BuiltIns[b] : b \in DOMAIN BuiltIns}
Provider ==
    [kind : {"built_in"}, name : BuiltInIds \cup Strangers]
    \cup [kind : {"other"}, name : Customs \cup {""}]
BuiltIn(id) == [kind |-> "built_in", name |-> id]
Other(name) == [kind |-> "other", name |-> name]

(* A draft: the entry it replaces (0: it is new), and what its fields say.   *)
Draft == [index : 0..MaxProviders, option : 1..Len(BuiltIns), provider : Provider,
          field : 0..3]
Configs ==
    [current : BuiltInIds \cup Strangers \cup Customs \cup {""},
     providers : UNION {[1..n -> Provider] : n \in 0..MaxProviders}]

ASSUME SettingsAssumption ==
    /\ BuiltIns \in Seq(BuiltInIds) /\ Len(BuiltIns) > 0
    /\ Found \subseteq Configs
    /\ MaxProviders \in Nat /\ SaveFaults \in Nat

Sections == <<"Providers", "Skills", "Mcp">>
Letters == {"n", "c", "d", "e", "x"}
Keys == Letters \cup {"up", "down", "left", "right", "tab", "home", "end", "pageup", "pagedown",
                      "backspace", "enter"}

VARIABLES
    disk,           \* config.toml
    faults,         \* saves that have failed
    open,           \* the modal is open
    section, focus, \* of its left pane; which pane has the keys
    scrolled,       \* the right pane is scrolled down
    config,         \* the pane's configuration
    selected,       \* the provider highlighted (1-based; 1 if there is none)
    mode,           \* the pane: browse, connect or edit
    header          \* the provider the client's header shows

pane == <<config, selected, mode>>
settingsVars == <<disk, faults, open, section, focus, scrolled, config, selected, mode, header>>

Least(a, b) == IF a < b THEN a ELSE b
Most(a, b) == IF a > b THEN a ELSE b

Browse == [at |-> "browse"]
Connect(choice) == [at |-> "connect", choice |-> choice]
Edit(draft) == [at |-> "edit", draft |-> draft]

Matches(p, current) == p.name = current
Connected(c) == \E k \in DOMAIN c.providers : Matches(c.providers[k], c.current)

SettingsInit ==
    /\ disk \in Found
    /\ faults = 0
    /\ open = FALSE /\ section = 1 /\ focus = "navigation" /\ scrolled = FALSE
    /\ config = disk /\ selected = 1 /\ mode = Browse
    /\ header = disk.current

Fresh ==
    /\ section' = 1 /\ focus' = "navigation" /\ scrolled' = FALSE
    /\ config' = disk /\ selected' = 1 /\ mode' = Browse

(* /config reads the file and shows it from the start.                      *)
OpenSettings ==
    /\ UNCHANGED <<disk, faults, header>>
    /\ ~open /\ open' = TRUE /\ Fresh

-----------------------------------------------------------------------------
(* The provider pane.                                                       *)

Providers == config.providers
Highlighted == Providers[selected]

(* A save that fails is not noticed (`let _ = save_config(..)`).            *)
Save ==
    \/ disk' = config' /\ UNCHANGED faults
    \/ faults < SaveFaults /\ faults' = faults + 1 /\ UNCHANGED disk
NoSave == UNCHANGED <<disk, faults>>

(* A built-in's draft remembers the place of its id among the options, the   *)
(* first if it has none there.                                               *)
OptionOf(p) == IF \E b \in DOMAIN BuiltIns : BuiltIns[b] = p.name
               THEN CHOOSE b \in DOMAIN BuiltIns : BuiltIns[b] = p.name ELSE 1
NewBuiltIn == [index |-> 0, option |-> 1, provider |-> BuiltIn(BuiltIns[1]), field |-> 0]
NewCustom == [index |-> 0, option |-> 1, provider |-> Other(""), field |-> 0]
DraftOf(p, k) ==
    [index |-> k, option |-> OptionOf(p), provider |-> p,
     field |-> IF p.kind = "built_in" THEN 1 ELSE 0]

BrowseHandles(k) == k \in {"up", "down", "n", "c", "d", "enter", "e"}
ConnectHandles(k) == k \in {"up", "down", "enter"}
EditHandles(k) == k \in Letters \cup {"up", "down", "tab", "backspace", "enter"}
Handles(k) ==
    CASE mode.at = "browse" -> BrowseHandles(k)
      [] mode.at = "connect" -> ConnectHandles(k)
      [] mode.at = "edit" -> EditHandles(k)

(* handle_key puts Browse in the place of the mode before it dispatches, and *)
(* in the end takes what is there: of a choice or a draft that a key has     *)
(* only changed, nothing is left.                                            *)
PutBack(m) == Browse

BrowseMove(k) ==
    /\ selected' = IF k = "up" THEN Most(selected - 1, 1)
                   ELSE Least(selected + 1, Most(Len(Providers), 1))
    /\ mode' = Browse /\ UNCHANGED config /\ NoSave

StartConnect == mode' = Connect(0) /\ UNCHANGED <<config, selected>> /\ NoSave

StartEdit ==
    /\ mode' = IF Providers = <<>> THEN Connect(0) ELSE Edit(DraftOf(Highlighted, selected))
    /\ UNCHANGED <<config, selected>> /\ NoSave

MakeCurrent ==
    /\ mode' = Browse /\ UNCHANGED selected
    /\ IF Providers = <<>> THEN UNCHANGED config /\ NoSave
       ELSE config' = [config EXCEPT !.current = Highlighted.name] /\ Save

Without(s, k) == [j \in 1..(Len(s) - 1) |-> IF j < k THEN s[j] ELSE s[j + 1]]

(* Mutant: the current provider may go too.                                 *)
DisconnectAny ==
    /\ mode' = Browse
    /\ IF Providers = <<>>
       THEN UNCHANGED <<config, selected>> /\ NoSave
       ELSE /\ config' = [config EXCEPT !.providers = Without(Providers, selected)]
            /\ selected' = Least(selected, Most(Len(Providers) - 1, 1))
            /\ Save

Disconnect ==
    /\ mode' = Browse
    /\ IF Providers = <<>> \/ Matches(Highlighted, config.current)
       THEN UNCHANGED <<config, selected>> /\ NoSave
       ELSE /\ config' = [config EXCEPT !.providers = Without(Providers, selected)]
            /\ selected' = Least(selected, Most(Len(Providers) - 1, 1))
            /\ Save

BrowseKey(k) ==
    CASE k \in {"up", "down"} -> BrowseMove(k)
      [] k = "n" -> StartConnect
      [] k = "c" -> MakeCurrent
      [] k = "d" -> Disconnect
      [] k \in {"enter", "e"} -> StartEdit

ConnectKey(k) ==
    /\ UNCHANGED <<config, selected>> /\ NoSave
    /\ CASE k = "up" -> mode' = PutBack(Connect(Most(mode.choice - 1, 0)))
         [] k = "down" -> mode' = PutBack(Connect(Least(mode.choice + 1, 2)))
         [] k = "enter" /\ mode.choice = 0 -> mode' = Edit(NewBuiltIn)
         [] k = "enter" /\ mode.choice # 0 -> mode' = Edit(NewCustom)

Fields(d) == IF d.provider.kind = "built_in" THEN 3 ELSE 4
FieldMove(d, k) ==
    [d EXCEPT !.field = IF k = "up" THEN Most(d.field - 1, 0) ELSE Least(d.field + 1, Fields(d) - 1)]

(* What typing into the highlighted field may make of the provider.         *)
Typings(d) ==
    {p \in Provider : /\ p.kind = d.provider.kind
                      /\ d.field # 0 => p.name = d.provider.name}

(* A built-in whose text is no id of the registry is saved as the option its *)
(* draft remembers.                                                          *)
Saved(d) ==
    IF d.provider.kind = "other" \/ d.provider.name \in BuiltInIds THEN d.provider
    ELSE BuiltIn(BuiltIns[d.option])

SaveDraft(d) ==
    LET p == Saved(d)
        wasCurrent == Matches(Providers[d.index], config.current)
    IN /\ IF d.index # 0
          THEN /\ config' = [providers |-> [Providers EXCEPT ![d.index] = p],
                             current |-> IF wasCurrent THEN p.name ELSE config.current]
               /\ UNCHANGED selected
          ELSE /\ Len(Providers) < MaxProviders
               /\ config' = [config EXCEPT !.providers = Append(Providers, p)]
               /\ selected' = Len(Providers) + 1
       /\ mode' = Browse
       /\ Save

EditKey(k) ==
    LET d == mode.draft IN
    CASE k \in {"up", "down", "tab"} ->
            mode' = PutBack(Edit(FieldMove(d, k))) /\ UNCHANGED <<config, selected>> /\ NoSave
      [] k \in Letters \cup {"backspace"} ->
            /\ \E p \in Typings(d) : mode' = PutBack(Edit([d EXCEPT !.provider = p]))
            /\ UNCHANGED <<config, selected>> /\ NoSave
      [] k = "enter" -> SaveDraft(d)

-----------------------------------------------------------------------------
(* The modal: a key goes to the provider pane if that has the focus, and if  *)
(* it does not want it, to the navigation.                                   *)

InPane == Sections[section] = "Providers" /\ focus = "detail"

PaneKey(k) ==
    /\ open /\ InPane /\ Handles(k)
    /\ CASE mode.at = "browse" -> BrowseKey(k)
         [] mode.at = "connect" -> ConnectKey(k)
         [] mode.at = "edit" -> EditKey(k)
    /\ header' = config'.current
    /\ UNCHANGED <<open, section, focus, scrolled>>

(* A page up keeps the scroll of the section it leaves.                     *)
Travel(k) ==
    CASE k = "up" -> section' = Most(section - 1, 1) /\ scrolled' = FALSE
      [] k = "down" -> section' = Least(section + 1, Len(Sections)) /\ scrolled' = FALSE
      [] k = "home" -> section' = 1 /\ scrolled' = FALSE
      [] k = "end" -> section' = Len(Sections) /\ scrolled' = FALSE
      [] k = "pageup" -> section' = Most(section - 3, 1) /\ UNCHANGED scrolled
      [] k = "pagedown" -> section' = Least(section + 3, Len(Sections)) /\ scrolled' = FALSE
Scroll(k) ==
    /\ UNCHANGED section
    /\ CASE Sections[section] = "Providers" -> UNCHANGED scrolled
         [] k \in {"down", "end", "pagedown"} -> scrolled' = TRUE
         [] k = "home" -> scrolled' = FALSE
         [] k \in {"up", "pageup"} -> scrolled' \in {FALSE, scrolled}
Turns == {"up", "down", "home", "end", "pageup", "pagedown"}

NavigationKey(k) ==
    /\ open /\ ~(InPane /\ Handles(k))
    /\ mode' = IF InPane THEN PutBack(mode) ELSE mode
    /\ focus' = CASE k = "left" -> "navigation"
                  [] k = "right" -> "detail"
                  [] k = "tab" -> IF focus = "navigation" THEN "detail" ELSE "navigation"
                  [] OTHER -> focus
    /\ IF k \notin Turns THEN UNCHANGED <<section, scrolled>>
       ELSE IF focus = "navigation" THEN Travel(k) ELSE Scroll(k)
    /\ header' = config.current
    /\ UNCHANGED <<open, config, selected>> /\ NoSave

(* Esc leaves a choice or a draft, and otherwise the modal, whose state is   *)
(* dropped.                                                                  *)
Escape ==
    /\ open /\ UNCHANGED <<disk, faults, header>>
    /\ IF InPane /\ mode.at # "browse"
       THEN mode' = Browse /\ UNCHANGED <<open, section, focus, scrolled, config, selected>>
       ELSE open' = FALSE /\ Fresh

SettingsKey(k) == PaneKey(k) \/ NavigationKey(k)

-----------------------------------------------------------------------------
SettingsTypeOK ==
    /\ disk \in Configs /\ config \in Configs
    /\ section \in DOMAIN Sections /\ focus \in {"navigation", "detail"}
    /\ selected \in 1..Most(Len(Providers), 1)
    /\ mode.at = "edit" => mode.draft \in Draft /\ mode.draft.index \in {0, selected}

(* Whatever is edited, replaced, disconnected or made current: a current     *)
(* provider that was among the connected ones stays among them.              *)
CurrentStaysConnected ==
    [][open /\ open' /\ Connected(config) => Connected(config')]_settingsVars

(* The editor's footer: "Type edit", "Up/Down field", "Tab next", and only   *)
(* Enter and Esc leave; the chooser's: "Up/Down choose".                     *)
KeysStayInTheEditor ==
    [][/\ open /\ InPane /\ mode.at # "browse"
       /\ \E k \in {"up", "down", "tab", "x"} : Handles(k) /\ SettingsKey(k)
       => mode'.at = mode.at]_settingsVars

=============================================================================
