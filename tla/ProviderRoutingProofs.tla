----------------------- MODULE ProviderRoutingProofs -----------------------
(***************************************************************************)
(* For every registry, every config.toml, any number of providers, failed    *)
(* saves, chats and stored models: no sequence of keys disconnects the       *)
(* current provider, and no message goes to a provider that is not in the    *)
(* header.  For every workspace and every line: the highlights are on what    *)
(* is shown, and the popup hangs on its @.                                   *)
(*                                                                          *)
(* What a key does to the pane is put into one statement, PaneSound, from    *)
(* which both the invariant and the first theorem follow.                    *)
(***************************************************************************)
EXTENDS ProviderRouting, SequenceTheorems, FiniteSetTheorems, TLAPS

Name == BuiltInIds \cup Strangers \cup Customs \cup {""}
Chat == [stored : Name \cup StoredModels,
         runs : [kind : {"built_in"}, name : Name] \cup {NoRunner}]

Listed == disk \in Configs /\ config \in Configs /\ faults \in Nat
InList == selected \in 1..Most(Len(Providers), 1)
(* A draft that replaces an entry replaces the one highlighted.             *)
Drafted ==
    /\ mode.at \in {"browse", "connect", "edit"}
    /\ mode.at = "edit" => /\ mode.draft \in Draft
                           /\ mode.draft.index # 0 =>
                                mode.draft.index = selected /\ Providers # <<>>
(* What the header shows is on the disk, and so is what the pane edits.      *)
Shown == faults = 0 => header = disk.current /\ (open => config = disk)

IInv == Listed /\ InList /\ Drafted /\ Shown /\ chats \in Seq(Chat)

-----------------------------------------------------------------------------
(* Lists of providers.                                                      *)

LEMMA Lists ==
    UNION {[1..n -> Provider] : n \in 0..MaxProviders}
        = {s \in Seq(Provider) : Len(s) <= MaxProviders}
<1> DEFINE L == UNION {[1..n -> Provider] : n \in 0..MaxProviders}
<1>1. MaxProviders \in Nat
    BY SettingsAssumption
<1>2. ASSUME NEW s \in L PROVE s \in Seq(Provider) /\ Len(s) <= MaxProviders
    <2>1. PICK n \in 0..MaxProviders : s \in [1..n -> Provider]
        BY <1>2
    <2>2. s \in Seq(Provider) /\ Len(s) = n
        BY <2>1, <1>1
    <2> QED
        BY <2>1, <2>2, <1>1
<1>3. ASSUME NEW s \in Seq(Provider), Len(s) <= MaxProviders PROVE s \in L
    BY <1>1, <1>3
<1> QED
    BY <1>2, <1>3

LEMMA Replacing ==
    ASSUME NEW s \in Seq(Provider), NEW i \in 1..Len(s), NEW q \in Provider
    PROVE  /\ [s EXCEPT ![i] = q] \in Seq(Provider) /\ Len([s EXCEPT ![i] = q]) = Len(s)
           /\ DOMAIN [s EXCEPT ![i] = q] = 1..Len(s)
<1> DEFINE t == [s EXCEPT ![i] = q]
<1>1. Len(s) \in Nat /\ DOMAIN s = 1..Len(s)
    OBVIOUS
<1>2. t \in [1..Len(s) -> Provider]
    OBVIOUS
<1> QED
    BY <1>1, <1>2

(* What is in a configuration, and what may be put into one.                *)
LEMMA ConfigTypes ==
    /\ \A c \in Configs : /\ c.current \in Name /\ c.providers \in Seq(Provider)
                          /\ Len(c.providers) \in 0..MaxProviders
    /\ \A n \in Name, s \in Seq(Provider) :
          Len(s) <= MaxProviders => [current |-> n, providers |-> s] \in Configs
    /\ \A c \in Configs, n \in Name : [c EXCEPT !.current = n] \in Configs
    /\ \A c \in Configs, s \in Seq(Provider) :
          Len(s) <= MaxProviders => [c EXCEPT !.providers = s] \in Configs
<1> DEFINE L == UNION {[1..n -> Provider] : n \in 0..MaxProviders}
<1>1. Configs = [current : Name, providers : L]
    BY DEF Configs, Name
<1>2. \A s : s \in L <=> s \in Seq(Provider) /\ Len(s) <= MaxProviders
    BY Lists
<1> HIDE DEF L
<1>3. \A c \in Configs : c.current \in Name /\ c.providers \in L
    BY <1>1
<1>4. \A s \in Seq(Provider) : Len(s) \in Nat
    OBVIOUS
<1>5. \A n \in Name, s \in L : [current |-> n, providers |-> s] \in Configs
    BY <1>1
<1>6. \A c \in Configs, n \in Name : [c EXCEPT !.current = n] \in Configs
    BY <1>1
<1>7. \A c \in Configs, s \in L : [c EXCEPT !.providers = s] \in Configs
    BY <1>1
<1> QED
    BY <1>2, <1>3, <1>4, <1>5, <1>6, <1>7, SettingsAssumption

(* The built-ins are there to be chosen.                                    *)
LEMMA Options ==
    /\ DOMAIN BuiltIns = 1..Len(BuiltIns) /\ 1 \in DOMAIN BuiltIns
    /\ \A b \in DOMAIN BuiltIns : BuiltIn(BuiltIns[b]) \in Provider
    /\ \A p : OptionOf(p) \in DOMAIN BuiltIns
<1>1. BuiltIns \in Seq(BuiltInIds) /\ Len(BuiltIns) > 0
    BY SettingsAssumption
<1>2. DOMAIN BuiltIns = 1..Len(BuiltIns) /\ 1 \in DOMAIN BuiltIns
    BY <1>1
<1>3. \A b \in DOMAIN BuiltIns : BuiltIn(BuiltIns[b]) \in Provider
    BY DEF BuiltIn, Provider, BuiltInIds
<1>4. \A p : OptionOf(p) \in DOMAIN BuiltIns
    BY <1>2 DEF OptionOf
<1> QED
    BY <1>2, <1>3, <1>4

LEMMA Providing ==
    /\ \A p \in Provider : p.name \in Name /\ p.kind \in {"built_in", "other"}
    /\ Other("") \in Provider
    BY DEF Provider, Name, Other

LEMMA IsListed ==
    ASSUME IInv
    PROVE  /\ Providers \in Seq(Provider) /\ Len(Providers) \in 0..MaxProviders
           /\ config.current \in Name /\ selected \in Nat
           /\ Providers # <<>> => /\ selected \in 1..Len(Providers)
                                 /\ Highlighted \in Provider
<1>1. Providers \in Seq(Provider) /\ Len(Providers) \in 0..MaxProviders /\ config.current \in Name
    BY ConfigTypes DEF IInv, Listed, Providers
<1>2. selected \in 1..Most(Len(Providers), 1) /\ selected \in Nat
    BY <1>1 DEF IInv, InList, Most
<1>3. ASSUME Providers # <<>> PROVE selected \in 1..Len(Providers) /\ Providers[selected] \in Provider
    <2>1. Len(Providers) >= 1
        BY <1>1, <1>3
    <2>2. selected \in 1..Len(Providers)
        BY <1>1, <1>2, <2>1 DEF Most
    <2> QED
        BY <1>1, <2>2
<1> QED
    BY <1>1, <1>2, <1>3 DEF Highlighted

-----------------------------------------------------------------------------
(* The pane.                                                                *)

(* What is saved is what is shown, or nothing has changed, or the save has   *)
(* failed; and the current provider is still there.                         *)
Sound ==
    /\ config' \in Configs /\ InList' /\ Drafted'
    /\ Save \/ (NoSave /\ config' = config)
    /\ Connected(config) => Connected(config')

LEMMA Unchanging ==
    ASSUME IInv, UNCHANGED config, NoSave, selected' \in 1..Most(Len(Providers), 1), Drafted'
    PROVE  Sound
    BY DEF IInv, Listed, InList, Sound, Connected, Matches, Providers

LEMMA MakeCurrentSound == ASSUME IInv, MakeCurrent PROVE Sound
<1>1. Drafted'
    BY DEF MakeCurrent, Drafted, Browse
<1>2. CASE Providers = <<>>
    BY <1>1, <1>2, Unchanging DEF MakeCurrent, IInv, InList
<1>3. CASE Providers # <<>>
    <2>1. config' = [config EXCEPT !.current = Highlighted.name] /\ Save /\ selected' = selected
        BY <1>3 DEF MakeCurrent
    <2>2. Highlighted \in Provider /\ selected \in 1..Len(Providers) /\ config \in Configs
          /\ Providers \in Seq(Provider)
        BY <1>3, IsListed DEF IInv, Listed
    <2>3. Highlighted.name \in Name
        BY <2>2, Providing
    <2>4. config' \in Configs
        BY <2>1, <2>2, <2>3, ConfigTypes
    <2>5. config'.providers = Providers /\ config'.current = Highlighted.name
        BY <2>1, <2>2 DEF Providers, Configs
    <2>6. InList'
        BY <2>1, <2>5 DEF IInv, InList, Providers
    <2>7. Connected(config')
        BY <2>2, <2>5 DEF Connected, Matches, Highlighted
    <2> QED
        BY <1>1, <2>1, <2>4, <2>6, <2>7 DEF Sound
<1> QED
    BY <1>2, <1>3

LEMMA DisconnectSound == ASSUME IInv, Disconnect PROVE Sound
<1>1. Drafted'
    BY DEF Disconnect, Drafted, Browse
<1>2. CASE Providers = <<>> \/ Matches(Highlighted, config.current)
    BY <1>1, <1>2, Unchanging DEF Disconnect, IInv, InList
<1>3. CASE ~(Providers = <<>> \/ Matches(Highlighted, config.current))
    <2> DEFINE rest == Without(Providers, selected)
               n == Len(Providers)
    <2>1. /\ config' = [config EXCEPT !.providers = rest] /\ Save
          /\ selected' = Least(selected, Most(n - 1, 1))
        BY <1>3 DEF Disconnect
    <2>2. /\ selected \in 1..n /\ config \in Configs /\ n \in 1..MaxProviders
          /\ Providers \in Seq(Provider)
        BY <1>3, IsListed DEF IInv, Listed
    <2>3. rest = [j \in 1..(n - 1) |-> IF j < selected THEN Providers[j] ELSE Providers[j + 1]]
        BY DEF Without
    <2>4. rest \in Seq(Provider) /\ Len(rest) = n - 1 /\ DOMAIN rest = 1..(n - 1)
        BY <2>2, <2>3
    <2>5. n - 1 <= MaxProviders /\ n - 1 \in Nat
        BY <2>2, SettingsAssumption
    <2>6. config' \in Configs
        BY <2>1, <2>2, <2>4, <2>5, ConfigTypes
    <2>7. config'.providers = rest /\ config'.current = config.current
        BY <2>1, <2>2 DEF Configs
    <2>8. InList'
        <3>1. selected' \in 1..Most(n - 1, 1)
            BY <2>1, <2>2 DEF Least, Most
        <3> QED
            BY <3>1, <2>4, <2>7 DEF InList, Providers
    <2>9. ASSUME Connected(config) PROVE Connected(config')
        <3>1. PICK k \in 1..n : Providers[k].name = config.current
            BY <2>2, <2>9 DEF Connected, Matches, Providers
        <3>2. k # selected
            BY <1>3, <3>1 DEF Matches, Highlighted
        <3>3. CASE k < selected
            <4>1. k \in 1..(n - 1) /\ rest[k] = Providers[k]
                BY <2>2, <2>3, <3>3
            <4> QED
                BY <4>1, <3>1, <2>4, <2>7 DEF Connected, Matches
        <3>4. CASE k > selected
            <4>1. k - 1 \in 1..(n - 1) /\ rest[k - 1] = Providers[k]
                BY <2>2, <2>3, <3>4
            <4> QED
                BY <4>1, <3>1, <2>4, <2>7 DEF Connected, Matches
        <3> QED
            BY <3>2, <3>3, <3>4, <2>2
    <2> QED
        BY <1>1, <2>1, <2>6, <2>8, <2>9 DEF Sound
<1> QED
    BY <1>2, <1>3

LEMMA BrowseSound ==
    ASSUME IInv, NEW k, BrowseHandles(k), BrowseKey(k)
    PROVE  Sound
<1>0. /\ Len(Providers) \in Nat /\ selected \in Nat /\ selected >= 1
      /\ selected \in 1..Most(Len(Providers), 1)
    BY IsListed DEF IInv, InList, Most
<1>1. CASE BrowseMove(k)
    <2>1. selected' \in 1..Most(Len(Providers), 1)
        BY <1>0, <1>1 DEF BrowseMove, Least, Most
    <2>2. Drafted'
        BY <1>1 DEF BrowseMove, Drafted, Browse
    <2> QED
        BY <1>1, <2>1, <2>2, Unchanging DEF BrowseMove
<1>2. CASE StartConnect
    <2>1. Drafted'
        BY <1>2 DEF StartConnect, Drafted, Connect
    <2> QED
        BY <1>0, <1>2, <2>1, Unchanging DEF StartConnect
<1>3. CASE MakeCurrent
    BY <1>3, MakeCurrentSound
<1>4. CASE Disconnect
    BY <1>4, DisconnectSound
<1>5. CASE StartEdit
    <2>1. CASE Providers = <<>>
        <3>1. Drafted'
            BY <1>5, <2>1 DEF StartEdit, Drafted, Connect
        <3> QED
            BY <1>0, <1>5, <3>1, Unchanging DEF StartEdit
    <2>2. CASE Providers # <<>>
        <3>1. /\ Highlighted \in Provider /\ selected \in 1..Len(Providers)
              /\ Len(Providers) \in 0..MaxProviders
            BY <2>2, IsListed
        <3>2. DraftOf(Highlighted, selected) \in Draft /\ DraftOf(Highlighted, selected).index = selected
            BY <3>1, Options, SettingsAssumption DEF DraftOf, Draft
        <3>3. Drafted'
            BY <1>5, <2>2, <3>2 DEF StartEdit, Drafted, Edit, Providers
        <3> QED
            BY <1>0, <1>5, <3>3, Unchanging DEF StartEdit
    <2> QED
        BY <2>1, <2>2
<1> QED
    BY <1>1, <1>2, <1>3, <1>4, <1>5 DEF BrowseKey, BrowseHandles

LEMMA ConnectSound ==
    ASSUME IInv, NEW k, ConnectHandles(k), ConnectKey(k)
    PROVE  Sound
<1>1. NewBuiltIn \in Draft /\ NewCustom \in Draft /\ NewBuiltIn.index = 0 /\ NewCustom.index = 0
    <2>1. 0 \in 0..MaxProviders /\ 0 \in 0..3
        BY SettingsAssumption
    <2>2. 1 \in 1..Len(BuiltIns)
        BY Options
    <2>3. BuiltIn(BuiltIns[1]) \in Provider
        BY Options
    <2>4. Other("") \in Provider
        BY Providing
    <2> QED
        BY <2>1, <2>2, <2>3, <2>4 DEF NewBuiltIn, NewCustom, Draft
<1>2. mode' \in {Browse, Edit(NewBuiltIn), Edit(NewCustom)}
    <2>1. CASE k = "up"
        BY <2>1 DEF ConnectKey, PutBack
    <2>2. CASE k = "down"
        BY <2>2 DEF ConnectKey, PutBack
    <2>3. CASE k = "enter" /\ mode.choice = 0
        BY <2>3 DEF ConnectKey
    <2>4. CASE k = "enter" /\ mode.choice # 0
        BY <2>4 DEF ConnectKey
    <2> QED
        BY <2>1, <2>2, <2>3, <2>4 DEF ConnectHandles
<1>3. Drafted'
    BY <1>1, <1>2 DEF Drafted, Browse, Edit
<1> QED
    BY <1>3, Unchanging DEF ConnectKey, IInv, InList

LEMMA SaveDraftSound ==
    ASSUME IInv, mode.at = "edit", SaveDraft(mode.draft)
    PROVE  Sound
<1> DEFINE d == mode.draft
           p == Saved(d)
           n == Len(Providers)
<1>1. d \in Draft /\ (d.index # 0 => d.index = selected /\ Providers # <<>>)
    BY DEF IInv, Drafted
<1>2. p \in Provider /\ p.name \in Name
    <2>1. d.provider \in Provider /\ d.option \in DOMAIN BuiltIns
        BY <1>1, Options DEF Draft
    <2> QED
        BY <2>1, Options, Providing DEF Saved
<1>3. /\ Providers \in Seq(Provider) /\ n \in 0..MaxProviders /\ config \in Configs
      /\ config.current \in Name /\ selected \in Nat /\ MaxProviders \in Nat
    BY IsListed, SettingsAssumption DEF IInv, Listed
<1>4. Drafted' /\ Save
    BY DEF SaveDraft, Drafted, Browse
<1>5. CASE d.index # 0
    <2> DEFINE now == IF Matches(Providers[d.index], config.current) THEN p.name ELSE config.current
               list == [Providers EXCEPT ![d.index] = p]
    <2>1. config' = [providers |-> list, current |-> now] /\ selected' = selected
        BY <1>5 DEF SaveDraft
    <2>2. d.index = selected /\ selected \in 1..n
        BY <1>1, <1>5, IsListed
    <2>3. list \in Seq(Provider) /\ Len(list) = n /\ DOMAIN list = 1..n /\ now \in Name
        <3>1. now \in Name
            BY <1>2, <1>3
        <3>2. d.index \in 1..n
            BY <2>2
        <3> HIDE DEF p, d
        <3> QED
            BY <1>2, <1>3, <3>1, <3>2, Replacing
    <2>4. config' \in Configs
        <3>1. config' = [current |-> now, providers |-> list]
            BY <2>1
        <3> HIDE DEF now, list
        <3> QED
            BY <1>3, <2>3, <3>1, ConfigTypes
    <2>5. InList'
        BY <2>1, <2>3 DEF IInv, InList, Providers
    <2>6. ASSUME Connected(config) PROVE Connected(config')
        <3>1. PICK k \in 1..n : Providers[k].name = config.current
            BY <1>3, <2>6 DEF Connected, Matches, Providers
        <3>2. CASE Matches(Providers[d.index], config.current)
            <4>1. list[d.index] = p /\ d.index \in DOMAIN list /\ now = p.name
                BY <1>3, <2>2, <3>2
            <4> QED
                BY <2>1, <4>1 DEF Connected, Matches
        <3>3. CASE ~Matches(Providers[d.index], config.current)
            <4>1. k # d.index
                BY <3>1, <3>3 DEF Matches
            <4>2. list[k] = Providers[k] /\ k \in DOMAIN list /\ now = config.current
                BY <1>3, <3>1, <3>3, <4>1
            <4> QED
                BY <2>1, <3>1, <4>2 DEF Connected, Matches
        <3> QED
            BY <3>2, <3>3
    <2> QED
        BY <1>4, <2>4, <2>5, <2>6 DEF Sound
<1>6. CASE d.index = 0
    <2> DEFINE list == Append(Providers, p)
    <2>1. /\ config' = [config EXCEPT !.providers = list] /\ selected' = n + 1
          /\ n < MaxProviders
        BY <1>6 DEF SaveDraft
    <2>2. list \in Seq(Provider) /\ Len(list) = n + 1 /\ DOMAIN list = 1..(n + 1)
          /\ \A k \in 1..n : list[k] = Providers[k]
        BY <1>2, <1>3
    <2>3. n + 1 <= MaxProviders
        BY <1>3, <2>1
    <2>4. config' \in Configs
        BY <1>3, <2>1, <2>2, <2>3, ConfigTypes
    <2>5. config'.providers = list /\ config'.current = config.current
        BY <1>3, <2>1 DEF Configs
    <2>6. InList'
        BY <1>3, <2>1, <2>2, <2>5 DEF InList, Providers, Most
    <2>7. ASSUME Connected(config) PROVE Connected(config')
        <3>1. PICK k \in 1..n : Providers[k].name = config.current
            BY <1>3, <2>7 DEF Connected, Matches, Providers
        <3>2. list[k] = Providers[k] /\ k \in DOMAIN list
            BY <1>3, <2>2
        <3> QED
            BY <3>1, <3>2, <2>5 DEF Connected, Matches
    <2> QED
        BY <1>4, <2>4, <2>6, <2>7 DEF Sound
<1> QED
    BY <1>5, <1>6

LEMMA EditSound ==
    ASSUME IInv, mode.at = "edit", NEW k, EditHandles(k), EditKey(k)
    PROVE  Sound
<1>1. CASE k = "enter"
    BY <1>1, SaveDraftSound DEF EditKey, Letters
<1>2. CASE k # "enter"
    <2>1. mode' = Browse /\ UNCHANGED <<config, selected>> /\ NoSave
        BY <1>2 DEF EditKey, EditHandles, PutBack, Letters
    <2>2. Drafted'
        BY <2>1 DEF Drafted, Browse
    <2> QED
        BY <2>1, <2>2, Unchanging DEF IInv, InList
<1> QED
    BY <1>1, <1>2

(* Any key in the pane.                                                     *)
LEMMA PaneSound == ASSUME IInv, NEW k, PaneKey(k) PROVE Sound
<1>1. CASE mode.at = "browse"
    BY <1>1, BrowseSound DEF PaneKey, Handles
<1>2. CASE mode.at = "connect"
    BY <1>2, ConnectSound DEF PaneKey, Handles
<1>3. CASE mode.at = "edit"
    BY <1>3, EditSound DEF PaneKey, Handles
<1> QED
    BY <1>1, <1>2, <1>3 DEF IInv, Drafted

-----------------------------------------------------------------------------
(* The invariant.                                                           *)

LEMMA Initially == RoutingInit => IInv
<1> SUFFICES ASSUME RoutingInit PROVE IInv
    OBVIOUS
<1>1. disk \in Configs /\ config = disk /\ faults = 0 /\ header = disk.current
    BY SettingsAssumption DEF RoutingInit, Init, SettingsInit
<1>2. mode = Browse /\ selected = 1
    BY DEF RoutingInit, Init, SettingsInit
<1>3. Len(Providers) \in Nat
    BY <1>1, ConfigTypes, SettingsAssumption DEF Providers
<1>4. InList
    BY <1>2, <1>3 DEF InList, Most
<1>5. \A name \in StoredModels : Dormant(name) \in Chat
    BY DEF Dormant, Chat
<1>6. chats \in Seq(Chat)
    <2>1. CASE chats = <<>>
        BY <2>1
    <2>2. CASE \E name \in StoredModels : chats = <<Dormant(name)>>
        BY <1>5, <2>2
    <2> QED
        BY <2>1, <2>2 DEF RoutingInit
<1> QED
    BY <1>1, <1>2, <1>4, <1>6 DEF IInv, Listed, Drafted, Shown, Browse

(* What the invariant says of the settings.                                 *)
SInv == Listed /\ InList /\ Drafted /\ Shown

LEMMA Quietly == ASSUME SInv, Quiet PROVE SInv'
    BY DEF SInv, Listed, InList, Drafted, Shown, Quiet, settingsVars, Providers

LEMMA Freshly ==
    ASSUME SInv, Fresh, NoSave, UNCHANGED header
    PROVE  SInv'
<1>1. disk' = disk /\ faults' = faults /\ config' = disk /\ selected' = 1 /\ mode' = Browse
    BY DEF Fresh, NoSave
<1>2. Len(disk.providers) \in Nat
    BY ConfigTypes, SettingsAssumption DEF SInv, Listed
<1>3. InList'
    BY <1>1, <1>2 DEF InList, Most, Providers
<1> QED
    BY <1>1, <1>3 DEF SInv, Listed, Drafted, Shown, Browse

LEMMA KeySound == ASSUME IInv, NEW k, SettingsKey(k) PROVE SInv'
<1>1. CASE PaneKey(k)
    <2>1. Sound /\ header' = config'.current /\ open
        BY <1>1, PaneSound DEF PaneKey
    <2>2. disk \in Configs /\ config \in Configs /\ faults \in Nat
        BY DEF IInv, Listed
    <2>3. Listed'
        BY <2>1, <2>2 DEF Sound, Save, NoSave, Listed
    <2>4. Shown'
        BY <2>1, <2>2 DEF Sound, Save, NoSave, IInv, Shown
    <2> QED
        BY <2>1, <2>3, <2>4 DEF SInv, Sound
<1>2. CASE NavigationKey(k)
    <2>1. /\ open /\ UNCHANGED <<disk, faults, config, selected>>
          /\ header' = config.current /\ mode' \in {mode, Browse}
        BY <1>2 DEF NavigationKey, NoSave, PutBack
    <2>2. Drafted'
        BY <2>1 DEF IInv, Drafted, Browse, Providers
    <2> QED
        BY <2>1, <2>2 DEF SInv, IInv, Listed, InList, Shown, Providers
<1> QED
    BY <1>1, <1>2 DEF SettingsKey

LEMMA EscapeSound == ASSUME SInv, Escape PROVE SInv'
<1>1. CASE InPane /\ mode.at # "browse"
    BY <1>1 DEF Escape, SInv, Listed, InList, Drafted, Shown, Browse, Providers
<1>2. CASE ~(InPane /\ mode.at # "browse")
    BY <1>2, Freshly DEF Escape, NoSave
<1> QED
    BY <1>1, <1>2

LEMMA InputSound == ASSUME IInv, Next PROVE SInv'
<1>1. SInv
    BY DEF IInv, SInv
<1>2. CASE Quiet
    BY <1>1, <1>2, Quietly
<1>3. CASE OpenSettings
    BY <1>1, <1>3, Freshly DEF OpenSettings, NoSave
<1>4. CASE Escape
    BY <1>1, <1>4, EscapeSound
<1>5. ASSUME NEW k \in Keys, SettingsKey(k) PROVE SInv'
    BY <1>5, KeySound
<1>6. Enter => Quiet \/ OpenSettings
    BY DEF Enter, Run
<1>7. MenuEnter \/ TakeSubmission => Quiet
    BY DEF MenuEnter, TakeSubmission
<1>8. Key => Quiet \/ Escape \/ \E k \in Keys : SettingsKey(k)
    BY DEF Key, MentionTab, MentionEnter, MentionEscape, MentionMove, TypeSymbol, Paste,
           Backspace, CompleteCommand, CtrlC, MenuKey, SettingsModalKey, ModalEscape,
           SettingsEscape
<1> QED
    BY <1>2, <1>3, <1>4, <1>5, <1>6, <1>7, <1>8 DEF Next

(* What the daemon gives a runner.                                          *)
LEMMA CurrentIs ==
    ASSUME IInv, NEW p \in CurrentProviders
    PROVE  /\ p = BuiltIn(disk.current) /\ p.name = disk.current /\ disk.current \in Name
           /\ p \in [kind : {"built_in"}, name : Name] /\ Live(p.name, p) \in Chat
<1>1. disk.current \in Name
    BY ConfigTypes DEF IInv, Listed
<1>2. p = BuiltIn(disk.current)
    BY DEF CurrentProviders
<1>3. p \in [kind : {"built_in"}, name : Name] /\ p.name = disk.current
    BY <1>1, <1>2 DEF BuiltIn
<1> QED
    BY <1>1, <1>2, <1>3 DEF Live, Chat

LEMMA ChatsSound == ASSUME IInv, RoutingNext PROVE chats' \in Seq(Chat)
<1>1. chats \in Seq(Chat)
    BY DEF IInv
<1>2. CASE UNCHANGED chats
    BY <1>1, <1>2
<1>3. ASSUME NEW name \in StoredModels, chats' = Append(chats, Dormant(name))
      PROVE  chats' \in Seq(Chat)
    <2>1. Dormant(name) \in Chat
        BY DEF Dormant, Chat
    <2> QED
        BY <1>1, <1>3, <2>1
<1>4. ASSUME NEW c, Deliver(c) PROVE chats' \in Seq(Chat)
    <2>1. PICK p \in CurrentProviders :
            \/ chats' = chats
            \/ chats' = Append(chats, Live(p.name, p))
            \/ chats' = [chats EXCEPT ![c].runs = p]
        BY <1>4 DEF Deliver
    <2>2. p \in [kind : {"built_in"}, name : Name] /\ Live(p.name, p) \in Chat
        BY CurrentIs
    <2>3. CASE chats' = Append(chats, Live(p.name, p))
        BY <1>1, <2>2, <2>3
    <2>4. CASE chats' = [chats EXCEPT ![c].runs = p]
        <3>1. \A x \in DOMAIN chats : chats[x] \in Chat
            BY <1>1
        <3>2. \A x \in DOMAIN chats : [chats[x] EXCEPT !.runs = p] \in Chat
            BY <2>2, <3>1 DEF Chat
        <3>3. DOMAIN chats = 1..Len(chats) /\ Len(chats) \in Nat
            BY <1>1
        <3>4. chats' = [x \in DOMAIN chats |->
                            IF x = c THEN [chats[x] EXCEPT !.runs = p] ELSE chats[x]]
            BY <2>4
        <3>5. chats' \in [DOMAIN chats -> Chat]
            BY <3>1, <3>2, <3>4
        <3> QED
            BY <3>3, <3>5
    <2> QED
        BY <1>1, <2>1, <2>3, <2>4
<1>5. KeysOnly \/ EnterLine \/ Submit => UNCHANGED chats
    BY DEF KeysOnly, EnterLine, Submit
<1>6. ChooseSession => UNCHANGED chats \/ \E name \in StoredModels : chats' = Append(chats, Dormant(name))
    BY DEF ChooseSession
<1>7. HandleSubmit => UNCHANGED chats \/ \E c : Deliver(c)
    BY DEF HandleSubmit, Refuse
<1> QED
    BY <1>2, <1>3, <1>4, <1>5, <1>6, <1>7 DEF RoutingNext

LEMMA Preserved == IInv /\ [RoutingNext]_routingVars => IInv'
<1> SUFFICES ASSUME IInv, [RoutingNext]_routingVars PROVE IInv'
    OBVIOUS
<1>1. CASE UNCHANGED routingVars
    <2>1. Quiet /\ UNCHANGED chats /\ SInv
        BY <1>1 DEF routingVars, vars, Quiet, IInv, SInv
    <2> QED
        BY <2>1, Quietly DEF IInv, SInv
<1>2. CASE RoutingNext
    <2>1. Next \/ UNCHANGED vars
        BY <1>2 DEF RoutingNext, KeysOnly, EnterLine, ChooseSession, Submit, HandleSubmit, Next
    <2>2. SInv'
        <3>1. CASE Next
            BY <3>1, InputSound
        <3>2. CASE UNCHANGED vars
            BY <3>2, Quietly DEF vars, Quiet, IInv, SInv
        <3> QED
            BY <2>1, <3>1, <3>2
    <2> QED
        BY <1>2, <2>2, ChatsSound DEF IInv, SInv
<1> QED
    BY <1>1, <1>2

(* At every moment: the configurations are configurations, the highlight is  *)
(* in the list, a draft replaces the entry highlighted, and as long as no     *)
(* save has failed the header shows what is on the disk.                     *)
THEOREM ShownIsStored == RoutingSpec => []IInv
    BY Initially, Preserved, PTL DEF RoutingSpec

-----------------------------------------------------------------------------
(* No key takes the current provider out of the list of connected ones.      *)
THEOREM CurrentIsKept == RoutingSpec => CurrentStaysConnected
<1> DEFINE Keeps == open /\ open' /\ Connected(config) => Connected(config')
<1>1. ASSUME IInv, [RoutingNext]_routingVars PROVE [Keeps]_settingsVars
    <2> SUFFICES ASSUME open, open' PROVE config' = config \/ Sound
        BY DEF Sound
    <2>1. CASE ~RoutingNext \/ Quiet
        BY <1>1, <2>1 DEF routingVars, vars, Quiet, settingsVars
    <2>2. CASE RoutingNext /\ ~Quiet
        <3>1. Key \/ Enter
            BY <2>2 DEF RoutingNext, KeysOnly, EnterLine, ChooseSession, Submit, HandleSubmit,
                        MenuEnter, TakeSubmission, Quiet, vars
        <3>2. ~Enter
            BY <2>2 DEF Enter, Run, OpenSettings
        <3>3. Escape \/ \E k \in Keys : SettingsKey(k)
            BY <2>2, <3>1, <3>2
               DEF Key, MentionTab, MentionEnter, MentionEscape, MentionMove, TypeSymbol, Paste,
                   Backspace, CompleteCommand, CtrlC, MenuKey, SettingsModalKey, ModalEscape,
                   SettingsEscape
        <3>4. CASE Escape
            BY <3>4 DEF Escape
        <3>5. ASSUME NEW k \in Keys, PaneKey(k) PROVE Sound
            BY <1>1, <3>5, PaneSound
        <3>6. ASSUME NEW k \in Keys, NavigationKey(k) PROVE config' = config
            BY <3>6 DEF NavigationKey
        <3> QED
            BY <3>3, <3>4, <3>5, <3>6 DEF SettingsKey
    <2> QED
        BY <2>1, <2>2
<1> QED
    BY <1>1, ShownIsStored, PTL DEF RoutingSpec, CurrentStaysConnected

(* A message that starts a chat or takes one up again goes to the provider    *)
(* the header shows, or to none.                                             *)
THEOREM MessagesAreNotMisrouted == RoutingSpec => MessagesGoWhereShown
<1> DEFINE Arrives(c) ==
        /\ chats'[c].runs # NoRunner
        /\ c \in DOMAIN chats => chats[c].runs = NoRunner
        /\ faults = 0
        => Destination(chats'[c].runs) \in {header, Refused}
<1>1. ASSUME IInv, [RoutingNext]_routingVars PROVE [\A c \in DOMAIN chats' : Arrives(c)]_routingVars
    <2> SUFFICES ASSUME RoutingNext, NEW c \in DOMAIN chats',
                        chats'[c].runs # NoRunner,
                        c \in DOMAIN chats => chats[c].runs = NoRunner,
                        faults = 0
                 PROVE  Destination(chats'[c].runs) \in {header, Refused}
        BY <1>1
    <2>1. chats \in Seq(Chat) /\ header = disk.current
        BY <1>1 DEF IInv, Shown
    <2>2. chats' # chats
        OBVIOUS
    <2>3. ~(\E name \in StoredModels : chats' = Append(chats, Dormant(name)))
        <3> SUFFICES ASSUME NEW name \in StoredModels, chats' = Append(chats, Dormant(name))
                     PROVE  FALSE
            OBVIOUS
        <3>1. c \in 1..(Len(chats) + 1) /\ DOMAIN chats = 1..Len(chats)
            BY <2>1
        <3>2. c = Len(chats) + 1 => chats'[c] = Dormant(name)
            BY <2>1
        <3>3. c # Len(chats) + 1 => c \in DOMAIN chats /\ chats'[c] = chats[c]
            BY <2>1, <3>1
        <3> QED
            BY <3>1, <3>2, <3>3 DEF Dormant
    <2>4. PICK m : Deliver(m)
        BY <2>2, <2>3 DEF RoutingNext, KeysOnly, EnterLine, ChooseSession, Submit, HandleSubmit,
                          Refuse
    <2>5. PICK p \in CurrentProviders :
            \/ chats' = Append(chats, Live(p.name, p))
            \/ chats' = [chats EXCEPT ![m].runs = p]
        BY <2>2, <2>4 DEF Deliver
    <2>6. chats'[c].runs = p
        <3>1. CASE chats' = Append(chats, Live(p.name, p))
            <4>1. c \in 1..(Len(chats) + 1) /\ DOMAIN chats = 1..Len(chats)
                BY <2>1, <3>1
            <4>2. c # Len(chats) + 1 => c \in DOMAIN chats /\ chats'[c] = chats[c]
                BY <2>1, <3>1, <4>1
            <4>3. chats'[Len(chats) + 1] = Live(p.name, p)
                BY <2>1, <3>1
            <4> QED
                BY <4>2, <4>3 DEF Live
        <3>2. CASE chats' = [chats EXCEPT ![m].runs = p]
            <4>1. c \in DOMAIN chats /\ chats[c] \in Chat
                BY <2>1, <3>2
            <4>2. c # m => chats'[c] = chats[c]
                BY <3>2, <4>1
            <4>3. chats'[m] = [chats[m] EXCEPT !.runs = p]
                BY <3>2, <4>1, <4>2
            <4> QED
                BY <4>1, <4>2, <4>3 DEF Chat
        <3> QED
            BY <2>5, <3>1, <3>2
    <2>7. p = BuiltIn(disk.current)
        BY <1>1, CurrentIs
    <2>8. Destination(p) \in {p.name, Refused} /\ p.name = disk.current
        <3>1. Stream(p) \in {p.name, Refused} /\ AiLib(p) \in {p.name, Refused}
            BY DEF Stream, AiLib
        <3>2. Backend(p) \in {"rig", "ai_lib", "custom"}
            BY <2>7 DEF Backend, BuiltIn
        <3>3. Destination(p) \in {Refused, Stream(p), AiLib(p)}
            BY <3>2 DEF Destination
        <3> QED
            BY <2>7, <3>1, <3>3 DEF BuiltIn
    <2> QED
        BY <2>1, <2>6, <2>8
<1> QED
    BY <1>1, ShownIsStored, PTL DEF RoutingSpec, MessagesGoWhereShown

-----------------------------------------------------------------------------
(* The input line, the popup and the modals.                                *)

Symbol == Typed \cup {"@", "/", " ", "\n"} \cup PathSymbols
            \cup {Commands[c] : c \in DOMAIN Commands}
Pop == [at : Nat, filter : Seq(Symbol), selected : Nat]

Written == input \in Seq(Symbol) /\ popup \in Pop
Counted == ctrlC \in 0..2 /\ (running => ctrlC < 2)
Covered == modal \in {"none", "text", "menu", "config"} /\ open \in BOOLEAN /\ (open <=> modal = "config")
Paged ==
    /\ pick \in Nat /\ page \in Nat
    /\ modal = "menu" => pick < Most(Stored, 1) /\ page = pick \div PageSize
Sectioned == section \in DOMAIN Sections /\ focus \in {"navigation", "detail"}

ScreenInv == Counted /\ Covered /\ Paged /\ Sectioned
LineInv == Written /\ PopupIsAnchored

LEMMA InputBounds ==
    /\ MaxVisible \in Nat \ {0} /\ PageSize \in Nat \ {0} /\ MaxInput \in Nat \ {0}
    /\ Stored \in Nat /\ Entries \in Seq(Entry)
BY InputAssumption

LEMMA RowsCount == \A filter : Rows(filter) \in Nat
<1> SUFFICES ASSUME NEW filter PROVE Rows(filter) \in Nat
    OBVIOUS
<1>1. DOMAIN Entries = 1..Len(Entries) /\ Len(Entries) \in Nat
    BY InputBounds
<1>2. IsFiniteSet(1..Len(Entries))
    BY <1>1, FS_Interval
<1>3. Visible(filter) \subseteq 1..Len(Entries)
    BY <1>1 DEF Visible, FoundFor
<1>4. IsFiniteSet(Visible(filter))
    BY <1>2, <1>3, FS_Subset
<1> QED
    BY <1>4, FS_CardinalityType DEF Rows

(* A popup that hangs on a @ of the line still does when it is filtered by    *)
(* what follows.                                                            *)
LEMMA RefilteredHangs ==
    ASSUME NEW p \in Pop, NEW line \in Seq(Symbol), p.at \in 1..Len(line), line[p.at] = "@",
           p.at = 1 \/ line[p.at - 1] \in Blank,
           input' = line, popup' = Refiltered(p, After(p, line)), modal' = "none"
    PROVE  LineInv'
<1> DEFINE f == After(p, line)
           r == Rows(f)
           sel == IF r = 0 THEN 0 ELSE Least(p.selected, r - 1)
<1>1. f \in Seq(Symbol)
    <2>1. \A i \in (p.at + 1)..Len(line) : line[i] \in Symbol
        OBVIOUS
    <2>2. p.at \in Nat /\ Len(line) \in Nat
        BY DEF Pop
    <2> QED
        BY <2>1, <2>2, SubSeqProperties DEF After
<1>2. r \in Nat /\ p.selected \in Nat
    BY RowsCount DEF Pop
<1>3. popup' = [at |-> p.at, filter |-> f, selected |-> sel]
    BY DEF Refiltered, Popup
<1> HIDE DEF f, r
<1>4. sel \in Nat /\ sel < Most(r, 1)
    BY <1>2 DEF Least, Most
<1> HIDE DEF sel
<1>5. popup' \in Pop
    BY <1>1, <1>3, <1>4 DEF Pop
<1>6. After(popup, input)' = f
    <2>1. popup'.at = p.at /\ input' = line
        BY <1>3
    <2> QED
        BY <2>1 DEF After, f
<1>7. popup'.selected < Most(Rows(popup'.filter), 1)
    BY <1>3, <1>4 DEF r
<1> QED
    BY <1>3, <1>5, <1>6, <1>7 DEF LineInv, Written, PopupIsAnchored

LEMMA NoneHangs ==
    ASSUME input' \in Seq(Symbol), popup' = NoPopup PROVE LineInv'
BY DEF LineInv, Written, PopupIsAnchored, NoPopup, Pop

LEMMA StillHangs ==
    ASSUME LineInv, UNCHANGED <<input, popup>>, popup = NoPopup \/ modal' = "none" PROVE LineInv'
BY DEF LineInv, Written, PopupIsAnchored, After, Rows

LEMMA Blanks == Blank \subseteq Symbol /\ Typed \subseteq Symbol /\ PathSymbols \subseteq Symbol
BY DEF Symbol, Blank

(* The entries found have paths.                                            *)
LEMMA FoundAreEntries ==
    ASSUME NEW p, NEW e \in EntriesAt(p)
    PROVE  e \in Entry /\ e.path \in Seq(Symbol)
<1>1. e \in Entry
    BY InputBounds DEF EntriesAt, Visible, FoundFor
<1>2. e.path \in Seq(PathSymbols)
    BY <1>1 DEF Entry
<1> QED
    BY <1>1, <1>2, Blanks

(* What a completion makes of the line: it is the same up to the @, and then *)
(* comes the path.                                                          *)
LEMMA MentionInLine ==
    ASSUME LineInv, popup # NoPopup, NEW path \in Seq(Symbol)
    PROVE  LET line == WithMention(popup, path)
           IN  /\ line \in Seq(Symbol) /\ Len(line) = popup.at + Len(path)
               /\ popup.at \in 1..Len(line) /\ line[popup.at] = "@"
               /\ popup.at = 1 \/ line[popup.at - 1] \in Blank
               /\ After(popup, line) = path
<1> DEFINE a == popup.at
           u == SubSeq(input, 1, a - 1)
           v == u \o <<"@">>
           line == v \o path
<1>1. /\ a \in 1..Len(input) /\ input \in Seq(Symbol) /\ Len(input) \in Nat /\ Len(path) \in Nat
      /\ a = 1 \/ input[a - 1] \in Blank
    BY DEF LineInv, Written, PopupIsAnchored
<1>2. "@" \in Symbol
    BY DEF Symbol
<1>3. WithMention(popup, path) = line
    BY DEF WithMention
<1> HIDE DEF a
<1>4. u \in Seq(Symbol) /\ Len(u) = a - 1 /\ \A i \in 1..(a - 1) : u[i] = input[i]
    BY <1>1
<1> HIDE DEF u
<1>5. /\ v \in Seq(Symbol) /\ Len(v) = a /\ v[a] = "@"
      /\ \A i \in 1..(a - 1) : v[i] = input[i]
    BY <1>1, <1>2, <1>4
<1> HIDE DEF v
<1>6. /\ line \in Seq(Symbol) /\ Len(line) = a + Len(path)
      /\ \A i \in 1..a : line[i] = v[i]
      /\ \A j \in 1..Len(path) : line[a + j] = path[j]
    <2>1. /\ line \in Seq(Symbol) /\ Len(line) = Len(v) + Len(path)
          /\ \A i \in 1..(Len(v) + Len(path)) :
                line[i] = IF i <= Len(v) THEN v[i] ELSE path[i - Len(v)]
        BY <1>5, ConcatProperties
    <2> HIDE DEF line
    <2>2. a \in Nat /\ Len(v) = a /\ Len(path) \in Nat
        BY <1>1, <1>5
    <2>3. \A i \in 1..a : i \in 1..(Len(v) + Len(path)) /\ i <= Len(v)
        BY <2>2
    <2>5. \A i \in 1..a : line[i] = v[i]
        BY <2>1, <2>3
    <2>6. ASSUME NEW j \in 1..Len(path) PROVE line[a + j] = path[j]
        <3> DEFINE i == a + j
        <3>1. i \in 1..(Len(v) + Len(path)) /\ ~(i <= Len(v)) /\ i - Len(v) = j
            BY <2>2
        <3> HIDE DEF i
        <3>2. line[i] = path[j]
            BY <2>1, <3>1
        <3> QED
            BY <3>2 DEF i
    <2> QED
        BY <2>1, <2>2, <2>5, <2>6
<1> HIDE DEF line
<1>7. a \in 1..Len(line) /\ line[a] = "@"
    BY <1>1, <1>5, <1>6
<1>8. a = 1 \/ line[a - 1] \in Blank
    <2>1. CASE a # 1
        <3>1. a - 1 \in 1..(a - 1) /\ a - 1 \in 1..a
            BY <1>1, <2>1
        <3> QED
            BY <1>1, <1>5, <1>6, <2>1, <3>1
    <2> QED
        BY <2>1
<1>9. SubSeq(line, a + 1, Len(line)) = path
    <2> DEFINE t == SubSeq(line, a + 1, Len(line))
    <2>1. \A i \in (a + 1)..Len(line) : line[i] \in Symbol
        BY <1>1, <1>6
    <2>2. t \in Seq(Symbol) /\ Len(t) = Len(path)
        BY <1>1, <1>6, <2>1, SubSeqProperties
    <2>3. ASSUME NEW i \in 1..Len(path) PROVE t[i] = path[i]
        <3>1. t[i] = line[a + 1 + i - 1]
            BY <1>1, <1>6, <2>1, SubSeqProperties
        <3>2. a + 1 + i - 1 = a + i
            BY <1>1
        <3> QED
            BY <1>6, <3>1, <3>2
    <2> HIDE DEF t
    <2>4. t = path
        BY <2>2, <2>3, SeqEqual
    <2> QED
        BY <2>4 DEF t
<1> QED
    BY <1>3, <1>6, <1>7, <1>8, <1>9 DEF After, a

-----------------------------------------------------------------------------
(* What each key does to the line and the popup.                            *)

(* The popup is only there over the line.                                   *)
LEMMA PopupTypes ==
    ASSUME LineInv
    PROVE  /\ input \in Seq(Symbol) /\ Len(input) \in Nat /\ popup \in Pop
           /\ popup # NoPopup => modal = "none" /\ popup.at \in 1..Len(input)
BY DEF LineInv, Written, PopupIsAnchored

LEMMA CommitKeeps == ASSUME LineInv, popup # NoPopup, CommitMention PROVE LineInv'
<1>1. CASE EntriesAt(popup) = {}
    BY <1>1, PopupTypes, NoneHangs DEF CommitMention
<1>2. CASE EntriesAt(popup) # {}
    <2>1. PICK e \in EntriesAt(popup) :
             input' = Append(WithMention(popup, CommittedPath(e)), " ") /\ popup' = NoPopup
        BY <1>2 DEF CommitMention
    <2>2. CommittedPath(e) \in Seq(Symbol)
        <3>1. e.path \in Seq(Symbol) /\ "/" \in Symbol
            BY FoundAreEntries DEF Symbol
        <3> HIDE DEF Symbol
        <3> QED
            BY <3>1 DEF CommittedPath
    <2>3. WithMention(popup, CommittedPath(e)) \in Seq(Symbol)
        BY <2>2, MentionInLine
    <2>4. input' \in Seq(Symbol)
        <3>1. " " \in Symbol
            BY DEF Symbol
        <3> QED
            BY <2>1, <2>3, <3>1, AppendProperties
    <2> QED
        BY <2>1, <2>4, NoneHangs
<1> QED
    BY <1>1, <1>2

LEMMA TabKeeps == ASSUME LineInv, MentionTab PROVE LineInv'
<1>1. popup # NoPopup /\ modal = "none" /\ modal' = modal
    BY DEF MentionTab, Completing
<1>2. CASE EntriesAt(popup) = {}
    BY <1>2, PopupTypes, NoneHangs DEF MentionTab
<1>3. ASSUME NEW e \in EntriesAt(popup),
             input' = WithMention(popup, e.path), popup' = Refiltered(popup, e.path)
      PROVE  LineInv'
    <2> DEFINE line == WithMention(popup, e.path)
    <2>1. e.path \in Seq(Symbol)
        BY FoundAreEntries
    <2>2. /\ line \in Seq(Symbol)
          /\ popup.at \in 1..Len(line) /\ line[popup.at] = "@"
          /\ popup.at = 1 \/ line[popup.at - 1] \in Blank
          /\ After(popup, line) = e.path
        BY <1>1, <2>1, MentionInLine
    <2> HIDE DEF line
    <2>3. popup \in Pop /\ input' = line /\ popup' = Refiltered(popup, After(popup, line))
        BY <1>3, <2>2, PopupTypes DEF line
    <2> QED
        BY <1>1, <2>2, <2>3, RefilteredHangs
<1>4. CASE CommitMention
    BY <1>1, <1>4, CommitKeeps
<1> QED
    BY <1>2, <1>3, <1>4 DEF MentionTab

LEMMA MoveKeeps == ASSUME LineInv, NEW k, MentionMove(k) PROVE LineInv'
<1> DEFINE r == Rows(popup.filter)
           sel == IF k = "up" THEN Most(popup.selected - 1, 0)
                  ELSE IF popup.selected + 1 < r THEN popup.selected + 1 ELSE popup.selected
<1>1. /\ popup # NoPopup /\ modal' = "none" /\ input' = input
      /\ popup' = [popup EXCEPT !.selected = sel]
    BY DEF MentionMove, Completing
<1>2. popup.selected \in Nat /\ popup.selected < Most(r, 1) /\ r \in Nat
    BY <1>1, RowsCount, PopupTypes DEF LineInv, PopupIsAnchored, Pop
<1>3. sel \in Nat /\ sel < Most(r, 1)
    BY <1>2 DEF Most
<1> HIDE DEF sel
<1>4. /\ popup' \in Pop /\ popup'.at = popup.at /\ popup'.filter = popup.filter
      /\ popup'.selected = sel
    BY <1>1, <1>3, PopupTypes DEF Pop
<1>5. popup'.selected < Most(Rows(popup'.filter), 1)
    BY <1>3, <1>4
<1>6. After(popup, input)' = After(popup, input)
    BY <1>1, <1>4 DEF After
<1> QED
    BY <1>1, <1>4, <1>5, <1>6 DEF LineInv, Written, PopupIsAnchored

LEMMA SymbolKeeps == ASSUME LineInv, NEW c \in Typed, TypeSymbol(c) PROVE LineInv'
<1> DEFINE line == Append(input, c)
           n == Len(line)
<1>1. modal' = "none" /\ input' = line
    BY DEF TypeSymbol
<1>2. /\ line \in Seq(Symbol) /\ n = Len(input) + 1 /\ n \in Nat /\ line[n] = c
      /\ \A i \in 1..Len(input) : line[i] = input[i]
    BY PopupTypes, Blanks
<1> HIDE DEF line, n
<1>3. CASE popup' = NoPopup
    BY <1>1, <1>2, <1>3, NoneHangs
<1>4. CASE popup # NoPopup /\ popup' = Refiltered(popup, After(popup, input'))
    <2>1. /\ popup.at \in 1..Len(input) /\ input[popup.at] = "@" /\ Len(input) \in Nat
          /\ popup.at = 1 \/ input[popup.at - 1] \in Blank
        BY <1>4, PopupTypes DEF LineInv, PopupIsAnchored
    <2>2. popup.at \in 1..Len(line) /\ line[popup.at] = "@"
        BY <1>2, <2>1 DEF n
    <2>3. popup.at = 1 \/ line[popup.at - 1] \in Blank
        <3>1. popup.at # 1 => popup.at - 1 \in 1..Len(input)
            BY <2>1
        <3> QED
            BY <1>2, <2>1, <3>1
    <2> QED
        BY <1>1, <1>2, <1>4, <2>2, <2>3, PopupTypes, RefilteredHangs
<1>5. CASE c = "@" /\ MentionAllowed /\ popup' = Popup(Len(input'), <<>>, 0)
    <2>1. popup' = [at |-> n, filter |-> <<>>, selected |-> 0]
        BY <1>1, <1>5 DEF Popup, n
    <2>2. popup' \in Pop
        BY <1>2, <2>1 DEF Pop
    <2>3. n \in 1..Len(line)
        BY <1>2, PopupTypes DEF n
    <2>4. n = 1 \/ line[n - 1] \in Blank
        <3>1. CASE input = <<>>
            BY <1>2, <3>1
        <3>2. CASE input # <<>>
            <4>1. Len(input) \in 1..Len(input) /\ n - 1 = Len(input)
                BY <1>2, <3>2, PopupTypes
            <4> QED
                BY <1>2, <1>5, <3>2, <4>1 DEF MentionAllowed
        <3> QED
            BY <3>1, <3>2
    <2>5. After(popup, input)' = <<>>
        <3>1. popup'.at = n /\ input' = line /\ n + 1 \in Int /\ n < n + 1
            BY <1>1, <1>2, <2>1
        <3>2. SubSeq(line, n + 1, n) = <<>>
            BY <1>2, <3>1, SubSeqEmpty
        <3> QED
            BY <3>1, <3>2 DEF After, n
    <2>6. 0 < Most(Rows(<<>>), 1)
        BY RowsCount DEF Most
    <2> QED
        BY <1>1, <1>2, <1>5, <2>1, <2>2, <2>3, <2>4, <2>5, <2>6 DEF LineInv, Written, PopupIsAnchored
<1> QED
    BY <1>3, <1>4, <1>5 DEF TypeSymbol

LEMMA BackspaceKeeps == ASSUME LineInv, Backspace PROVE LineInv'
<1> DEFINE line == SubSeq(input, 1, Len(input) - 1)
<1>1. modal' = "none"
    BY DEF Backspace
<1>2. CASE input = <<>>
    <2>1. popup = NoPopup
        BY <1>2, PopupTypes
    <2> QED
        BY <1>2, <2>1, NoneHangs DEF Backspace
<1>3. CASE input # <<>>
    <2>1. input' = line
        BY <1>3 DEF Backspace
    <2>2. /\ line \in Seq(Symbol) /\ Len(line) = Len(input) - 1 /\ Len(line) \in Nat
          /\ \A i \in 1..Len(line) : line[i] = input[i]
        <3>1. input \in Seq(Symbol) /\ Len(input) \in Nat /\ Len(input) >= 1
            BY <1>3, PopupTypes
        <3>2. 1 <= Len(input) - 1 + 1 /\ Len(input) - 1 \in Nat
            BY <3>1
        <3>3. \A i \in 1..(Len(input) - 1) : input[i] \in Symbol
            BY <3>1
        <3>4. /\ line \in Seq(Symbol)
              /\ Len(line) = IF 1 <= Len(input) - 1 THEN Len(input) - 1 - 1 + 1 ELSE 0
              /\ \A i \in 1..(Len(input) - 1 - 1 + 1) : line[i] = input[1 + i - 1]
            BY <3>2, <3>3, SubSeqProperties
        <3> HIDE DEF line
        <3>7. ASSUME NEW n \in Nat, n >= 1
              PROVE  /\ (IF 1 <= n - 1 THEN n - 1 - 1 + 1 ELSE 0) = n - 1
                     /\ n - 1 - 1 + 1 = n - 1
            BY <3>7
        <3>5. Len(line) = Len(input) - 1 /\ Len(input) - 1 - 1 + 1 = Len(input) - 1
            BY <3>1, <3>4, <3>7
        <3>6. ASSUME NEW i \in 1..Len(line) PROVE line[i] = input[i]
            <4>1. 1 + i - 1 = i /\ i \in 1..(Len(input) - 1 - 1 + 1)
                BY <3>1, <3>5
            <4> QED
                BY <3>4, <4>1
        <3> QED
            BY <3>2, <3>4, <3>5, <3>6
    <2> HIDE DEF line
    <2>3. CASE popup' = NoPopup
        BY <2>1, <2>2, <2>3, NoneHangs
    <2>4. CASE popup # NoPopup /\ ~(Len(input') < popup.at) /\ popup' = Refiltered(popup, After(popup, input'))
        <3>1. /\ popup.at \in 1..Len(input) /\ input[popup.at] = "@" /\ Len(input) \in Nat
              /\ popup.at = 1 \/ input[popup.at - 1] \in Blank
            BY <2>4, PopupTypes DEF LineInv, PopupIsAnchored
        <3>2. popup.at \in 1..Len(line)
            BY <2>1, <2>2, <2>4, <3>1
        <3>3. popup.at # 1 => popup.at - 1 \in 1..Len(line)
            BY <2>2, <3>2
        <3>4. line[popup.at] = "@" /\ (popup.at = 1 \/ line[popup.at - 1] \in Blank)
            BY <2>2, <3>1, <3>2, <3>3
        <3> QED
            BY <1>1, <2>1, <2>2, <2>4, <3>2, <3>4, PopupTypes, RefilteredHangs
    <2> QED
        BY <2>3, <2>4 DEF Backspace
<1> QED
    BY <1>2, <1>3

LEMMA FirstIsThere == ASSUME NEW cs \in SUBSET (1..6), cs # {} PROVE FirstOf(cs) \in cs
<1>1. \E c \in cs : \A d \in cs : c <= d
    <2> SUFFICES ASSUME \A c \in cs : \E d \in cs : d < c PROVE FALSE
        OBVIOUS
    <2>1. \A c \in cs : c \in {1, 2, 3, 4, 5, 6}
        OBVIOUS
    <2>2. 1 \notin cs
        BY <2>1
    <2>3. 2 \notin cs
        BY <2>1, <2>2
    <2>4. 3 \notin cs
        BY <2>1, <2>2, <2>3
    <2>5. 4 \notin cs
        BY <2>1, <2>2, <2>3, <2>4
    <2>6. 5 \notin cs
        BY <2>1, <2>2, <2>3, <2>4, <2>5
    <2>7. 6 \notin cs
        BY <2>1, <2>2, <2>3, <2>4, <2>5, <2>6
    <2> QED
        BY <2>1, <2>2, <2>3, <2>4, <2>5, <2>6, <2>7
<1> QED
    BY <1>1 DEF FirstOf

LEMMA CompleteKeeps == ASSUME LineInv, CompleteCommand PROVE LineInv'
<1>1. popup' = NoPopup
    BY DEF CompleteCommand, Typing
<1>2. CASE Suggested = {}
    BY <1>1, <1>2, PopupTypes, NoneHangs DEF CompleteCommand
<1>3. CASE Suggested # {}
    <2>1. Suggested \subseteq DOMAIN Commands /\ DOMAIN Commands = 1..6
        BY DEF Suggested, Meant, Commands
    <2>2. FirstOf(Suggested) \in DOMAIN Commands
        BY <1>3, <2>1, FirstIsThere
    <2>3. Commands[FirstOf(Suggested)] \in Symbol /\ "/" \in Symbol
        BY <2>2 DEF Symbol
    <2>4. input' = <<"/", Commands[FirstOf(Suggested)]>>
        BY <1>3 DEF CompleteCommand
    <2> QED
        BY <1>1, <2>3, <2>4, NoneHangs
<1> QED
    BY <1>2, <1>3

LEMMA LineKept ==
    ASSUME LineInv, Next \/ UNCHANGED vars
    PROVE  LineInv'
<1>0. input \in Seq(Symbol) /\ (popup # NoPopup => modal = "none")
    BY PopupTypes
<1>1. CASE UNCHANGED vars
    BY <1>0, <1>1, StillHangs DEF vars, inputVars
<1>2. CASE MentionTab
    BY <1>2, TabKeeps
<1>3. CASE MentionEnter
    BY <1>3, CommitKeeps DEF MentionEnter, Completing
<1>4. CASE MentionEscape
    BY <1>0, <1>4, NoneHangs DEF MentionEscape
<1>5. ASSUME NEW k, MentionMove(k) PROVE LineInv'
    BY <1>5, MoveKeeps
<1>6. ASSUME NEW c \in Typed, TypeSymbol(c) PROVE LineInv'
    BY <1>6, SymbolKeeps
<1>7. ASSUME NEW c \in Typed, Paste(<<c>>) PROVE LineInv'
    <2>1. CASE modal # "none"
        BY <1>0, <1>7, <2>1, StillHangs DEF Paste
    <2>2. CASE modal = "none"
        <3>1. input' = input \o <<c>> /\ popup' = NoPopup
            BY <1>7, <2>2 DEF Paste
        <3>2. <<c>> \in Seq(Symbol)
            BY Blanks
        <3>3. input' \in Seq(Symbol)
            BY <1>0, <3>1, <3>2, ConcatProperties
        <3> QED
            BY <3>1, <3>3, NoneHangs
    <2> QED
        BY <2>1, <2>2
<1>8. CASE Backspace
    BY <1>8, BackspaceKeeps
<1>9. CASE CompleteCommand
    BY <1>9, CompleteKeeps
<1>10. CASE CtrlC \/ TakeSubmission
    BY <1>0, <1>10, StillHangs DEF CtrlC, TakeSubmission
<1>11. ASSUME NEW k, MenuKey(k) \/ SettingsModalKey(k) PROVE LineInv'
    BY <1>0, <1>11, StillHangs DEF MenuKey, SettingsModalKey
<1>12. CASE MenuEnter \/ ModalEscape \/ SettingsEscape
    BY <1>0, <1>12, StillHangs DEF MenuEnter, ModalEscape, SettingsEscape
<1>13. CASE Enter
    <2>1. input' = <<>> /\ popup' = NoPopup
        BY <1>13 DEF Enter, Typing
    <2> QED
        BY <2>1, NoneHangs
<1> QED
    BY <1>1, <1>2, <1>3, <1>4, <1>5, <1>6, <1>7, <1>8, <1>9, <1>10, <1>11, <1>12, <1>13
       DEF Next, Key

-----------------------------------------------------------------------------
(* The modals, the menu and the sections.                                   *)

(* The page of a row, and the first row of a page.                          *)
LEMMA Pages ==
    ASSUME NEW p \in Nat
    PROVE  p * PageSize \in Nat /\ (p * PageSize) \div PageSize = p /\ p \div PageSize \in Nat
BY InputBounds

LEMMA PageBegins ==
    ASSUME NEW p \in Nat, NEW row \in Nat, p <= row \div PageSize
    PROVE  p * PageSize <= row
<1>1. PageSize \in Nat /\ PageSize > 0
    BY InputBounds
<1>2. PageSize * (row \div PageSize) <= row /\ row \div PageSize \in Nat
    BY <1>1
<1>3. PageSize * p <= PageSize * (row \div PageSize)
    BY <1>1, <1>2
<1> QED
    BY <1>1, <1>2, <1>3

LEMMA MenuKeeps ==
    ASSUME ScreenInv, NEW k, MenuKey(k)
    PROVE  Paged'
<1>0. /\ modal = "menu" /\ pick \in Nat /\ page \in Nat /\ Stored \in Nat
      /\ pick < Most(Stored, 1) /\ page = pick \div PageSize
    BY InputBounds DEF MenuKey, ScreenInv, Paged
<1>1. ASSUME NEW p \in Nat, p < Most(Stored, 1), Select(p) PROVE Paged'
    BY <1>1, Pages DEF Select, Paged
<1>2. ASSUME NEW p \in Nat, NEW row \in Nat, row < Most(Stored, 1), p <= row \div PageSize, Turn(p)
      PROVE  Paged'
    <2>1. p * PageSize <= row /\ p * PageSize \in Nat
        BY <1>2, Pages, PageBegins
    <2>2. p * PageSize < Most(Stored, 1)
        BY <1>0, <1>2, <2>1 DEF Most
    <2> QED
        BY <1>2, <2>1, <2>2, Pages DEF Turn, Paged
<1>3. CASE k = "up" /\ Stored > 0
    <2>1. Most(pick - 1, 0) \in Nat /\ Most(pick - 1, 0) < Most(Stored, 1)
        BY <1>0 DEF Most
    <2>2. Select(Most(pick - 1, 0))
        BY <1>3 DEF MenuKey
    <2> QED
        BY <1>1, <2>1, <2>2
<1>4. CASE k = "down" /\ Stored > 0
    <2>1. Least(pick + 1, Stored - 1) \in Nat /\ Least(pick + 1, Stored - 1) < Most(Stored, 1)
        BY <1>0, <1>4 DEF Least, Most
    <2>2. Select(Least(pick + 1, Stored - 1))
        BY <1>4 DEF MenuKey
    <2> QED
        BY <1>1, <2>1, <2>2
<1>5. CASE k = "left" /\ page > 0
    <2>1. page - 1 \in Nat /\ page - 1 <= pick \div PageSize
        BY <1>0, <1>5
    <2>2. Turn(page - 1)
        BY <1>5 DEF MenuKey
    <2> QED
        BY <1>0, <1>2, <2>1, <2>2
<1>6. CASE k = "right" /\ page < LastPage
    <2>1. Stored # 0
        BY <1>0, <1>6 DEF LastPage
    <2>2. LastPage = (Stored - 1) \div PageSize /\ Stored - 1 \in Nat
        BY <1>0, <2>1 DEF LastPage
    <2>3. LastPage \in Nat
        BY <2>2, Pages
    <2>4. page + 1 \in Nat /\ page + 1 <= (Stored - 1) \div PageSize /\ Stored - 1 < Most(Stored, 1)
        BY <1>0, <1>6, <2>2, <2>3 DEF Most
    <2>5. Turn(page + 1)
        BY <1>6 DEF MenuKey
    <2> QED
        BY <1>2, <2>2, <2>4, <2>5
<1>7. CASE UNCHANGED <<pick, page>>
    BY <1>0, <1>7 DEF MenuKey, Paged
<1> QED
    BY <1>3, <1>4, <1>5, <1>6, <1>7 DEF MenuKey

LEMMA MenuOpens == ASSUME OpenMenu PROVE Paged'
<1>1. 0 \div PageSize = 0
    BY InputBounds
<1>2. 0 < Most(Stored, 1)
    BY InputBounds DEF Most
<1> QED
    BY <1>1, <1>2 DEF OpenMenu, Paged

LEMMA SectionsKept ==
    ASSUME Sectioned, NEW k \in Keys, SettingsKey(k) PROVE Sectioned'
<1>0. section \in 1..3 /\ DOMAIN Sections = 1..3 /\ Len(Sections) = 3 /\ focus \in {"navigation", "detail"}
    BY DEF Sectioned, Sections
<1>1. CASE PaneKey(k)
    BY <1>1 DEF PaneKey, Sectioned
<1>2. CASE NavigationKey(k)
    <2>1. focus' \in {"navigation", "detail"}
        BY <1>0, <1>2 DEF NavigationKey
    <2>2. section' \in 1..3
        <3>1. CASE section' = section
            BY <1>0, <3>1
        <3>2. CASE k \in Turns /\ Travel(k)
            <4>1. /\ Most(section - 1, 1) \in 1..3 /\ Least(section + 1, 3) \in 1..3
                  /\ Most(section - 3, 1) \in 1..3 /\ Least(section + 3, 3) \in 1..3
                BY <1>0 DEF Most, Least
            <4>2. CASE k \in {"up", "down"}
                BY <1>0, <3>2, <4>1, <4>2 DEF Travel
            <4>3. CASE k \in {"home", "end"}
                <5>1. section' \in {1, Len(Sections)}
                    BY <3>2, <4>3 DEF Travel
                <5> QED
                    BY <1>0, <5>1
            <4>4. CASE k \in {"pageup", "pagedown"}
                BY <1>0, <3>2, <4>1, <4>4 DEF Travel
            <4> QED
                BY <3>2, <4>2, <4>3, <4>4 DEF Turns
        <3> QED
            BY <1>2, <3>1, <3>2 DEF NavigationKey, Scroll
    <2> QED
        BY <1>0, <2>1, <2>2 DEF Sectioned
<1> QED
    BY <1>1, <1>2 DEF SettingsKey

LEMMA ScreenUntouched ==
    ASSUME ScreenInv, UNCHANGED settingsVars, UNCHANGED <<modal, pick, page>>, Counted'
    PROVE  ScreenInv'
BY DEF ScreenInv, Counted, Covered, Paged, Sectioned, settingsVars

LEMMA ScreenKept ==
    ASSUME ScreenInv, Next \/ UNCHANGED vars
    PROVE  ScreenInv'
<1>0. Counted /\ Covered /\ Paged /\ Sectioned
    BY DEF ScreenInv
<1>1. Counted'
    <2>1. CASE ctrlC' = 0
        BY <2>1 DEF Counted
    <2>2. CASE ctrlC' = ctrlC /\ running' = running
        BY <1>0, <2>2 DEF Counted
    <2>3. CASE CtrlC
        <3>1. running /\ ctrlC' = ctrlC + 1 /\ running' = (ctrlC' < 2)
            BY <2>3 DEF CtrlC, Listening
        <3>2. ctrlC' \in 0..2
            BY <1>0, <3>1 DEF Counted
        <3>3. running' => ctrlC' < 2
            BY <3>1
        <3> QED
            BY <3>2, <3>3 DEF Counted
    <2> QED
        BY <2>1, <2>2, <2>3 DEF Next, Key, MentionTab, MentionEnter, MentionEscape, MentionMove,
           TypeSymbol, Paste, Backspace, CompleteCommand, Enter, TakeSubmission, MenuKey, MenuEnter,
           ModalEscape, SettingsEscape, SettingsModalKey, Pressed, vars, inputVars
<1>2. CASE Quiet /\ UNCHANGED <<modal, pick, page>>
    BY <1>1, <1>2, ScreenUntouched DEF Quiet
<1>3. CASE UNCHANGED vars
    BY <1>1, <1>3, ScreenUntouched DEF vars, inputVars
<1>4. ASSUME NEW k, MenuKey(k) PROVE ScreenInv'
    BY <1>0, <1>1, <1>4, MenuKeeps DEF MenuKey, ScreenInv, Covered, Sectioned, Quiet, settingsVars
<1>5. CASE MenuEnter \/ ModalEscape
    <2>1. /\ modal' \in {"none", modal} /\ modal \in {"text", "menu"}
          /\ UNCHANGED <<open, section, focus, pick, page>>
        BY <1>5 DEF MenuEnter, ModalEscape, Quiet, settingsVars
    <2>2. Covered'
        BY <1>0, <2>1 DEF Covered
    <2>3. Paged' /\ Sectioned'
        BY <1>0, <2>1 DEF Paged, Sectioned
    <2> QED
        BY <1>1, <2>2, <2>3 DEF ScreenInv
<1>6. CASE SettingsEscape
    <2>1. /\ modal = "config" /\ open /\ UNCHANGED <<pick, page>>
          /\ modal' = IF open' THEN "config" ELSE "none"
          /\ open' \in {open, FALSE}
          /\ UNCHANGED <<section, focus>> \/ (section' = 1 /\ focus' = "navigation")
        BY <1>6 DEF SettingsEscape, Escape, Fresh
    <2>2. Covered'
        BY <1>0, <2>1 DEF Covered
    <2>3. Paged'
        BY <1>0, <2>1 DEF Paged
    <2>4. Sectioned'
        BY <1>0, <2>1 DEF Sectioned, Sections
    <2> QED
        BY <1>1, <2>2, <2>3, <2>4 DEF ScreenInv
<1>7. ASSUME NEW k \in Keys, SettingsModalKey(k) PROVE ScreenInv'
    <2>1. SettingsKey(k) /\ UNCHANGED <<open, modal, pick, page>>
        BY <1>7 DEF SettingsModalKey, SettingsKey, PaneKey, NavigationKey
    <2>2. Covered' /\ Paged'
        BY <1>0, <2>1 DEF Covered, Paged
    <2> QED
        BY <1>0, <1>1, <2>1, <2>2, SectionsKept DEF ScreenInv
<1>8. CASE Enter
    <2>1. modal = "none" /\ ~open
        BY <1>0, <1>8 DEF Enter, Typing, Covered
    <2>2. ASSUME NEW command, Run(command) PROVE Covered' /\ Paged' /\ Sectioned'
        <3>1. CASE command = "sessions"
            <4>1. OpenMenu /\ Quiet
                BY <2>2, <3>1 DEF Run
            <4> QED
                BY <1>0, <2>1, <4>1, MenuOpens DEF OpenMenu, Quiet, settingsVars, Covered, Sectioned
        <3>2. CASE command = "help"
            <4>1. modal' = "text" /\ UNCHANGED <<pick, page>> /\ Quiet
                BY <2>2, <3>2 DEF Run
            <4> QED
                BY <1>0, <2>1, <4>1 DEF Quiet, settingsVars, Covered, Paged, Sectioned
        <3>3. CASE command = "config"
            <4>1. modal' = "config" /\ UNCHANGED <<pick, page>> /\ OpenSettings
                BY <2>2, <3>3 DEF Run
            <4>2. open' = TRUE /\ section' = 1 /\ focus' = "navigation"
                BY <4>1 DEF OpenSettings, Fresh
            <4> QED
                BY <1>0, <4>1, <4>2 DEF Covered, Paged, Sectioned, Sections
        <3>4. CASE command \notin {"sessions", "help", "config"}
            <4>1. UNCHANGED <<modal, pick, page>> /\ Quiet
                BY <2>2, <3>4 DEF Run
            <4> QED
                BY <1>0, <4>1 DEF Quiet, settingsVars, Covered, Paged, Sectioned
        <3> QED
            BY <3>1, <3>2, <3>3, <3>4
    <2>3. CASE Quiet /\ UNCHANGED <<modal, pick, page>>
        BY <1>1, <2>3, ScreenUntouched DEF Quiet
    <2> QED
        BY <1>1, <1>8, <2>2, <2>3 DEF Enter, ScreenInv
<1> QED
    BY <1>2, <1>3, <1>4, <1>5, <1>6, <1>7, <1>8
       DEF Next, Key, MentionTab, MentionEnter, MentionEscape, MentionMove, TypeSymbol, Paste,
           Backspace, CompleteCommand, CtrlC, TakeSubmission

LEMMA InputKept ==
    ASSUME [RoutingNext]_routingVars PROVE Next \/ UNCHANGED vars
BY DEF RoutingNext, routingVars, KeysOnly, EnterLine, ChooseSession, Submit, HandleSubmit, Next

(* The types and the highlights, however the keys are mixed.                 *)
THEOREM ScreenIsConsistent == RoutingSpec => []TypeOK
<1>1. RoutingInit => ScreenInv
    <2> SUFFICES ASSUME RoutingInit PROVE ScreenInv
        OBVIOUS
    <2>1. Init
        BY DEF RoutingInit
    <2>2. Counted /\ Covered
        <3>1. ctrlC = 0 /\ modal = "none" /\ open = FALSE
            BY <2>1 DEF Init, SettingsInit
        <3>2. Counted
            BY <3>1 DEF Counted
        <3>3. Covered
            BY <3>1 DEF Covered
        <3> QED
            BY <3>2, <3>3
    <2>3. Paged /\ Sectioned
        BY <2>1 DEF Init, SettingsInit, Paged, Sectioned, Sections
    <2> QED
        BY <2>2, <2>3 DEF ScreenInv
<1>2. ScreenInv /\ [RoutingNext]_routingVars => ScreenInv'
    BY InputKept, ScreenKept
<1>3. IInv /\ ScreenInv => TypeOK
    <2> SUFFICES ASSUME IInv, ScreenInv PROVE TypeOK
        OBVIOUS
    <2>1. SettingsTypeOK
        BY DEF IInv, Listed, InList, Drafted, ScreenInv, Sectioned, SettingsTypeOK
    <2> QED
        BY <2>1 DEF ScreenInv, Counted, Covered, Paged, TypeOK
<1> QED
    BY <1>1, <1>2, <1>3, ShownIsStored, PTL DEF RoutingSpec

(* However the line came about, an open popup hangs on a @ that begins a     *)
(* word, is filtered by what follows, and highlights a row that is there.    *)
THEOREM PopupHolds == RoutingSpec => []PopupIsAnchored
<1>1. RoutingInit => LineInv
    BY DEF RoutingInit, Init, LineInv, Written, PopupIsAnchored, NoPopup, Pop
<1>2. LineInv /\ [RoutingNext]_routingVars => LineInv'
    BY InputKept, LineKept
<1>3. LineInv => PopupIsAnchored
    BY DEF LineInv
<1> QED
    BY <1>1, <1>2, <1>3, PTL DEF RoutingSpec

=============================================================================
