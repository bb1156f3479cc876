--------------------------- MODULE TerminalInput ----------------------------
(***************************************************************************)
(* What a key does in the terminal client (xoxo-tui app/events/mod.rs): it   *)
(* goes to the modal if one is open, else to the popup that completes an     *)
(* @-mention (mention_popup.rs, mention_file_walker.rs), else to the input   *)
(* line, where Enter runs a slash command (commands.rs) or submits a         *)
(* message.  The settings modal is SettingsModal's; the menu of sessions     *)
(* (modal/menu.rs) is here.                                                  *)
(*                                                                          *)
(* A symbol of the input is a character or a word of a path or a command.   *)
(* The layout, the mouse and the scroll position are left out.              *)
(***************************************************************************)
EXTENDS SettingsModal, FiniteSets

CONSTANTS
    Typed,          \* symbols typed
    Entries,        \* what the walk of the workspace finds: [path, dir] in its order
    MaxVisible,     \* MAX_VISIBLE (8)
    Stored,         \* chats in storage
    PageSize,       \* SESSIONS_PAGE_SIZE (10)
    MaxInput        \* bound: symbols in the input line

(* A path is a sequence of symbols.                                         *)
PathSymbols == UNION {{Entries[e].path[i] : i \in DOMAIN Entries[e].path} : e \in DOMAIN Entries}
Entry == [path : Seq(PathSymbols) \ {<<>>}, dir : BOOLEAN]

ASSUME InputAssumption ==
    /\ {MaxVisible, PageSize, MaxInput} \subseteq Nat \ {0} /\ Stored \in Nat
    /\ Entries \in Seq(Entry)

(* In the order of COMMANDS.  "he" is a prefix of help.                      *)
Commands == <<"config", "help", "quit", "clear", "new", "sessions">>
Blank == {" ", "\n"}

VARIABLES
    running, ctrlC,     \* the main loop goes on; Ctrl+C in a row
    input,              \* the input line
    pending,            \* pending_submission: <<>> is None
    modal,              \* none, text, menu or config
    pick, page,         \* of the menu: selected_index, page_index (from 0)
    popup               \* the mention popup: NoPopup or where it hangs, filter and highlight

inputVars == <<running, ctrlC, input, pending, modal, pick, page, popup>>
vars == <<inputVars, settingsVars>>

NoPopup == [at |-> 0, filter |-> <<>>, selected |-> 0]
Popup(at, filter, sel) == [at |-> at, filter |-> filter, selected |-> sel]

Init ==
    /\ SettingsInit
    /\ running = TRUE /\ ctrlC = 0 /\ input = <<>> /\ pending = <<>>
    /\ modal = "none" /\ pick = 0 /\ page = 0 /\ popup = NoPopup

(* The loop takes a key, submits what it made pending, and so on.           *)
Listening == running /\ pending = <<>>
Quiet == UNCHANGED settingsVars
Pressed == ctrlC' = 0
Typing == Listening /\ modal = "none" /\ popup = NoPopup
Completing == Listening /\ modal = "none" /\ popup # NoPopup

-----------------------------------------------------------------------------
(* The mention popup.                                                       *)

Contains(s, t) ==
    \E k \in 0..(Len(s) - Len(t)) : \A j \in 1..Len(t) : s[k + j] = t[j]
FoundFor(filter) == {e \in DOMAIN Entries : Contains(Entries[e].path, filter)}
Before(es, e) == {x \in es : x < e}

(* The entries a filter leaves, no more than MaxVisible: the row of an entry *)
(* is the number of those before it.                                         *)
Row(filter, e) == Cardinality(Before(FoundFor(filter), e))
Visible(filter) == {e \in FoundFor(filter) : Row(filter, e) < MaxVisible}
Rows(filter) == Cardinality(Visible(filter))
EntriesAt(p) == {Entries[e] : e \in {x \in Visible(p.filter) : Row(p.filter, x) = p.selected}}

(* Mutant: the highlight may be left below the last row.                    *)
RefilteredUnclamped(p, filter) == Popup(p.at, filter, p.selected)

(* recompute_visible keeps the row, not the entry, highlighted.             *)
Refiltered(p, filter) ==
    Popup(p.at, filter,
          IF Rows(filter) = 0 THEN 0 ELSE Least(p.selected, Rows(filter) - 1))

After(p, line) == SubSeq(line, p.at + 1, Len(line))
WithMention(p, path) == SubSeq(input, 1, p.at - 1) \o <<"@">> \o path

(* The directory's slash comes before the blank that ends the mention.      *)
CommittedPath(e) == IF e.dir THEN Append(e.path, "/") ELSE e.path
CommitMention ==
    /\ popup' = NoPopup
    /\ IF EntriesAt(popup) = {} THEN UNCHANGED input
       ELSE \E e \in EntriesAt(popup) : input' = Append(WithMention(popup, CommittedPath(e)), " ")

(* The first Tab on a directory completes the text, the next one commits.   *)
Completes(e) == e.dir /\ After(popup, input) # e.path
MentionTab ==
    /\ Completing /\ Pressed
    /\ IF EntriesAt(popup) = {} THEN popup' = NoPopup /\ UNCHANGED input
       ELSE \E e \in EntriesAt(popup) :
               IF Completes(e)
               THEN /\ input' = WithMention(popup, e.path)
                    /\ popup' = Refiltered(popup, e.path)
               ELSE CommitMention
    /\ Quiet /\ UNCHANGED <<running, pending, modal, pick, page>>

MentionEnter ==
    /\ Completing /\ Pressed /\ CommitMention
    /\ Quiet /\ UNCHANGED <<running, pending, modal, pick, page>>

MentionEscape ==
    /\ Completing /\ Pressed /\ popup' = NoPopup
    /\ Quiet /\ UNCHANGED <<running, input, pending, modal, pick, page>>

MentionMove(k) ==
    /\ Completing /\ Pressed /\ k \in {"up", "down"}
    /\ popup' = [popup EXCEPT !.selected =
                    IF k = "up" THEN Most(popup.selected - 1, 0)
                    ELSE IF popup.selected + 1 < Rows(popup.filter) THEN popup.selected + 1
                    ELSE popup.selected]
    /\ Quiet /\ UNCHANGED <<running, input, pending, modal, pick, page>>

-----------------------------------------------------------------------------
(* The input line.                                                          *)

MentionAllowed == input = <<>> \/ input[Len(input)] \in Blank

(* A typed symbol filters the popup, or closes it if it is blank, and a @    *)
(* that begins a word opens one.                                             *)
TypeSymbol(c) ==
    /\ Listening /\ modal = "none" /\ Pressed
    /\ Len(input) < MaxInput
    /\ input' = Append(input, c)
    /\ popup' = CASE popup # NoPopup /\ c \in Blank -> NoPopup
                  [] popup # NoPopup /\ c \notin Blank -> Refiltered(popup, After(popup, input'))
                  [] popup = NoPopup /\ c = "@" /\ MentionAllowed -> Popup(Len(input'), <<>>, 0)
                  [] OTHER -> NoPopup
    /\ Quiet /\ UNCHANGED <<running, pending, modal, pick, page>>

Backspace ==
    /\ Listening /\ modal = "none" /\ Pressed
    /\ input' = IF input = <<>> THEN <<>> ELSE SubSeq(input, 1, Len(input) - 1)
    /\ popup' = IF popup = NoPopup \/ Len(input') < popup.at THEN NoPopup
                ELSE Refiltered(popup, After(popup, input'))
    /\ Quiet /\ UNCHANGED <<running, pending, modal, pick, page>>

Paste(s) ==
    /\ Listening
    /\ Len(input) + Len(s) <= MaxInput
    /\ IF modal # "none" THEN UNCHANGED <<input, popup>>
       ELSE input' = input \o s /\ popup' = NoPopup
    /\ Quiet /\ UNCHANGED <<running, ctrlC, pending, modal, pick, page>>

(* Commands that begin with what is typed; the first of them is suggested.  *)
Abbreviates(word, command) == word = command \/ (word = "he" /\ command = "help")
Meant ==
    {c \in DOMAIN Commands :
        \/ input = <<"/">>
        \/ Len(input) = 2 /\ input[1] = "/" /\ Abbreviates(input[2], Commands[c])}
FirstOf(cs) == CHOOSE c \in cs : \A d \in cs : c <= d
Suggested == {c \in Meant : input # <<"/", Commands[c]>>}

CompleteCommand ==
    /\ Typing /\ Pressed
    /\ input' = IF Suggested = {} THEN input ELSE <<"/", Commands[FirstOf(Suggested)]>>
    /\ Quiet /\ UNCHANGED <<running, pending, modal, pick, page, popup>>

OpenMenu == modal' = "menu" /\ pick' = 0 /\ page' = 0

Run(command) ==
    /\ UNCHANGED pending
    /\ running' = (command # "quit")
    /\ CASE command = "sessions" -> OpenMenu /\ Quiet
         [] command = "help" -> modal' = "text" /\ UNCHANGED <<pick, page>> /\ Quiet
         [] command = "config" -> modal' = "config" /\ UNCHANGED <<pick, page>> /\ OpenSettings
         [] OTHER -> UNCHANGED <<modal, pick, page>> /\ Quiet

(* A line that begins with a slash and is no command is dropped.            *)
Enter ==
    /\ Typing /\ Pressed
    /\ input' = <<>> /\ UNCHANGED popup
    /\ IF Meant # {} THEN Run(Commands[FirstOf(Meant)])
       ELSE /\ pending' = IF input # <<>> /\ input[1] # "/" THEN input ELSE pending
            /\ Quiet /\ UNCHANGED <<running, modal, pick, page>>

(* main.rs sends what is pending before it looks at the next key.           *)
TakeSubmission ==
    /\ pending # <<>> /\ pending' = <<>>
    /\ Quiet /\ UNCHANGED <<running, ctrlC, input, modal, pick, page, popup>>

CtrlC ==
    /\ Listening /\ ctrlC' = ctrlC + 1
    /\ running' = (ctrlC' < 2)
    /\ Quiet /\ UNCHANGED <<input, pending, modal, pick, page, popup>>

-----------------------------------------------------------------------------
(* Modals.                                                                  *)

LastPage == IF Stored = 0 THEN 0 ELSE (Stored - 1) \div PageSize
(* Mutant: a page is turned under the highlight.                            *)
TurnAlone(p) == page' = p /\ UNCHANGED pick
Turn(p) == page' = p /\ pick' = p * PageSize
Select(p) == pick' = p /\ page' = p \div PageSize

MenuKey(k) ==
    /\ Listening /\ modal = "menu" /\ Pressed
    /\ CASE k = "up" /\ Stored > 0 -> Select(Most(pick - 1, 0))
         [] k = "down" /\ Stored > 0 -> Select(Least(pick + 1, Stored - 1))
         [] k = "left" /\ page > 0 -> Turn(page - 1)
         [] k = "right" /\ page < LastPage -> Turn(page + 1)
         [] OTHER -> UNCHANGED <<pick, page>>
    /\ Quiet /\ UNCHANGED <<running, input, pending, modal, popup>>

(* Loads the chat chosen; its part in the session is TerminalSession's.     *)
MenuEnter ==
    /\ Listening /\ modal = "menu" /\ Pressed
    /\ modal' = IF pick < Stored THEN "none" ELSE modal
    /\ Quiet /\ UNCHANGED <<running, input, pending, pick, page, popup>>

ModalEscape ==
    /\ Listening /\ modal \in {"text", "menu"} /\ Pressed
    /\ modal' = "none"
    /\ Quiet /\ UNCHANGED <<running, input, pending, pick, page, popup>>

SettingsEscape ==
    /\ Listening /\ modal = "config" /\ Pressed
    /\ Escape
    /\ modal' = IF open' THEN "config" ELSE "none"
    /\ UNCHANGED <<running, input, pending, pick, page, popup>>

SettingsModalKey(k) ==
    /\ Listening /\ modal = "config" /\ Pressed
    /\ SettingsKey(k)
    /\ UNCHANGED <<running, input, pending, modal, pick, page, popup>>

(* Keys that leave the active chat alone: all but the two Enters.           *)
Key ==
    \/ MentionTab \/ MentionEnter \/ MentionEscape \/ \E k \in Keys : MentionMove(k)
    \/ \E c \in Typed : TypeSymbol(c) \/ Paste(<<c>>)
    \/ Backspace \/ CompleteCommand \/ CtrlC
    \/ \E k \in Keys : MenuKey(k) \/ SettingsModalKey(k)
    \/ ModalEscape \/ SettingsEscape

Next == Key \/ Enter \/ MenuEnter \/ TakeSubmission

Spec == Init /\ [][Next]_vars

-----------------------------------------------------------------------------
(* The types, and the highlights: whatever mix of steps, page turns, removals *)
(* and additions, the row highlighted is there and on the page that is shown, *)
(* so that Enter loads, edits or replaces what the user sees.                 *)
TypeOK ==
    /\ SettingsTypeOK
    /\ ctrlC \in 0..2 /\ modal \in {"none", "text", "menu", "config"}
    /\ open <=> modal = "config"
    /\ modal = "menu" => pick < Most(Stored, 1) /\ page = pick \div PageSize

(* However the line was typed, pasted, completed and erased: an open popup   *)
(* hangs on a @ of the line that begins a word, its filter is the text after *)
(* it, its highlight is on a row it shows, and no modal is over it           *)
(* (slicing at a stale trigger_at would panic or replace other text).        *)
PopupIsAnchored ==
    popup # NoPopup =>
        /\ popup.at \in DOMAIN input /\ input[popup.at] = "@"
        /\ popup.at = 1 \/ input[popup.at - 1] \in Blank
        /\ popup.filter = After(popup, input)
        /\ popup.selected < Most(Rows(popup.filter), 1)
        /\ modal = "none"

=============================================================================
