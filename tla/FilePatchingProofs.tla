------------------------- MODULE FilePatchingProofs -------------------------
(***************************************************************************)
(* For any number of agents and contents of the file: an edit is made of a   *)
(* content that was registered, but for a patch into whose call somebody     *)
(* else has written; and as long as one agent uses the file and nobody       *)
(* disturbs its calls, a patch is applied to what it last saw, and a call    *)
(* that fails has not done what it was asked.                               *)
(*                                                                          *)
(* The second property is inductive only together with what is known of the  *)
(* one agent at each place of a call; the first holds of any number of them.  *)
(*                                                                          *)
(* And for any content and any batch: what patch_file makes of the lines is  *)
(* what the single edits make of them from the bottom up.  Both ways go over  *)
(* the lines by a fold, so this is an induction over them.                   *)
(*                                                                          *)
(* And for any grammars, files and names: what the syntax tools write by     *)
(* the byte ranges of a tree is the text of the tree that comes of it, and   *)
(* an import they wrote is found again.                                     *)
(***************************************************************************)
EXTENDS FilePatching, FileEdits, SequenceTheorems, FiniteSetTheorems, WellFoundedInduction, TLAPS

Places == {"idle", "checksum", "upsert", "create", "ensure", "reread", "plan", "update"}
Tools == {"none", "read", "write", "patch", "symbol", "import"}
Written == {"no", "part", "all"}
Typed ==
    /\ disk \in Nat /\ made \in Nat /\ tracked \in Nat
    /\ view \in [Agent -> Nat] /\ content \in [Agent -> Nat] /\ checksum \in [Agent -> Nat]
    /\ pc \in [Agent -> Places] /\ tool \in [Agent -> Tools]
    /\ wrote \in [Agent -> Written] /\ failed \in [Agent -> BOOLEAN] /\ calm \in BOOLEAN

(* Who has made no call is in none and has failed in none, and before the    *)
(* first one nothing is registered.                                         *)
Entered ==
    /\ users \subseteq Agent /\ IsFiniteSet(users)
    /\ \A a \in Agent \ users : pc[a] = "idle" /\ ~failed[a]
    /\ users = {} => tracked = 0

Listed == tracked # 0 => tracked \in registered

(* What the places of a call say of any agent's content and checksum: the    *)
(* symbol tools edit what they checked, and while nobody else has changed    *)
(* the file, both are the file's.                                           *)
Chain(a) ==
    /\ pc[a] \in {"ensure", "plan"} /\ tool[a] # "patch" => content[a] = checksum[a]
    /\ pc[a] = "reread" => tool[a] = "patch"
    /\ pc[a] \in {"reread", "plan"} => checksum[a] \in registered
    /\ pc[a] \in {"ensure", "reread", "plan"} /\ a \notin touched =>
           content[a] = disk /\ checksum[a] = disk

Chained == \A a \in Agent : Chain(a)

(* What a single agent knows of the file at each place of a call.           *)
Knows(a) ==
    /\ tracked # 0 => tracked = view[a]
    /\ pc[a] = "checksum" => content[a] = disk
    /\ pc[a] = "upsert" => checksum[a] = content[a]
    /\ pc[a] = "ensure" => content[a] = disk /\ checksum[a] = disk
    /\ pc[a] \in {"reread", "plan"} => content[a] = disk /\ checksum[a] = disk
    /\ pc[a] \in {"reread", "plan", "update"} => tracked # 0 /\ tracked = checksum[a]
    /\ pc[a] \in {"checksum", "create", "ensure", "reread", "plan"} => wrote[a] = "no"
    /\ failed[a] => pc[a] = "idle" /\ wrote[a] # "all"

Alone == \A a, b \in users : a = b
Informed == calm /\ Alone => \A a \in users : Knows(a)

IInv == Typed /\ Entered /\ Listed /\ Chained /\ Informed

LEMMA Initially == Init => IInv
<1> SUFFICES ASSUME Init PROVE IInv
    OBVIOUS
<1>1. Typed
    <2>1. failed \in [Agent -> BOOLEAN] /\ calm \in BOOLEAN
        BY Zenon DEF Init
    <2>2. /\ view \in [Agent -> Nat] /\ content \in [Agent -> Nat] /\ checksum \in [Agent -> Nat]
          /\ disk \in Nat /\ made \in Nat /\ tracked \in Nat
        BY DEF Init
    <2>3. pc \in [Agent -> Places] /\ tool \in [Agent -> Tools]
        BY DEF Init, Places, Tools
    <2>4. wrote \in [Agent -> Written]
        BY DEF Init, Written
    <2> QED
        BY <2>1, <2>2, <2>3, <2>4 DEF Typed
<1>2. Entered
    BY FS_EmptySet DEF Init, Entered
<1>3. Listed /\ Chained /\ Informed
    BY DEF Init, Listed, Chained, Chain, Informed
<1> QED
    BY <1>1, <1>2, <1>3 DEF IInv

(* The first step of a call: the caller is among the users, and alone only   *)
(* if there was nobody else.                                                *)
LEMMA BeginEnters ==
    ASSUME IInv, NEW a \in Agent, NEW t, NEW ok \in BOOLEAN, NEW step \in Places,
           Begin(a, t, ok, step), tracked' = tracked
    PROVE  /\ Entered' /\ (Alone' => Alone /\ users' = {a})
           /\ a \notin users /\ Alone' => tracked = 0
           /\ pc' \in [Agent -> Places] /\ failed' \in [Agent -> BOOLEAN]
<1>1. /\ users' = users \cup {a} /\ pc' = [pc EXCEPT ![a] = IF ok THEN step ELSE "idle"]
      /\ failed' = [failed EXCEPT ![a] = ~ok]
    BY DEF Begin, Entering, Goto
<1>2. IsFiniteSet(users')
    BY <1>1, FS_AddElement DEF IInv, Entered
<1>3. pc \in [Agent -> Places] /\ failed \in [Agent -> BOOLEAN]
    BY DEF IInv, Typed
<1>4. pc' \in [Agent -> Places]
    BY <1>1, <1>3 DEF Places
<1>5. failed' \in [Agent -> BOOLEAN] /\ \A c \in Agent \ {a} : failed'[c] = failed[c]
    BY <1>1, <1>3, Zenon
<1>6. Entered'
    <2>1. \A c \in Agent \ users' : pc'[c] = "idle" /\ ~failed'[c]
        BY <1>1, <1>3, <1>5 DEF IInv, Entered
    <2> QED
        BY <1>1, <1>2, <2>1 DEF IInv, Entered
<1>7. Alone' => Alone /\ users' = {a}
    BY <1>1 DEF Alone
<1>8. a \notin users /\ Alone' => tracked = 0
    BY <1>1, <1>7 DEF IInv, Entered
<1> QED
    BY <1>4, <1>5, <1>6, <1>7, <1>8

LEMMA ReadContentKeeps == ASSUME IInv, NEW a \in Agent, ReadContent(a) PROVE IInv'
<1>0. /\ pc[a] = "idle" /\ users' = users \cup {a} /\ calm' = calm /\ touched' = touched \ {a}
      /\ pc' = [pc EXCEPT ![a] = IF disk # 0 THEN "checksum" ELSE "idle"]
      /\ tool' = [tool EXCEPT ![a] = "read"] /\ wrote' = [wrote EXCEPT ![a] = "no"]
      /\ failed' = [failed EXCEPT ![a] = ~(disk # 0)]
      /\ content' = [content EXCEPT ![a] = disk]
      /\ UNCHANGED <<disk, made, tracked, registered, view, checksum>>
    BY DEF ReadContent, Begin, Entering, Goto, disks
<1>1. /\ Entered' /\ (Alone' => Alone /\ users' = {a})
      /\ a \notin users /\ Alone' => tracked = 0
      /\ pc' \in [Agent -> Places] /\ failed' \in [Agent -> BOOLEAN]
    <2>1. Begin(a, "read", disk # 0, "checksum") /\ tracked' = tracked
        BY DEF ReadContent
    <2>2. (disk # 0) \in BOOLEAN /\ "checksum" \in Places
        BY DEF Places
    <2> QED
        BY <2>1, <2>2, BeginEnters, Zenon
<1>2. Typed'
    <2>1. wrote' \in [Agent -> Written] /\ calm' \in BOOLEAN
        BY <1>0 DEF IInv, Typed, Written
    <2>2. tool' \in [Agent -> Tools]
        BY <1>0 DEF IInv, Typed, Tools
    <2>3. /\ disk' \in Nat /\ made' \in Nat /\ tracked' \in Nat /\ view' \in [Agent -> Nat]
          /\ content' \in [Agent -> Nat] /\ checksum' \in [Agent -> Nat]
        BY <1>0 DEF IInv, Typed
    <2> QED
        BY <1>1, <2>1, <2>2, <2>3 DEF Typed
<1>3. Listed' /\ Chained'
    BY <1>0 DEF IInv, Typed, Listed, Chained, Chain
<1>4. Informed'
    <2>0. wrote'[a] = "no"
        BY <1>0 DEF IInv, Typed
    <2>1. (failed'[a] => ~(disk # 0))
        BY <1>0, Zenon DEF IInv, Typed
    <2>2. /\ failed'[a] => pc'[a] = "idle"
          /\ pc'[a] \in {"idle", "checksum", "create", "ensure"}
        BY <1>0, <2>1 DEF IInv, Typed
    <2>3. calm' /\ Alone' /\ tracked # 0 => tracked = view[a]
        BY <1>0, <1>1 DEF IInv, Informed, Knows
    <2>4. /\ tracked' = tracked /\ view' = view /\ disk' = disk
          /\ pc'[a] = "checksum" => content'[a] = disk
          /\ pc'[a] = "ensure" => content'[a] = disk /\ checksum'[a] = disk
        BY <1>0 DEF IInv, Typed
    <2>5. calm' /\ Alone' => Knows(a)'
        BY <2>0, <2>1, <2>2, <2>3, <2>4 DEF Knows
    <2> QED
        BY <1>1, <2>5 DEF Informed
<1> QED
    BY <1>1, <1>2, <1>3, <1>4 DEF IInv

LEMMA CheckAbsentKeeps == ASSUME IInv, NEW a \in Agent, CheckAbsent(a) PROVE IInv'
<1>0. /\ pc[a] = "idle" /\ users' = users \cup {a} /\ calm' = calm /\ touched' = touched \ {a}
      /\ pc' = [pc EXCEPT ![a] = IF disk = 0 THEN "create" ELSE "idle"]
      /\ tool' = [tool EXCEPT ![a] = "write"] /\ wrote' = [wrote EXCEPT ![a] = "no"]
      /\ failed' = [failed EXCEPT ![a] = ~(disk = 0)]
      /\ UNCHANGED <<disk, made, tracked, registered, view, content, checksum>>
    BY DEF CheckAbsent, Begin, Entering, Goto, disks, local
<1>1. /\ Entered' /\ (Alone' => Alone /\ users' = {a})
      /\ a \notin users /\ Alone' => tracked = 0
      /\ pc' \in [Agent -> Places] /\ failed' \in [Agent -> BOOLEAN]
    <2>1. Begin(a, "write", disk = 0, "create") /\ tracked' = tracked
        BY DEF CheckAbsent
    <2>2. (disk = 0) \in BOOLEAN /\ "create" \in Places
        BY DEF Places
    <2> QED
        BY <2>1, <2>2, BeginEnters, Zenon
<1>2. Typed'
    <2>1. wrote' \in [Agent -> Written] /\ calm' \in BOOLEAN
        BY <1>0 DEF IInv, Typed, Written
    <2>2. tool' \in [Agent -> Tools]
        BY <1>0 DEF IInv, Typed, Tools
    <2>3. /\ disk' \in Nat /\ made' \in Nat /\ tracked' \in Nat /\ view' \in [Agent -> Nat]
          /\ content' \in [Agent -> Nat] /\ checksum' \in [Agent -> Nat]
        BY <1>0 DEF IInv, Typed
    <2> QED
        BY <1>1, <2>1, <2>2, <2>3 DEF Typed
<1>3. Listed' /\ Chained'
    BY <1>0 DEF IInv, Typed, Listed, Chained, Chain
<1>4. Informed'
    <2>0. wrote'[a] = "no"
        BY <1>0 DEF IInv, Typed
    <2>1. (failed'[a] => ~(disk = 0))
        BY <1>0, Zenon DEF IInv, Typed
    <2>2. /\ failed'[a] => pc'[a] = "idle"
          /\ pc'[a] \in {"idle", "checksum", "create", "ensure"}
        BY <1>0, <2>1 DEF IInv, Typed
    <2>3. calm' /\ Alone' /\ tracked # 0 => tracked = view[a]
        BY <1>0, <1>1 DEF IInv, Informed, Knows
    <2>4. /\ tracked' = tracked /\ view' = view /\ disk' = disk
          /\ pc'[a] = "checksum" => content'[a] = disk
          /\ pc'[a] = "ensure" => content'[a] = disk /\ checksum'[a] = disk
        BY <1>0 DEF IInv, Typed
    <2>5. calm' /\ Alone' => Knows(a)'
        BY <2>0, <2>1, <2>2, <2>3, <2>4 DEF Knows
    <2> QED
        BY <1>1, <2>5 DEF Informed
<1> QED
    BY <1>1, <1>2, <1>3, <1>4 DEF IInv

LEMMA BaselineKeeps ==
    ASSUME IInv, NEW a \in Agent, NEW t \in {"patch", "symbol", "import"}, Baseline(a, t)
    PROVE  IInv'
<1>0. /\ pc[a] = "idle" /\ users' = users \cup {a} /\ calm' = calm /\ touched' = touched \ {a}
      /\ pc' = [pc EXCEPT ![a] = IF disk # 0 THEN "ensure" ELSE "idle"]
      /\ tool' = [tool EXCEPT ![a] = t] /\ wrote' = [wrote EXCEPT ![a] = "no"]
      /\ failed' = [failed EXCEPT ![a] = ~(disk # 0)]
      /\ content' = [content EXCEPT ![a] = disk] /\ checksum' = [checksum EXCEPT ![a] = disk]
      /\ UNCHANGED <<disk, made, tracked, registered, view>>
    BY DEF Baseline, Begin, Entering, Goto, disks
<1>1. /\ Entered' /\ (Alone' => Alone /\ users' = {a})
      /\ a \notin users /\ Alone' => tracked = 0
      /\ pc' \in [Agent -> Places] /\ failed' \in [Agent -> BOOLEAN]
    <2>1. Begin(a, t, disk # 0, "ensure") /\ tracked' = tracked
        BY DEF Baseline
    <2>2. (disk # 0) \in BOOLEAN /\ "ensure" \in Places
        BY DEF Places
    <2> QED
        BY <2>1, <2>2, BeginEnters, Zenon
<1>2. Typed'
    <2>1. wrote' \in [Agent -> Written] /\ calm' \in BOOLEAN
        BY <1>0 DEF IInv, Typed, Written
    <2>2. tool' \in [Agent -> Tools]
        BY <1>0 DEF IInv, Typed, Tools
    <2>3. /\ disk' \in Nat /\ made' \in Nat /\ tracked' \in Nat /\ view' \in [Agent -> Nat]
          /\ content' \in [Agent -> Nat] /\ checksum' \in [Agent -> Nat]
        BY <1>0 DEF IInv, Typed
    <2> QED
        BY <1>1, <2>1, <2>2, <2>3 DEF Typed
<1>3. Listed' /\ Chained'
    BY <1>0 DEF IInv, Typed, Listed, Chained, Chain
<1>4. Informed'
    <2>0. wrote'[a] = "no"
        BY <1>0 DEF IInv, Typed
    <2>1. (failed'[a] => ~(disk # 0))
        BY <1>0, Zenon DEF IInv, Typed
    <2>2. /\ failed'[a] => pc'[a] = "idle"
          /\ pc'[a] \in {"idle", "checksum", "create", "ensure"}
        BY <1>0, <2>1 DEF IInv, Typed
    <2>3. calm' /\ Alone' /\ tracked # 0 => tracked = view[a]
        BY <1>0, <1>1 DEF IInv, Informed, Knows
    <2>4. /\ tracked' = tracked /\ view' = view /\ disk' = disk
          /\ pc'[a] = "checksum" => content'[a] = disk
          /\ pc'[a] = "ensure" => content'[a] = disk /\ checksum'[a] = disk
        BY <1>0 DEF IInv, Typed
    <2>5. calm' /\ Alone' => Knows(a)'
        BY <2>0, <2>1, <2>2, <2>3, <2>4 DEF Knows
    <2> QED
        BY <1>1, <2>5 DEF Informed
<1> QED
    BY <1>1, <1>2, <1>3, <1>4 DEF IInv

(* Every later step is one of a user, and if it is alone, of the only one.   *)
LEMMA InsideOne ==
    ASSUME IInv, NEW a \in Agent, pc[a] # "idle"
    PROVE  a \in users /\ users # {} /\ (Alone => users = {a})
BY DEF IInv, Entered, Alone

LEMMA FailKeeps ==
    ASSUME IInv, NEW a \in Agent, Fail(a), pc[a] # "idle", calm /\ Alone => wrote[a] # "all"
    PROVE  IInv'
<1>0. /\ pc' = [pc EXCEPT ![a] = "idle"] /\ failed' = [failed EXCEPT ![a] = TRUE]
      /\ UNCHANGED <<disk, made, tracked, registered, view, tool, content, checksum, wrote,
                     users, calm, touched>>
    BY DEF Fail, Goto, disks, local, past
<1>1. a \in users /\ users # {} /\ (Alone => users = {a})
    BY InsideOne
<1>2. Typed' /\ Entered' /\ Listed' /\ Chained'
    BY <1>0, <1>1 DEF IInv, Typed, Places, Written, Entered, Listed, Chained, Chain
<1>3. Informed'
    BY <1>0, <1>1 DEF IInv, Typed, Informed, Knows, Alone
<1> QED
    BY <1>2, <1>3 DEF IInv

LEMMA ReadChecksumKeeps == ASSUME IInv, NEW a \in Agent, ReadChecksum(a) PROVE IInv'
<1>0. /\ pc[a] = "checksum" /\ pc' = [pc EXCEPT ![a] = "upsert"]
      /\ checksum' = [checksum EXCEPT ![a] = disk]
      /\ UNCHANGED <<disk, made, tracked, registered, view, tool, content, wrote, failed,
                     users, calm, touched>>
    BY DEF ReadChecksum, Goto, disks, past
<1>1. a \in users /\ users # {} /\ (Alone => users = {a})
    BY <1>0, InsideOne
<1>2. Typed' /\ Entered' /\ Listed' /\ Chained'
    BY <1>0, <1>1 DEF IInv, Typed, Places, Written, Entered, Listed, Chained, Chain
<1>3. Informed'
    BY <1>0, <1>1 DEF IInv, Typed, Informed, Knows, Alone
<1> QED
    BY <1>2, <1>3 DEF IInv

LEMMA UpsertKeeps == ASSUME IInv, NEW a \in Agent, Upsert(a) PROVE IInv'
<1>0. /\ pc[a] = "upsert" /\ pc' = [pc EXCEPT ![a] = "idle"]
      /\ tracked' = checksum[a] /\ registered' = registered \cup {checksum[a]}
      /\ view' = [view EXCEPT ![a] = content[a]]
      /\ UNCHANGED <<disk, made, tool, content, checksum, wrote, failed, users, calm, touched>>
    BY DEF Upsert, Goto, disks, local, past
<1>1. a \in users /\ users # {} /\ (Alone => users = {a})
    BY <1>0, InsideOne
<1>2. Typed' /\ Entered' /\ Listed' /\ Chained'
    BY <1>0, <1>1 DEF IInv, Typed, Places, Written, Entered, Listed, Chained, Chain
<1>3. Informed'
    BY <1>0, <1>1 DEF IInv, Typed, Informed, Knows, Alone
<1> QED
    BY <1>2, <1>3 DEF IInv

LEMMA CreateKeeps == ASSUME IInv, NEW a \in Agent, Create(a) PROVE IInv'
<1>0. /\ pc[a] = "create" /\ pc' = [pc EXCEPT ![a] = "upsert"]
      /\ disk' = made + 1 /\ made' = made + 1 /\ wrote' = [wrote EXCEPT ![a] = "all"]
      /\ touched' = touched \cup {b \in Agent : pc[b] # "idle" /\ b # a}
      /\ content' = [content EXCEPT ![a] = made + 1] /\ checksum' = [checksum EXCEPT ![a] = made + 1]
      /\ UNCHANGED <<tracked, registered, view, tool, failed, users, calm>>
    BY DEF Create, WriteNew, Write, InCall, Goto
<1>1. a \in users /\ users # {} /\ (Alone => users = {a})
    BY <1>0, InsideOne
<1>2. Typed' /\ Entered' /\ Listed' /\ Chained'
    BY <1>0, <1>1 DEF IInv, Typed, Places, Written, Entered, Listed, Chained, Chain
<1>3. Informed'
    BY <1>0, <1>1 DEF IInv, Typed, Informed, Knows, Alone
<1> QED
    BY <1>2, <1>3 DEF IInv

LEMMA EnsureKeeps == ASSUME IInv, NEW a \in Agent, Ensure(a) PROVE IInv'
<1>0. /\ pc[a] = "ensure" /\ tracked # 0 /\ tracked = checksum[a]
      /\ pc' = [pc EXCEPT ![a] = IF tool[a] = "patch" THEN "reread" ELSE "plan"]
      /\ UNCHANGED <<disk, made, tracked, registered, view, tool, content, checksum, wrote, failed,
                     users, calm, touched>>
    BY DEF Ensure, EnsureRead, Goto, disks, local, past
<1>1. a \in users /\ users # {} /\ (Alone => users = {a})
    BY <1>0, InsideOne
<1>2. Typed' /\ Entered' /\ Listed' /\ Chained'
    BY <1>0, <1>1 DEF IInv, Typed, Places, Written, Entered, Listed, Chained, Chain
<1>3. Informed'
    BY <1>0, <1>1 DEF IInv, Typed, Informed, Knows, Alone
<1> QED
    BY <1>2, <1>3 DEF IInv

LEMMA RereadKeeps == ASSUME IInv, NEW a \in Agent, Reread(a) PROVE IInv'
<1>0. /\ pc[a] = "reread" /\ pc' = [pc EXCEPT ![a] = "plan"]
      /\ content' = [content EXCEPT ![a] = disk]
      /\ UNCHANGED <<disk, made, tracked, registered, view, tool, checksum, wrote, failed,
                     users, calm, touched>>
    BY DEF Reread, Goto, disks, past
<1>1. a \in users /\ users # {} /\ (Alone => users = {a})
    BY <1>0, InsideOne
<1>2. Typed' /\ Entered' /\ Listed' /\ Chained'
    BY <1>0, <1>1 DEF IInv, Typed, Places, Written, Entered, Listed, Chained, Chain
<1>3. Informed'
    BY <1>0, <1>1 DEF IInv, Typed, Informed, Knows, Alone
<1> QED
    BY <1>2, <1>3 DEF IInv

LEMMA OverwriteKeeps == ASSUME IInv, NEW a \in Agent, Overwrite(a) PROVE IInv'
<1>0. /\ pc[a] = "plan" /\ pc' = [pc EXCEPT ![a] = "update"]
      /\ disk' = made + 1 /\ made' = made + 1 /\ wrote' = [wrote EXCEPT ![a] = "all"]
      /\ touched' = touched \cup {b \in Agent : pc[b] # "idle" /\ b # a}
      /\ UNCHANGED <<tracked, registered, view, tool, content, checksum, failed, users, calm>>
    BY DEF Overwrite, WriteNew, Write, InCall, Goto, local
<1>1. a \in users /\ users # {} /\ (Alone => users = {a})
    BY <1>0, InsideOne
<1>2. Typed' /\ Entered' /\ Listed' /\ Chained'
    BY <1>0, <1>1 DEF IInv, Typed, Places, Written, Entered, Listed, Chained, Chain
<1>3. Informed'
    BY <1>0, <1>1 DEF IInv, Typed, Informed, Knows, Alone
<1> QED
    BY <1>2, <1>3 DEF IInv

LEMMA NothingToDoKeeps == ASSUME IInv, NEW a \in Agent, NothingToDo(a) PROVE IInv'
<1>0. /\ pc[a] = "plan" /\ pc' = [pc EXCEPT ![a] = "update"]
      /\ UNCHANGED <<disk, made, tracked, registered, view, tool, content, checksum, wrote, failed,
                     users, calm, touched>>
    BY DEF NothingToDo, Goto, disks, local, past
<1>1. a \in users /\ users # {} /\ (Alone => users = {a})
    BY <1>0, InsideOne
<1>2. Typed' /\ Entered' /\ Listed' /\ Chained'
    BY <1>0, <1>1 DEF IInv, Typed, Places, Written, Entered, Listed, Chained, Chain
<1>3. Informed'
    BY <1>0, <1>1 DEF IInv, Typed, Informed, Knows, Alone
<1> QED
    BY <1>2, <1>3 DEF IInv

LEMMA UpdateKeeps == ASSUME IInv, NEW a \in Agent, Update(a) PROVE IInv'
<1>0. /\ pc[a] = "update" /\ pc' = [pc EXCEPT ![a] = "idle"] /\ tracked # 0
      /\ registered' = registered \cup {tracked}
      /\ UNCHANGED <<disk, made, tracked, view, tool, content, checksum, wrote, failed,
                     users, calm, touched>>
    BY DEF Update, EnsureRead, Rebased, Goto, disks, local, past
<1>1. a \in users /\ users # {} /\ (Alone => users = {a})
    BY <1>0, InsideOne
<1>2. Typed' /\ Entered' /\ Listed' /\ Chained'
    BY <1>0, <1>1 DEF IInv, Typed, Places, Written, Entered, Listed, Chained, Chain
<1>3. Informed'
    BY <1>0, <1>1 DEF IInv, Typed, Informed, Knows, Alone
<1> QED
    BY <1>2, <1>3 DEF IInv

(* A failing call has not written, if nobody disturbs it: after a write, the *)
(* baseline is still the one that was ensured.                              *)
LEMMA ErrorKeeps ==
    ASSUME IInv, NEW a \in Agent, ReadVanished(a) \/ Misfit(a) \/ Refuse(a)
    PROVE  IInv'
<1>1. Fail(a) /\ pc[a] # "idle"
    BY DEF ReadVanished, Misfit, Refuse
<1>2. ASSUME calm, Alone PROVE wrote[a] # "all"
    <2>1. a \in users
        BY <1>1, InsideOne
    <2>2. Knows(a)
        BY <1>2, <2>1 DEF IInv, Informed
    <2>3. pc[a] \in {"checksum", "ensure", "reread", "plan"}
          \/ (pc[a] = "update" /\ ~EnsureRead(checksum[a]))
        BY DEF ReadVanished, Misfit, Refuse, OldChecksum
    <2> QED
        BY <2>2, <2>3 DEF Knows, EnsureRead
<1> QED
    BY <1>1, <1>2, FailKeeps

(* A write that fails halfway changes the file for everybody else in a call,  *)
(* and is not all of what was asked for.                                    *)
LEMMA WriteFailsKeeps == ASSUME IInv, NEW a \in Agent, WriteFails(a) PROVE IInv'
<1>0. pc[a] \in {"create", "plan"} /\ a \in users /\ users # {} /\ (Alone => users = {a})
    BY InsideOne DEF WriteFails
<1>1. CASE Fail(a)
    <2>1. calm /\ Alone => wrote[a] # "all"
        BY <1>0 DEF IInv, Informed, Knows
    <2> QED
        BY <1>0, <1>1, <2>1, FailKeeps
<1>2. CASE ~Fail(a)
    <2>0. /\ pc' = [pc EXCEPT ![a] = "idle"] /\ failed' = [failed EXCEPT ![a] = TRUE]
          /\ disk' = made + 1 /\ made' = made + 1 /\ wrote' = [wrote EXCEPT ![a] = "part"]
          /\ touched' = touched \cup {b \in Agent : pc[b] # "idle" /\ b # a}
          /\ UNCHANGED <<tracked, registered, view, tool, content, checksum, users, calm>>
        BY <1>2 DEF WriteFails, Write, InCall, Goto, local
    <2>1. Typed' /\ Entered' /\ Listed' /\ Chained'
        BY <1>0, <2>0 DEF IInv, Typed, Places, Written, Entered, Listed, Chained, Chain
    <2>2. Informed'
        BY <1>0, <2>0 DEF IInv, Typed, Informed, Knows, Alone
    <2> QED
        BY <2>1, <2>2 DEF IInv
<1> QED
    BY <1>1, <1>2

LEMMA OutsideKeeps == ASSUME IInv, Outside PROVE IInv'
<1>0. /\ disk' \in Nat /\ made' \in Nat /\ calm' = (calm /\ InCall = {})
      /\ touched' = touched \cup InCall
      /\ UNCHANGED <<tracked, registered, view, pc, tool, content, checksum, wrote, failed, users>>
    BY DEF Outside, IInv, Typed, local
<1>1. Typed' /\ Entered' /\ Listed' /\ Chained'
    BY <1>0 DEF IInv, Typed, Entered, Listed, Chained, Chain, InCall
<1>2. Informed'
    <2> SUFFICES ASSUME calm', Alone', NEW a \in users' PROVE Knows(a)'
        BY DEF Informed
    <2>1. pc[a] = "idle" /\ calm /\ Alone /\ a \in users
        BY <1>0 DEF InCall, Alone, IInv, Entered
    <2> QED
        BY <1>0, <2>1 DEF IInv, Informed, Knows
<1> QED
    BY <1>1, <1>2 DEF IInv

LEMMA Preserved == IInv /\ [Next]_vars => IInv'
<1> SUFFICES ASSUME IInv, [Next]_vars PROVE IInv'
    OBVIOUS
<1>1. CASE UNCHANGED vars
    BY <1>1 DEF vars, disks, local, past, IInv, Typed, Entered, Listed, Chained, Chain,
                Informed, Knows, Alone
<1>2. CASE Outside
    BY <1>2, OutsideKeeps
<1>3. ASSUME NEW a \in Agent, Step(a) PROVE IInv'
    BY <1>3, ReadContentKeeps, ReadChecksumKeeps, UpsertKeeps, CheckAbsentKeeps, CreateKeeps,
       BaselineKeeps, EnsureKeeps, RereadKeeps, OverwriteKeeps, NothingToDoKeeps, UpdateKeeps,
       ErrorKeeps, WriteFailsKeeps DEF Step
<1> QED
    BY <1>1, <1>2, <1>3 DEF Next

(* Whoever has called, what is registered and what the only user of the file *)
(* knows, in every reachable state.                                         *)
THEOREM Invariance == Spec => []IInv
    BY Initially, Preserved, PTL DEF Spec

(* However agents and other programs interleave, an edit is made of a        *)
(* registered content, and a patch of the content that is there.            *)
THEOREM EditsAreRegistered == Spec => []EditsRegistered
<1>1. IInv => EditsRegistered
    BY DEF IInv, Chained, Chain, EditsRegistered
<1> QED
    BY <1>1, Invariance, PTL

(* Undisturbed, line numbers are applied to the content they were seen in.   *)
THEOREM PatchesFitWhatWasSeen == Spec => []AppliedToSeen
<1>1. IInv => AppliedToSeen
    <2> SUFFICES ASSUME IInv, calm, Cardinality(users) <= 1, NEW a \in Agent
                 PROVE  /\ pc[a] = "plan" /\ tool[a] = "patch" => content[a] = view[a]
                        /\ failed[a] => wrote[a] # "all"
        BY DEF AppliedToSeen, Undisturbed
    <2>1. Alone
        <3>1. IsFiniteSet(users) /\ Cardinality(users) \in Nat
            BY FS_CardinalityType DEF IInv, Entered
        <3>2. Cardinality(users) = 0 => users = {}
            BY <3>1, FS_EmptySet
        <3>3. Cardinality(users) = 1 => \E x : users = {x}
            BY <3>1, FS_Singleton
        <3>4. Cardinality(users) = 0 \/ Cardinality(users) = 1
            BY <3>1
        <3> QED
            BY <3>2, <3>3, <3>4 DEF Alone
    <2>2. CASE a \in users
        <3>1. Knows(a)
            BY <2>1, <2>2 DEF IInv, Informed
        <3> QED
            BY <3>1 DEF Knows
    <2>3. CASE a \notin users
        BY <2>3 DEF IInv, Entered
    <2> QED
        BY <2>2, <2>3
<1> QED
    BY <1>1, Invariance, PTL

-----------------------------------------------------------------------------
(* The lines of a batch                                                     *)

(* Induction over the numbers, with a set in the place of a predicate, from   *)
(* the fact that every set of them has a least one.                         *)
LEMMA Induction ==
    ASSUME NEW S, 0 \in S, \A n \in Nat : n \in S => n + 1 \in S
    PROVE  Nat \subseteq S
<1> SUFFICES ASSUME Nat \ S # {} PROVE FALSE
    OBVIOUS
<1>1. PICK x \in Nat \ S : \A y \in Nat \ S : <<y, x>> \notin OpToRel(<, Nat)
    <2> DEFINE T == Nat \ S
    <2>1. T \subseteq Nat /\ T # {}
        OBVIOUS
    <2> HIDE DEF T
    <2>2. \E x \in T : \A y \in T : <<y, x>> \notin OpToRel(<, Nat)
        BY <2>1, WFMin, NatLessThanWellFounded, Zenon
    <2> QED
        BY <2>2 DEF T
<1>2. x # 0 /\ x - 1 \in Nat /\ x - 1 < x
    OBVIOUS
<1>3. x - 1 \notin S
    BY <1>2
<1>4. <<x - 1, x>> \in OpToRel(<, Nat)
    BY <1>2 DEF OpToRel
<1> QED
    BY <1>1, <1>2, <1>3, <1>4

(* FlattenSeq chooses the function whose value at i is the first i sequences  *)
(* one behind the other; what it computes is known once there is one, for     *)
(* any number of them.                                                      *)
Flattened(seqs, f, n) == f = [i \in 1..n |-> IF i = 1 THEN seqs[i] ELSE f[i - 1] \o seqs[i]]

LEMMA FlattenedStep ==
    ASSUME NEW seqs, NEW n \in Nat, NEW f, Flattened(seqs, f, n)
    PROVE  \E g : Flattened(seqs, g, n + 1)
<1> DEFINE g == [i \in 1..(n + 1) |->
                    IF i = 1 THEN seqs[i]
                    ELSE IF i = n + 1 THEN f[n] \o seqs[i] ELSE f[i]]
           h == [i \in 1..(n + 1) |-> IF i = 1 THEN seqs[i] ELSE g[i - 1] \o seqs[i]]
<1>0. \A i \in 1..n : f[i] = IF i = 1 THEN seqs[i] ELSE f[i - 1] \o seqs[i]
  <2> DEFINE e == [i \in 1..n |-> IF i = 1 THEN seqs[i] ELSE f[i - 1] \o seqs[i]]
  <2>1. \A i \in 1..n : e[i] = IF i = 1 THEN seqs[i] ELSE f[i - 1] \o seqs[i]
    OBVIOUS
  <2>2. f = e
    BY DEF Flattened
  <2> QED
    BY ONLY <2>1, <2>2
<1>1. ASSUME NEW i \in 1..(n + 1)
      PROVE  g[i] = h[i]
    <2>1. CASE i = 1
        BY <2>1
    <2>2. CASE i # 1 /\ i = n + 1
        <3>1. i - 1 = n /\ n \in 1..(n + 1) /\ n # n + 1 /\ n \in 1..n
            BY <2>2
        <3>2. g[n] = f[n]
            BY <3>1, <1>0
        <3> QED
            BY <3>1, <3>2, <2>2
    <2>3. CASE i # 1 /\ i # n + 1
        <3>1. i - 1 \in 1..n /\ i \in 1..n /\ i - 1 # n + 1 /\ i - 1 \in 1..(n + 1)
            BY <2>3
        <3>2. g[i - 1] = f[i - 1]
            BY <3>1, <1>0
        <3>3. g[i] = f[i]
            BY <2>3
        <3>4. f[i] = f[i - 1] \o seqs[i]
            BY <2>3, <1>0, <3>1
        <3>5. h[i] = g[i - 1] \o seqs[i]
            BY <2>3
        <3> HIDE DEF g, h
        <3> QED
            BY <3>2, <3>3, <3>4, <3>5
    <2> QED
        BY <2>1, <2>2, <2>3
<1>2. g = h
    <2>1. g = [i \in 1..(n + 1) |-> g[i]] /\ h = [i \in 1..(n + 1) |-> h[i]]
        OBVIOUS
    <2> HIDE DEF g, h
    <2> QED
        BY <1>1, <2>1
<1>3. Flattened(seqs, g, n + 1)
    BY <1>2 DEF Flattened
<1> QED
    BY <1>3

LEMMA FlattenedExists == \A seqs : \A n \in Nat : \E f : Flattened(seqs, f, n)
<1> TAKE seqs
<1> DEFINE Ns == {n \in Nat : \E f : Flattened(seqs, f, n)}
<1>1. 0 \in Ns
    <2> DEFINE f == [i \in {} |-> 0]
    <2>1. Flattened(seqs, f, 0)
        BY DEF Flattened
    <2> QED
        BY <2>1
<1>2. \A n \in Nat : n \in Ns => n + 1 \in Ns
    BY FlattenedStep
<1> HIDE DEF Ns
<1>3. Nat \subseteq Ns
    BY <1>1, <1>2, Induction
<1> QED
    BY <1>3 DEF Ns

(* What FlattenSeq computes.                                               *)
LEMMA Flattening ==
    ASSUME NEW seqs, Len(seqs) \in Nat \ {0}
    PROVE  \E f : /\ FlattenSeq(seqs) = f[Len(seqs)]
                  /\ \A i \in 1..Len(seqs) :
                        f[i] = IF i = 1 THEN seqs[i] ELSE f[i - 1] \o seqs[i]
<1> DEFINE F == CHOOSE f : Flattened(seqs, f, Len(seqs))
<1>1. Flattened(seqs, F, Len(seqs))
    BY FlattenedExists, Zenon
<1>2. FlattenSeq(seqs) = F[Len(seqs)]
    BY DEF FlattenSeq, Flattened
<1>3. \A i \in 1..Len(seqs) : F[i] = IF i = 1 THEN seqs[i] ELSE F[i - 1] \o seqs[i]
  <2> HIDE DEF F
  <2> DEFINE e == [i \in 1..Len(seqs) |-> IF i = 1 THEN seqs[i] ELSE F[i - 1] \o seqs[i]]
  <2>1. \A i \in 1..Len(seqs) : e[i] = IF i = 1 THEN seqs[i] ELSE F[i - 1] \o seqs[i]
    OBVIOUS
  <2>2. F = e
    BY <1>1 DEF Flattened
  <2> QED
    BY ONLY <2>1, <2>2
<1> HIDE DEF F
<1> QED
    BY <1>2, <1>3

(* Sequences of one set, one behind the other, are a sequence of it.         *)
LEMMA FlattenType ==
    ASSUME NEW S, NEW n \in Nat, NEW seqs, seqs = [i \in 1..n |-> seqs[i]],
           \A i \in 1..n : seqs[i] \in Seq(S)
    PROVE  FlattenSeq(seqs) \in Seq(S)
<1>0. seqs \in Seq(Seq(S)) /\ Len(seqs) = n /\ DOMAIN seqs = 1..n
    <2>1. seqs \in Seq(Seq(S))
        OBVIOUS
    <2>2. DOMAIN seqs = 1..n
        OBVIOUS
    <2> QED
        BY <2>1, <2>2, LenProperties
<1>1. CASE n = 0
    <2>1. seqs = <<>>
        BY <1>0, <1>1, EmptySeq
    <2>2. FlattenSeq(seqs) = seqs
        BY <1>0, <1>1 DEF FlattenSeq
    <2> QED
        BY <2>1, <2>2, EmptySeq
<1>2. CASE n # 0
    <2>1. PICK f : /\ FlattenSeq(seqs) = f[n]
                   /\ \A i \in 1..n : f[i] = IF i = 1 THEN seqs[i] ELSE f[i - 1] \o seqs[i]
        BY <1>0, <1>2, Flattening
    <2> DEFINE Ns == {k \in Nat : k \in 1..n => f[k] \in Seq(S)}
    <2>2. 0 \in Ns
        OBVIOUS
    <2>3. ASSUME NEW k \in Nat, k \in Ns
          PROVE  k + 1 \in Ns
        <3> SUFFICES ASSUME k + 1 \in 1..n PROVE f[k + 1] \in Seq(S)
            OBVIOUS
        <3>1. CASE k = 0
            BY <2>1, <3>1
        <3>2. CASE k # 0
            <4>1. k \in 1..n /\ k + 1 # 1 /\ (k + 1) - 1 = k
                BY <3>2
            <4>2. f[k + 1] = f[k] \o seqs[k + 1]
                BY <4>1, <2>1
            <4>3. f[k] \in Seq(S) /\ seqs[k + 1] \in Seq(S)
                BY <4>1, <2>3
            <4> QED
                BY <4>2, <4>3, ConcatProperties
        <3> QED
            BY <3>1, <3>2
    <2> HIDE DEF Ns
    <2>4. Nat \subseteq Ns
        BY <2>2, <2>3, Induction
    <2>5. n \in Ns /\ n \in 1..n
        BY <2>4, <1>2
    <2> QED
        BY <2>5, <2>1 DEF Ns
<1> QED
    BY <1>1, <1>2

-----------------------------------------------------------------------------
(* The fold of the reference, which chooses a function in the same way: on    *)
(* the sets of places gone over, of which only 1..j are met.                *)
Upwards(n) == [i \in 1..(n + 1) |-> n + 1 - i]
Folded(original, ups, seq, f, m) ==
    f = [s \in SUBSET (1..m) |->
            IF s = {} THEN original ELSE EditedAt(f[s \ {Max(s)}], ups, seq[Max(s)])]

(* The place taken next is the last one.                                    *)
LEMMA TakenLast ==
    ASSUME NEW m \in Nat, NEW s \in SUBSET (1..(m + 1)), m + 1 \in s
    PROVE  Max(s) = m + 1 /\ s \ {m + 1} \in SUBSET (1..m)
<1>1. \A x \in s : x \in Int /\ m + 1 >= x
    OBVIOUS
<1>2. \A x \in s : (\A y \in s : x >= y) => x = m + 1
    BY <1>1
<1>3. Max(s) = m + 1
    BY <1>1, <1>2 DEF Max
<1> QED
    BY <1>3

LEMMA FoldedStep ==
    ASSUME NEW original, NEW ups, NEW seq, NEW m \in Nat, NEW f, Folded(original, ups, seq, f, m)
    PROVE  \E g : Folded(original, ups, seq, g, m + 1)
<1> DEFINE G(s, before) ==
               IF s = {} THEN original ELSE EditedAt(before[s \ {Max(s)}], ups, seq[Max(s)])
           S == SUBSET (1..m)
           T == SUBSET (1..(m + 1))
           g == [s \in T |-> IF s \in S THEN f[s] ELSE EditedAt(f[s \ {m + 1}], ups, seq[m + 1])]
           h == [s \in T |-> G(s, g)]
<1>0. \A s \in S : f[s] = G(s, f)
    <2> DEFINE e == [s \in S |-> G(s, f)]
    <2>1. \A s \in S : e[s] = G(s, f)
        OBVIOUS
    <2>2. f = e
        BY DEF Folded
    <2> QED
        BY ONLY <2>1, <2>2
<1>1. ASSUME NEW s \in T
      PROVE  g[s] = h[s]
    <2>1. CASE s \in S
        <3>1. s \ {Max(s)} \in S /\ s \ {Max(s)} \in T
            BY <2>1
        <3>2. g[s \ {Max(s)}] = f[s \ {Max(s)}]
            BY <3>1
        <3>3. g[s] = f[s] /\ h[s] = G(s, g) /\ f[s] = G(s, f)
            BY <2>1, <1>0
        <3> HIDE DEF g, h
        <3> QED
            BY <3>2, <3>3
    <2>2. CASE s \notin S
        <3>0. m + 1 \in s
            BY <2>2
        <3>1. Max(s) = m + 1 /\ s \ {m + 1} \in S /\ s # {}
            BY <3>0, TakenLast
        <3>2. s \ {m + 1} \in T
            OBVIOUS
        <3>3. g[s \ {m + 1}] = f[s \ {m + 1}]
            BY <3>1, <3>2
        <3>4. g[s] = EditedAt(f[s \ {m + 1}], ups, seq[m + 1])
            BY <2>2
        <3>5. h[s] = G(s, g)
            OBVIOUS
        <3> HIDE DEF g, h
        <3> QED
            BY <3>1, <3>3, <3>4, <3>5
    <2> QED
        BY <2>1, <2>2
<1>2. g = h
    <2>1. g = [s \in T |-> g[s]] /\ h = [s \in T |-> h[s]]
        OBVIOUS
    <2> HIDE DEF g, h, T
    <2> QED
        BY <1>1, <2>1
<1>3. Folded(original, ups, seq, g, m + 1)
    BY <1>2 DEF Folded
<1> QED
    BY <1>3

LEMMA FoldedExists ==
    \A original, ups, seq : \A m \in Nat : \E f : Folded(original, ups, seq, f, m)
<1> TAKE original, ups, seq
<1> DEFINE Ms == {m \in Nat : \E f : Folded(original, ups, seq, f, m)}
<1>1. 0 \in Ms
    <2> DEFINE f == [s \in SUBSET (1..0) |-> original]
    <2>0. \A s \in SUBSET (1..0) : s = {}
        OBVIOUS
    <2>1. Folded(original, ups, seq, f, 0)
        BY <2>0 DEF Folded
    <2> QED
        BY <2>1
<1>2. \A m \in Nat : m \in Ms => m + 1 \in Ms
    BY FoldedStep
<1> HIDE DEF Ms
<1>3. Nat \subseteq Ms
    BY <1>1, <1>2, Induction
<1> QED
    BY <1>3 DEF Ms

(* The reference goes from the last line up to what stands before the first. *)
Climbs(e, c, ups, n) ==
    /\ e[0] = SplitLines(c)
    /\ \A j \in 1..(n + 1) : e[j] = EditedAt(e[j - 1], ups, n + 1 - j)
    /\ FromTheBottom(c, ups) = e[n + 1]

LEMMA Upward ==
    ASSUME NEW c, NEW ups, NEW n \in Nat, n = Len(SplitLines(c))
    PROVE  \E e : Climbs(e, c, ups, n)
<1> DEFINE original == SplitLines(c)
           seq == Upwards(n)
           F == CHOOSE f : Folded(original, ups, seq, f, n + 1)
           e == [j \in 0..(n + 1) |-> F[1..j]]
<1>1. FromTheBottom(c, ups) = F[1..(n + 1)]
    <2>1. DOMAIN seq = 1..(n + 1)
        BY DEF Upwards
    <2>2. FromTheBottom(c, ups) =
            (CHOOSE f : f = [s \in SUBSET DOMAIN seq |-> IF s = {} THEN original
                              ELSE EditedAt(f[s \ {Max(s)}], ups, seq[Max(s)])])[DOMAIN seq]
        BY DEF FromTheBottom, FoldLeft, MapThenFoldSet, Upwards
    <2> HIDE DEF seq
    <2> QED
        BY <2>1, <2>2 DEF Folded
<1>2. Folded(original, ups, seq, F, n + 1)
    <2>1. n + 1 \in Nat
        OBVIOUS
    <2> QED
        BY <2>1, FoldedExists, Zenon
<1>3. \A s \in SUBSET (1..(n + 1)) :
         F[s] = IF s = {} THEN original ELSE EditedAt(F[s \ {Max(s)}], ups, seq[Max(s)])
    <2> HIDE DEF F
    <2> DEFINE h == [s \in SUBSET (1..(n + 1)) |->
                        IF s = {} THEN original ELSE EditedAt(F[s \ {Max(s)}], ups, seq[Max(s)])]
    <2>1. \A s \in SUBSET (1..(n + 1)) :
             h[s] = IF s = {} THEN original ELSE EditedAt(F[s \ {Max(s)}], ups, seq[Max(s)])
        OBVIOUS
    <2>2. F = h
        BY <1>2 DEF Folded
    <2> QED
        BY ONLY <2>1, <2>2
<1> HIDE DEF F
<1>4. e[0] = original
    <2>1. 1..0 = {} /\ 1..0 \in SUBSET (1..(n + 1)) /\ 0 \in 0..(n + 1)
        OBVIOUS
    <2> QED
        BY <2>1, <1>3
<1>5. ASSUME NEW j \in 1..(n + 1)
      PROVE  e[j] = EditedAt(e[j - 1], ups, n + 1 - j)
    <2>1. j - 1 \in Nat /\ (j - 1) + 1 = j /\ j \in 0..(n + 1) /\ j - 1 \in 0..(n + 1)
        OBVIOUS
    <2>2. 1..j \in SUBSET (1..(n + 1)) /\ j \in 1..j
        OBVIOUS
    <2>7. (1..j) \ {j} = 1..(j - 1)
        <3> SUFFICES ASSUME NEW x PROVE x \in (1..j) \ {j} <=> x \in 1..(j - 1)
            OBVIOUS
        <3> QED
            OBVIOUS
    <2>3. Max(1..j) = j
        <3> DEFINE m == j - 1
                   s == 1..j
        <3>1. m \in Nat /\ m + 1 = j /\ s \in SUBSET (1..(m + 1)) /\ m + 1 \in s
            BY <2>1
        <3> HIDE DEF m, s
        <3>2. Max(s) = m + 1
            BY <3>1, TakenLast
        <3> QED
            BY <3>1, <3>2 DEF s
    <2>4. seq[j] = n + 1 - j
        BY DEF Upwards
    <2>5. F[1..j] = EditedAt(F[1..(j - 1)], ups, n + 1 - j)
        BY <2>2, <2>3, <2>4, <2>7, <1>3
    <2> QED
        BY <2>1, <2>5
<1>6. e[n + 1] = F[1..(n + 1)]
    OBVIOUS
<1> HIDE DEF e
<1>7. Climbs(e, c, ups, n)
    BY <1>1, <1>4, <1>5, <1>6 DEF Climbs
<1> QED
    BY <1>7

-----------------------------------------------------------------------------
(* Lines, and single edits of them                                          *)

(* The lines of a content are a sequence, of as many as there are.          *)
LEMMA SplitIsSeq ==
    ASSUME NEW T, NEW c \in Seq(T)
    PROVE  \E n \in Nat : SplitLines(c) = [k \in 1..n |-> SplitLines(c)[k]]
<1> DEFINE body == IF EndsLine(c) THEN Front(c) ELSE c
           stops == {p \in DOMAIN body : body[p] \in LineEnds} \cup {0, Len(body) + 1}
<1>1. body \in Seq(T)
    <2>1. CASE EndsLine(c)
        <3>1. Front(c) = SubSeq(c, 1, Len(c) - 1)
            BY DEF Front
        <3>2. Len(c) \in Nat /\ \A p \in 1..(Len(c) - 1) : c[p] \in T
            BY ElementOfSeq, LenProperties
        <3>3. Front(c) \in Seq(T)
            BY <3>1, <3>2, SubSeqProperties
        <3> QED
            BY <3>3, <2>1
    <2> QED
        BY <2>1
<1>2. IsFiniteSet(stops) /\ stops # {}
    <2> HIDE DEF body
    <2>1. DOMAIN body = 1..Len(body) /\ Len(body) \in Nat
        BY <1>1, LenProperties
    <2>2. IsFiniteSet(0..(Len(body) + 1))
        BY <2>1, FS_Interval
    <2>3. stops \subseteq 0..(Len(body) + 1)
        BY <2>1
    <2> HIDE DEF stops
    <2>4. IsFiniteSet(stops)
        BY <2>2, <2>3, FS_Subset
    <2> QED
        BY <2>4 DEF stops
<1>3. Cardinality(stops) - 1 \in Nat
    <2> HIDE DEF stops
    <2> QED
        BY <1>2, FS_CardinalityType, FS_EmptySet
<1>4. CASE body = <<>>
    <2>1. SplitLines(c) = <<>>
        BY <1>4 DEF SplitLines
    <2>2. 0 \in Nat /\ <<>> = [k \in 1..0 |-> <<>>[k]]
        OBVIOUS
    <2> QED
        BY <2>1, <2>2
<1>5. CASE body # <<>>
    <2> DEFINE Stop(k) == CHOOSE p \in stops : Cardinality({q \in stops : q < p}) = k
               n == Cardinality(stops) - 1
               Piece(k) == SubSeq(body, Stop(k - 1) + 1, Stop(k) - 1)
               lines == [k \in 1..n |-> Piece(k)]
    <2>1. SplitLines(c) = lines
        BY <1>5 DEF SplitLines
    <2> HIDE DEF Piece
    <2>2. lines = [k \in 1..n |-> lines[k]]
        OBVIOUS
    <2> HIDE DEF lines, n
    <2>3. n \in Nat
        BY <1>3 DEF n
    <2> QED
        BY <2>1, <2>2, <2>3
<1> QED
    BY <1>4, <1>5

(* Concatenation and the sequence of one element, as the steps below reason   *)
(* about them: by the equations they satisfy, not by their elements.         *)
Cat(s, t) == s \o t
One(a) == <<a>>

LEMMA Concatenation ==
    \A S : /\ \A a \in S : One(a) \in Seq(S)
           /\ \A s, t \in Seq(S) : Cat(s, t) \in Seq(S)
           /\ \A s, t, u \in Seq(S) : Cat(Cat(s, t), u) = Cat(s, Cat(t, u))
           /\ \A s \in Seq(S) : Cat(s, <<>>) = s /\ Cat(<<>>, s) = s
           /\ <<>> \in Seq(S)
<1> SUFFICES ASSUME NEW S
             PROVE  /\ \A a \in S : One(a) \in Seq(S)
                    /\ \A s, t \in Seq(S) : Cat(s, t) \in Seq(S)
                    /\ \A s, t, u \in Seq(S) : Cat(Cat(s, t), u) = Cat(s, Cat(t, u))
                    /\ \A s \in Seq(S) : Cat(s, <<>>) = s /\ Cat(<<>>, s) = s
                    /\ <<>> \in Seq(S)
    OBVIOUS
<1>1. \A a \in S : One(a) \in Seq(S)
    BY DEF One
<1>2. \A s, t \in Seq(S) : Cat(s, t) \in Seq(S)
    BY ConcatProperties DEF Cat
<1>3. \A s, t, u \in Seq(S) : Cat(Cat(s, t), u) = Cat(s, Cat(t, u))
    BY ConcatAssociative DEF Cat
<1>4. \A s \in Seq(S) : Cat(s, <<>>) = s /\ Cat(<<>>, s) = s
    BY ConcatEmptySeq DEF Cat
<1>5. <<>> \in Seq(S)
    BY EmptySeq
<1> QED
    BY <1>1, <1>2, <1>3, <1>4, <1>5

(* What was put together can be taken apart.                                *)
LEMMA Halves ==
    ASSUME NEW S, NEW s \in Seq(S), NEW t \in Seq(S)
    PROVE  /\ SubSeq(s \o t, 1, Len(s)) = s
           /\ SubSeq(s \o t, Len(s) + 1, Len(s \o t)) = t
<1>1. /\ s \o t \in Seq(S) /\ Len(s \o t) = Len(s) + Len(t) /\ Len(s) \in Nat /\ Len(t) \in Nat
      /\ \A i \in 1..(Len(s) + Len(t)) :
            (s \o t)[i] = IF i <= Len(s) THEN s[i] ELSE t[i - Len(s)]
    BY ConcatProperties, LenProperties
<1>2. \A i \in 1..(Len(s) + Len(t)) : (s \o t)[i] \in S
    BY <1>1, ElementOfSeq
<1>3. SubSeq(s \o t, 1, Len(s)) = s
    <2> DEFINE u == SubSeq(s \o t, 1, Len(s))
    <2>1. u \in Seq(S) /\ Len(u) = Len(s) /\ \A i \in 1..Len(s) : u[i] = (s \o t)[1 + i - 1]
        BY <1>1, <1>2, SubSeqProperties
    <2>2. \A i \in 1..Len(s) : u[i] = s[i]
        BY <2>1, <1>1
    <2> HIDE DEF u
    <2>3. u = s
        BY <2>1, <2>2, SeqEqual
    <2> QED
        BY <2>3 DEF u
<1>4. SubSeq(s \o t, Len(s) + 1, Len(s \o t)) = t
    <2> DEFINE m == Len(s) + 1
               n == Len(s \o t)
               u == SubSeq(s \o t, m, n)
    <2>1. /\ m \in Int /\ n \in Int /\ \A i \in m..n : (s \o t)[i] \in S
          /\ (IF m <= n THEN n - m + 1 ELSE 0) = Len(t) /\ n - m + 1 = Len(t)
        BY <1>1, <1>2
    <2>2. u \in Seq(S) /\ Len(u) = Len(t) /\ \A i \in 1..Len(t) : u[i] = (s \o t)[m + i - 1]
        BY <2>1, SubSeqProperties
    <2>3. \A i \in 1..Len(t) : u[i] = t[i]
        BY <2>2, <1>1
    <2> HIDE DEF u
    <2>4. u = t
        BY <2>2, <2>3, SeqEqual
    <2> QED
        BY <2>4 DEF u
<1> QED
    BY <1>3, <1>4

(* The line behind s, taken out of a sequence or exchanged in it.           *)
LEMMA LineOut ==
    ASSUME NEW S, NEW s \in Seq(S), NEW a \in S, NEW t \in Seq(S)
    PROVE  RemoveAt((s \o <<a>>) \o t, Len(s) + 1) = s \o t
<1> DEFINE u == (s \o <<a>>) \o t
           v == <<a>> \o t
<1>1. <<a>> \in Seq(S) /\ v \in Seq(S) /\ Len(s) \in Nat
    BY ConcatProperties, LenProperties
<1>2. u = s \o v
    BY <1>1, ConcatAssociative
<1>3. SubSeq(u, 1, Len(s)) = s
    BY <1>1, <1>2, Halves
<1>4. s \o <<a>> \in Seq(S) /\ Len(s \o <<a>>) = Len(s) + 1
    BY <1>1, ConcatProperties
<1>5. SubSeq(u, Len(s) + 2, Len(u)) = t
    <2> DEFINE w == s \o <<a>>
    <2>1. w \in Seq(S) /\ Len(w) + 1 = Len(s) + 2
        BY <1>1, <1>4
    <2>2. SubSeq(w \o t, Len(w) + 1, Len(w \o t)) = t
        <3> HIDE DEF w
        <3> QED
            BY <2>1, Halves
    <2> QED
        BY <2>1, <2>2
<1>6. Len(s) + 1 - 1 = Len(s) /\ Len(s) + 1 + 1 = Len(s) + 2
    BY <1>1
<1> DEFINE k == Len(s) + 1
<1>7. k - 1 = Len(s) /\ k + 1 = Len(s) + 2
    BY <1>6
<1> HIDE DEF u, k
<1>8. RemoveAt(u, k) = SubSeq(u, 1, k - 1) \o SubSeq(u, k + 1, Len(u))
    BY DEF RemoveAt
<1>9. RemoveAt(u, k) = s \o t
    BY <1>3, <1>5, <1>7, <1>8
<1> QED
    BY <1>9 DEF u, k

LEMMA LineExchanged ==
    ASSUME NEW S, NEW s \in Seq(S), NEW a \in S, NEW b \in S, NEW t \in Seq(S)
    PROVE  ReplaceAt(Cat(Cat(s, One(a)), t), Len(s) + 1, b) = Cat(Cat(s, One(b)), t)
<1> DEFINE u == (s \o <<a>>) \o t
           v == (s \o <<b>>) \o t
           k == Len(s) + 1
           n == Len(s) + 1 + Len(t)
<1>1. Len(s) \in Nat /\ Len(t) \in Nat /\ k \in 1..n
    BY LenProperties
<1>2. ASSUME NEW x \in S
      PROVE  /\ (s \o <<x>>) \o t \in Seq(S) /\ Len((s \o <<x>>) \o t) = n
             /\ \A i \in 1..n : ((s \o <<x>>) \o t)[i] =
                    IF i < k THEN s[i] ELSE IF i = k THEN x ELSE t[i - k]
    <2> DEFINE w == s \o <<x>>
    <2>1. <<x>> \in Seq(S) /\ Len(<<x>>) = 1 /\ <<x>>[1] = x
        OBVIOUS
    <2>2. w \in Seq(S) /\ Len(w) = k
          /\ \A i \in 1..k : w[i] = IF i <= Len(s) THEN s[i] ELSE <<x>>[i - Len(s)]
        BY <2>1, ConcatProperties
    <2>3. \A i \in 1..k : w[i] = IF i < k THEN s[i] ELSE x
        BY <2>1, <2>2, <1>1
    <2>6. n = k + Len(t)
        OBVIOUS
    <2> HIDE DEF w, k, n
    <2>4. /\ w \o t \in Seq(S) /\ Len(w \o t) = n
          /\ \A i \in 1..n : (w \o t)[i] = IF i <= k THEN w[i] ELSE t[i - k]
        BY <2>2, <2>6, ConcatProperties
    <2>5. \A i \in 1..n : (w \o t)[i] = IF i < k THEN s[i] ELSE IF i = k THEN x ELSE t[i - k]
        BY <2>3, <2>4, <1>1 DEF k, n
    <2> QED
        BY <2>4, <2>5 DEF w, k, n
<1>3. /\ u \in Seq(S) /\ Len(u) = n
      /\ \A i \in 1..n : u[i] = IF i < k THEN s[i] ELSE IF i = k THEN a ELSE t[i - k]
    BY <1>2
<1>4. /\ v \in Seq(S) /\ Len(v) = n
      /\ \A i \in 1..n : v[i] = IF i < k THEN s[i] ELSE IF i = k THEN b ELSE t[i - k]
    BY <1>2
<1> HIDE DEF u, v, k
<1> DEFINE r == [u EXCEPT ![k] = b]
<1>5. /\ r \in Seq(S) /\ Len(r) = n
      /\ \A i \in 1..n : r[i] = IF i = k THEN b ELSE u[i]
    BY <1>3, <1>1, ExceptSeq
<1> HIDE DEF r, n
<1>6. \A i \in 1..n : r[i] = v[i]
    BY <1>3, <1>4, <1>5
<1>7. r = v
    BY <1>4, <1>5, <1>6, SeqEqual
<1> QED
    BY <1>7 DEF r, u, v, k, ReplaceAt, Cat, One

(* Line a behind s is taken out, exchanged for x or left, with i behind it.  *)
LEMMA LineEdited ==
    ASSUME NEW S, NEW s \in Seq(S), NEW a \in S, NEW i \in Seq(S), NEW t \in Seq(S),
           NEW g, g = Cat(Cat(Cat(s, One(a)), i), t)
    PROVE  /\ RemoveAt(g, Len(s) + 1) = Cat(s, Cat(i, t))
           /\ \A x \in S : ReplaceAt(g, Len(s) + 1, x) = Cat(s, Cat(Cat(One(x), i), t))
           /\ g = Cat(s, Cat(Cat(One(a), i), t))
<1>1. PICK u \in Seq(S) : u = Cat(i, t)
    BY Concatenation
<1>2. ASSUME NEW x \in S
      PROVE  /\ Cat(Cat(Cat(s, One(x)), i), t) = Cat(Cat(s, One(x)), u)
             /\ Cat(Cat(s, One(x)), u) = Cat(s, Cat(Cat(One(x), i), t))
    <2>1. PICK v \in Seq(S) : v = One(x)
        BY Concatenation
    <2>2. PICK w \in Seq(S) : w = Cat(s, v)
        BY Concatenation
    <2>3. Cat(Cat(w, i), t) = Cat(w, u)
        BY <1>1, Concatenation
    <2>4. Cat(w, u) = Cat(s, Cat(v, u))
        BY <2>2, Concatenation
    <2>5. Cat(v, u) = Cat(Cat(v, i), t)
        BY <1>1, Concatenation
    <2> QED
        BY <2>1, <2>2, <2>3, <2>4, <2>5
<1>3. g = Cat(Cat(s, One(a)), u)
    BY <1>2
<1>4. RemoveAt(Cat(Cat(s, One(a)), u), Len(s) + 1) = Cat(s, u)
    BY LineOut DEF Cat, One
<1>5. ASSUME NEW x \in S
      PROVE  ReplaceAt(Cat(Cat(s, One(a)), u), Len(s) + 1, x) = Cat(Cat(s, One(x)), u)
    BY LineExchanged
<1>6. RemoveAt(g, Len(s) + 1) = Cat(s, Cat(i, t))
    BY <1>1, <1>3, <1>4
<1>7. ASSUME NEW x \in S
      PROVE  ReplaceAt(g, Len(s) + 1, x) = Cat(s, Cat(Cat(One(x), i), t))
    BY <1>2, <1>3, <1>5
<1>8. g = Cat(s, Cat(Cat(One(a), i), t))
    BY <1>2, <1>3
<1> QED
    BY <1>6, <1>7, <1>8

(* One step of the reference puts in the place of line n what apply_updates   *)
(* emits for it, and leaves alone what is above and below.                   *)
LEMMA EditedUp ==
    ASSUME NEW S, NEW original \in Seq(S), NEW ups, NEW n \in 1..Len(original), NEW t \in Seq(S),
           InsertedAfter(ups, n) \in Seq(S), ReplacedBy(ups, n) \subseteq S
    PROVE  /\ Emitted(ups, original, n) \in Seq(S)
           /\ EditedAt(Cat(SubSeq(original, 1, n), t), ups, n) =
                Cat(SubSeq(original, 1, n - 1), Cat(Emitted(ups, original, n), t))
<1>1. /\ Len(original) \in Nat /\ n \in Nat /\ n # 0 /\ 1 \in 1..Len(original) /\ n \in 1..n
      /\ \A i \in 1..Len(original) : original[i] \in S
    BY ElementOfSeq, LenProperties
<1>2. PICK s \in Seq(S) : s = SubSeq(original, 1, n - 1) /\ Len(s) + 1 = n
    <2>1. n - 1 \in Int /\ \A i \in 1..(n - 1) : original[i] \in S
        BY <1>1
    <2>2. /\ SubSeq(original, 1, n - 1) \in Seq(S)
          /\ Len(SubSeq(original, 1, n - 1)) = IF 1 <= n - 1 THEN n - 1 - 1 + 1 ELSE 0
        BY <2>1, SubSeqProperties
    <2>3. Len(SubSeq(original, 1, n - 1)) + 1 = n
        BY <1>1, <2>2
    <2> QED
        BY <2>2, <2>3
<1>3. PICK a \in S : a = original[n]
    BY <1>1
<1>4. PICK i \in Seq(S) : i = InsertedAfter(ups, n)
    OBVIOUS
<1>5. PICK w \in Seq(S) : w = SubSeq(original, 1, n)
    <2>1. \A j \in 1..n : original[j] \in S
        BY <1>1
    <2>2. n \in Int /\ 1 \in Int
        BY <1>1
    <2>3. SubSeq(original, 1, n) \in Seq(S)
        BY ONLY <2>1, <2>2, SubSeqProperties
    <2> QED
        BY <2>3
<1>6. w = Cat(s, One(a)) /\ Len(w) = n
    <2>1. w = s \o <<a>>
        BY <1>1, <1>2, <1>3, <1>5, SubSeqRecursiveSecond
    <2>2. <<a>> \in Seq(S) /\ Len(<<a>>) = 1
        OBVIOUS
    <2>3. Len(s \o <<a>>) = Len(s) + Len(<<a>>)
        BY <2>2, ConcatProperties
    <2> QED
        BY <2>1, <2>2, <2>3, <1>2 DEF Cat, One
<1>7. PICK lines : lines = Cat(w, t)
    OBVIOUS
<1>8. SubSeq(lines, 1, n) = w /\ SubSeq(lines, n + 1, Len(lines)) = t
    BY <1>6, <1>7, Halves DEF Cat
<1>9. PICK grown : grown = Cat(Cat(w, i), t)
    OBVIOUS
<1>10. EditedAt(lines, ups, n) =
          IF n \in Removed(ups) THEN RemoveAt(grown, n)
          ELSE IF ReplacedBy(ups, n) # {}
          THEN ReplaceAt(grown, n, CHOOSE x \in ReplacedBy(ups, n) : TRUE) ELSE grown
    <2>1. grown = (SubSeq(lines, 1, n) \o InsertedAfter(ups, n)) \o SubSeq(lines, n + 1, Len(lines))
        BY <1>4, <1>8, <1>9 DEF Cat
    <2> QED
        BY <2>1 DEF EditedAt
<1>11. /\ RemoveAt(grown, n) = Cat(s, Cat(i, t))
       /\ \A x \in S : ReplaceAt(grown, n, x) = Cat(s, Cat(Cat(One(x), i), t))
       /\ grown = Cat(s, Cat(Cat(One(a), i), t))
    <2>1. grown = Cat(Cat(Cat(s, One(a)), i), t)
        BY <1>6, <1>9
    <2>2. Len(s) + 1 = n
        BY <1>2
    <2> QED
        BY ONLY <2>1, <2>2, LineEdited
<1>12. ASSUME NEW x \in S PROVE Cat(One(x), i) \in Seq(S)
    BY Concatenation
<1>13. PICK e : e = Emitted(ups, original, n)
    OBVIOUS
<1>14. e \in Seq(S) /\ EditedAt(lines, ups, n) = Cat(s, Cat(e, t))
    <2>1. CASE n \in Removed(ups)
        <3>1. e = Cat(<<>>, i)
            BY <1>4, <1>13, <2>1 DEF Emitted, Cat
        <3>2. e = i
            BY <3>1, Concatenation
        <3> QED
            BY <3>2, <1>10, <1>11, <2>1
    <2>2. CASE n \notin Removed(ups) /\ ReplacedBy(ups, n) # {}
        <3>1. PICK x \in S : x = CHOOSE y \in ReplacedBy(ups, n) : TRUE
            BY <2>2
        <3>2. e = Cat(One(x), i)
            BY <1>1, <1>4, <1>13, <2>2, <3>1 DEF Emitted, Cat, One
        <3>3. EditedAt(lines, ups, n) = ReplaceAt(grown, n, x)
            BY <1>10, <2>2, <3>1
        <3> QED
            BY <3>2, <3>3, <1>11, <1>12
    <2>3. CASE n \notin Removed(ups) /\ ReplacedBy(ups, n) = {}
        <3>1. e = Cat(One(a), i)
            BY <1>1, <1>3, <1>4, <1>13, <2>3 DEF Emitted, Cat, One
        <3>2. EditedAt(lines, ups, n) = grown
            BY <1>10, <2>3
        <3> QED
            BY <3>1, <3>2, <1>11, <1>12
    <2> QED
        BY <2>1, <2>2, <2>3
<1> QED
    BY <1>2, <1>5, <1>7, <1>13, <1>14

-----------------------------------------------------------------------------
(* What a batch asks for                                                    *)

LEMMA AskedType ==
    ASSUME NEW ups \in Seq(PatchUpdate), NEW n
    PROVE  InsertedAfter(ups, n) \in Seq(Line) /\ ReplacedBy(ups, n) \subseteq Line
<1>1. Len(ups) \in Nat /\ DOMAIN ups = 1..Len(ups) /\ \A i \in 1..Len(ups) : ups[i] \in PatchUpdate
    BY LenProperties, ElementOfSeq
<1>2. ASSUME NEW u \in PatchUpdate
      PROVE  /\ u.kind = "insert" => u.new \in Seq(Line)
             /\ u.kind = "replace" => u.new \in Line
    <2>1. CASE u \in [kind : {"remove"}, start : 0..MaxLine, end : 0..MaxLine]
        BY <2>1
    <2>2. CASE u \in [kind : {"replace"}, line : 0..MaxLine, new : Line]
        BY <2>2
    <2>3. CASE u \in [kind : {"insert"}, line : 0..MaxLine,
                      new : {<<>>} \cup {<<l>> : l \in Line} \cup {<<l, <<>>>> : l \in Line}]
        <3>1. u.kind = "insert" /\
              u.new \in {<<>>} \cup {<<l>> : l \in Line} \cup {<<l, <<>>>> : l \in Line}
            BY <2>3
        <3>2. <<>> \in Line
            BY DEF Line
        <3> HIDE DEF Line
        <3>3. u.new \in Seq(Line)
            <4>1. CASE u.new = <<>>
                BY <4>1, EmptySeq
            <4>2. ASSUME NEW l \in Line, u.new = <<l>> PROVE u.new \in Seq(Line)
                BY <4>2
            <4>3. ASSUME NEW l \in Line, u.new = <<l, <<>>>> PROVE u.new \in Seq(Line)
                BY <4>3, <3>2
            <4> QED
                BY <3>1, <4>1, <4>2, <4>3
        <3> QED
            BY <3>1, <3>3
    <2> QED
        BY <2>1, <2>2, <2>3 DEF PatchUpdate
<1>3. InsertedAfter(ups, n) \in Seq(Line)
    <2> DEFINE New(i) == IF ups[i].kind = "insert" /\ ups[i].line = n THEN ups[i].new ELSE <<>>
               seqs == [i \in 1..Len(ups) |-> New(i)]
    <2>1. \A i \in 1..Len(ups) : New(i) \in Seq(Line)
        BY <1>1, <1>2, EmptySeq
    <2>2. InsertedAfter(ups, n) = FlattenSeq(seqs)
        BY <1>1 DEF InsertedAfter
    <2> HIDE DEF New
    <2>3. seqs = [i \in 1..Len(ups) |-> seqs[i]] /\ \A i \in 1..Len(ups) : seqs[i] \in Seq(Line)
        BY <2>1
    <2> HIDE DEF seqs
    <2>4. FlattenSeq(seqs) \in Seq(Line)
        BY <1>1, <2>3, FlattenType
    <2> QED
        BY <2>2, <2>4
<1>4. ReplacedBy(ups, n) \subseteq Line
    BY <1>1, <1>2 DEF ReplacedBy, Of
<1> QED
    BY <1>3, <1>4

(* A batch that fits says nothing of a line 0 but what is put before line 1. *)
LEMMA NoLineZero ==
    ASSUME NEW ups \in Seq(PatchUpdate), NEW count, Planned(ups, count)
    PROVE  0 \notin Removed(ups) /\ ReplacedBy(ups, 0) = {}
<1>1. DOMAIN ups = 1..Len(ups) /\ \A i \in 1..Len(ups) : ups[i] \in PatchUpdate
    BY LenProperties, ElementOfSeq
<1>2. ASSUME NEW i \in DOMAIN ups, ups[i].kind = "remove"
      PROVE  0 \notin ups[i].start..ups[i].end
    <2>1. PICK u \in PatchUpdate : u = ups[i]
        BY <1>1
    <2>2. u.start \in Int
        BY <2>1, <1>2 DEF PatchUpdate
    <2>3. Fits(u, count) /\ u.kind = "remove"
        BY <2>1, <1>2 DEF Planned
    <2>4. u.start >= 1
        BY <2>3 DEF Fits
    <2> QED
        BY <2>1, <2>2, <2>4
<1>3. ASSUME NEW i \in DOMAIN ups, ups[i].kind = "replace"
      PROVE  ups[i].line # 0
    <2>1. Fits(ups[i], count)
        BY DEF Planned
    <2>2. 1 <= ups[i].line
        BY <1>3, <2>1 DEF Fits
    <2> QED
        BY <2>2
<1>4. 0 \notin Removed(ups)
    BY <1>2 DEF Removed, Of
<1>5. ReplacedBy(ups, 0) = {}
    BY <1>3 DEF ReplacedBy, Of
<1> QED
    BY <1>4, <1>5

-----------------------------------------------------------------------------
(* Top to bottom and bottom to top                                          *)

(* What apply_updates puts out for the original lines up to n.              *)
Output(ups, original, n) == FlattenSeq([k \in 1..(n + 1) |-> Emitted(ups, original, k - 1)])

(* What apply_updates has put out when it comes to each line.               *)
Descends(f, ups, original, n, S) ==
    /\ f[1] = Emitted(ups, original, 0) /\ Output(ups, original, n) = f[n + 1]
    /\ \A k \in 1..(n + 1) : f[k] \in Seq(S)
    /\ \A k \in 1..n : f[k + 1] = Cat(f[k], Emitted(ups, original, k))

LEMMA Downward ==
    ASSUME NEW S, NEW ups, NEW original, NEW n \in Nat,
           \A k \in 0..n : Emitted(ups, original, k) \in Seq(S)
    PROVE  \E f : Descends(f, ups, original, n, S)
<1> DEFINE E(k) == Emitted(ups, original, k)
           seqs == [k \in 1..(n + 1) |-> E(k - 1)]
<1>1. Len(seqs) = n + 1 /\ n + 1 \in Nat \ {0}
    <2> HIDE DEF E
    <2> QED
        OBVIOUS
<1>2. PICK f : /\ FlattenSeq(seqs) = f[n + 1]
               /\ \A i \in 1..(n + 1) : f[i] = IF i = 1 THEN seqs[i] ELSE f[i - 1] \o seqs[i]
    <2> HIDE DEF seqs
    <2>1. \E f : /\ FlattenSeq(seqs) = f[Len(seqs)]
                 /\ \A i \in 1..Len(seqs) :
                       f[i] = IF i = 1 THEN seqs[i] ELSE f[i - 1] \o seqs[i]
        BY ONLY <1>1, Flattening
    <2> QED
        BY <1>1, <2>1
<1>3. \A i \in 1..(n + 1) : seqs[i] = E(i - 1)
    <2> HIDE DEF E
    <2> QED
        OBVIOUS
<1>4. f[1] = E(0)
    <2>1. 1 \in 1..(n + 1) /\ 1 - 1 = 0
        OBVIOUS
    <2> HIDE DEF seqs, E
    <2> QED
        BY <1>2, <1>3, <2>1
<1>5. ASSUME NEW k \in 1..n PROVE f[k + 1] = Cat(f[k], E(k))
    <2>1. k + 1 \in 1..(n + 1) /\ (k + 1) - 1 = k /\ k + 1 # 1
        OBVIOUS
    <2> HIDE DEF seqs, E
    <2>2. seqs[k + 1] = E(k) /\ f[k + 1] = f[k] \o seqs[k + 1]
        BY <1>2, <1>3, <2>1
    <2> QED
        BY <2>2 DEF Cat
<1>6. \A k \in 1..(n + 1) : f[k] \in Seq(S)
    <2> DEFINE Ks == {k \in Nat : k \in 1..(n + 1) => f[k] \in Seq(S)}
    <2>0. \A k \in 0..n : E(k) \in Seq(S)
        OBVIOUS
    <2> HIDE DEF E, seqs
    <2>1. 0 \in Ks
        OBVIOUS
    <2>2. ASSUME NEW k \in Nat, k \in Ks PROVE k + 1 \in Ks
        <3> SUFFICES ASSUME k + 1 \in 1..(n + 1) PROVE f[k + 1] \in Seq(S)
            OBVIOUS
        <3>1. CASE k = 0
            BY <3>1, <1>4, <2>0
        <3>2. CASE k # 0
            <4>1. k \in 1..n /\ k \in 1..(n + 1) /\ k \in 0..n
                BY <3>2
            <4>2. f[k] \in Seq(S) /\ E(k) \in Seq(S) /\ f[k + 1] = Cat(f[k], E(k))
                BY <4>1, <2>2, <2>0, <1>5
            <4>3. PICK p \in Seq(S) : p = f[k]
                BY <4>2
            <4>4. PICK q \in Seq(S) : q = E(k)
                BY <4>2
            <4>5. Cat(p, q) \in Seq(S)
                BY ONLY Concatenation
            <4> QED
                BY <4>2, <4>3, <4>4, <4>5
        <3> QED
            BY <3>1, <3>2
    <2> HIDE DEF Ks
    <2>3. Nat \subseteq Ks
        BY <2>1, <2>2, Induction
    <2>4. \A k \in 1..(n + 1) : k \in Nat
        OBVIOUS
    <2> QED
        BY <2>3, <2>4 DEF Ks
<1>7. Output(ups, original, n) = f[n + 1]
    BY <1>2 DEF Output
<1>8. Descends(f, ups, original, n, S)
    BY <1>4, <1>5, <1>6, <1>7 DEF Descends
<1> QED
    BY <1>8

(* The two ways meet at every line: the reference, when it has edited line m  *)
(* and all below, has the original above m and then what apply_updates still  *)
(* puts out from there.                                                     *)
LEMMA BothWays ==
    ASSUME NEW c, NEW n \in Nat, SplitLines(c) = [k \in 1..n |-> SplitLines(c)[k]],
           NEW ups \in Seq(PatchUpdate), Planned(ups, n)
    PROVE  Output(ups, SplitLines(c), n) = FromTheBottom(c, ups) /\ Len(SplitLines(c)) = n
<1>1. PICK original : original = SplitLines(c)
    OBVIOUS
<1> DEFINE S == {original[k] : k \in 1..n} \cup Line
           E(k) == Emitted(ups, original, k)
<1>2. original \in Seq(S) /\ Len(original) = n
    <2>1. original = [k \in 1..n |-> original[k]] /\ \A k \in 1..n : original[k] \in S
        BY <1>1
    <2> HIDE DEF S
    <2> QED
        BY <2>1
<1>3. Line \subseteq S
    OBVIOUS
<1> HIDE DEF S
<1>4. \A k : InsertedAfter(ups, k) \in Seq(S) /\ ReplacedBy(ups, k) \subseteq S
    BY <1>3, AskedType, SeqMonotonic
<1>5. 0 \notin Removed(ups) /\ ReplacedBy(ups, 0) = {}
    BY NoLineZero
<1>6. E(0) = Cat(<<>>, InsertedAfter(ups, 0)) /\ E(0) = InsertedAfter(ups, 0)
    <2>1. E(0) = Cat(<<>>, InsertedAfter(ups, 0))
        BY DEF Emitted, Cat
    <2> HIDE DEF E
    <2> QED
        BY <2>1, <1>4, Concatenation
<1>7. \A m \in 1..n, t \in Seq(S) :
         /\ E(m) \in Seq(S)
         /\ EditedAt(Cat(SubSeq(original, 1, m), t), ups, m) =
              Cat(SubSeq(original, 1, m - 1), Cat(E(m), t))
    BY <1>2, <1>4, EditedUp
<1>8. \A k \in 0..n : E(k) \in Seq(S)
    <2>1. <<>> \in Seq(S)
        BY Concatenation
    <2>2. \A k \in 0..n : k = 0 \/ k \in 1..n
        OBVIOUS
    <2>3. E(0) \in Seq(S)
        BY <1>4, <1>6
    <2> HIDE DEF E
    <2> QED
        BY <1>7, <2>1, <2>2, <2>3
<1>9. PICK f : /\ f[1] = E(0) /\ Output(ups, original, n) = f[n + 1]
               /\ \A k \in 1..(n + 1) : f[k] \in Seq(S)
               /\ \A k \in 1..n : f[k + 1] = Cat(f[k], E(k))
    <2>1. n \in Nat /\ \A k \in 0..n : Emitted(ups, original, k) \in Seq(S)
        BY <1>8
    <2>2. \E f : Descends(f, ups, original, n, S)
        BY ONLY <2>1, Downward
    <2> QED
        BY <2>2 DEF Descends
<1>10. PICK e : /\ e[0] = original
                /\ \A j \in 1..(n + 1) : e[j] = EditedAt(e[j - 1], ups, n + 1 - j)
                /\ FromTheBottom(c, ups) = e[n + 1]
    <2>1. n \in Nat /\ n = Len(SplitLines(c))
        BY <1>1, <1>2
    <2>2. \E e : Climbs(e, c, ups, n)
        BY ONLY <2>1, Upward
    <2> QED
        BY <1>1, <2>2 DEF Climbs
<1> HIDE DEF E
<1> DEFINE Meet(j) == \E t \in Seq(S) : /\ e[j] = Cat(SubSeq(original, 1, n - j), t)
                                        /\ Cat(f[n + 1 - j], t) = f[n + 1]
           Js == {j \in Nat : j \in 0..n => Meet(j)}
<1>11. 0 \in Js
    <2>1. <<>> \in Seq(S) /\ Cat(original, <<>>) = original /\ Cat(f[n + 1], <<>>) = f[n + 1]
        <3>1. n + 1 \in 1..(n + 1)
            OBVIOUS
        <3> QED
            BY <3>1, <1>2, <1>9, Concatenation
    <2>2. SubSeq(original, 1, n) = original
        BY <1>2, SubSeqFull
    <2>3. n - 0 = n /\ n + 1 - 0 = n + 1
        OBVIOUS
    <2>4. Meet(0)
        BY <1>10, <2>1, <2>2, <2>3
    <2> QED
        BY <2>4
<1>12. ASSUME NEW j \in Nat, j \in Js PROVE j + 1 \in Js
    <2> SUFFICES ASSUME j + 1 \in 0..n PROVE Meet(j + 1)
        OBVIOUS
    <2>1. Meet(j)
        BY <1>12
    <2>2. PICK t \in Seq(S) : /\ e[j] = Cat(SubSeq(original, 1, n - j), t)
                              /\ Cat(f[n + 1 - j], t) = f[n + 1]
        BY <2>1
    <2>3. PICK m \in 1..n : m = n - j
        OBVIOUS
    <2>4. /\ n + 1 - (j + 1) = m /\ n - (j + 1) = m - 1 /\ n + 1 - j = m + 1
          /\ j + 1 \in 1..(n + 1) /\ (j + 1) - 1 = j /\ m \in 1..(n + 1)
        BY <2>3
    <2>5. e[j + 1] = EditedAt(Cat(SubSeq(original, 1, m), t), ups, m)
        BY <1>10, <2>2, <2>3, <2>4
    <2>6. PICK u \in Seq(S) : u = Cat(E(m), t)
        BY <1>7, Concatenation
    <2>7. e[j + 1] = Cat(SubSeq(original, 1, m - 1), u)
        BY <1>7, <2>5, <2>6
    <2>8. f[m] \in Seq(S) /\ E(m) \in Seq(S) /\ f[m + 1] = Cat(f[m], E(m))
        BY <1>7, <1>9, <2>4
    <2>9. Cat(f[m], u) = Cat(f[m + 1], t)
        <3>1. PICK p \in Seq(S) : p = f[m]
            BY <2>8
        <3>2. PICK q \in Seq(S) : q = E(m)
            BY <2>8
        <3>3. Cat(p, Cat(q, t)) = Cat(Cat(p, q), t)
            BY ONLY Concatenation
        <3> QED
            BY <2>6, <2>8, <3>1, <3>2, <3>3
    <2>10. Cat(f[m], u) = f[n + 1]
        BY <2>2, <2>4, <2>9
    <2> QED
        BY <2>4, <2>7, <2>10
<1> HIDE DEF Js
<1>13. Nat \subseteq Js
    BY <1>11, <1>12, Induction
<1>14. Meet(n)
    BY <1>13 DEF Js
<1>15. PICK t \in Seq(S) : /\ e[n] = Cat(SubSeq(original, 1, n - n), t)
                           /\ Cat(f[n + 1 - n], t) = f[n + 1]
    BY <1>14
<1>16. e[n] = t /\ Cat(E(0), t) = f[n + 1]
    <2>1. n - n = 0 /\ n + 1 - n = 1
        OBVIOUS
    <2>2. SubSeq(original, 1, 0) = <<>>
        BY SubSeqEmpty
    <2> QED
        BY <1>9, <1>15, <2>1, <2>2, Concatenation
<1>17. e[n + 1] = EditedAt(t, ups, 0)
    <2>1. n + 1 \in 1..(n + 1) /\ (n + 1) - 1 = n /\ n + 1 - (n + 1) = 0
        OBVIOUS
    <2> QED
        BY <1>10, <1>16, <2>1
<1>18. EditedAt(t, ups, 0) = Cat(E(0), t)
    <2>1. SubSeq(t, 1, 0) = <<>> /\ SubSeq(t, 0 + 1, Len(t)) = t
        BY SubSeqEmpty, SubSeqFull
    <2>2. EditedAt(t, ups, 0) =
            (SubSeq(t, 1, 0) \o InsertedAfter(ups, 0)) \o SubSeq(t, 0 + 1, Len(t))
        BY <1>5 DEF EditedAt
    <2> QED
        BY <2>1, <2>2, <1>6 DEF Cat
<1> QED
    BY <1>1, <1>2, <1>9, <1>10, <1>16, <1>17, <1>18

-----------------------------------------------------------------------------
(* A batch that was applied fitted, and the file is what it makes of the     *)
(* content it was for.                                                      *)
LineInv ==
    /\ updates \in Seq(PatchUpdate)
    /\ ~result.ok => file \in Contents
    /\ result.ok =>
          /\ result.from \in Contents
          /\ Planned(updates, Len(SplitLines(result.from)))
          /\ file = ApplyUpdates(result.from, updates)

LEMMA LinesStep ==
    ASSUME LineInv, [LineNext]_lineVars
    PROVE  LineInv'
<1>1. CASE Ask
    <2>1. PICK u \in PatchUpdate : updates' = Append(updates, u)
        BY <1>1 DEF Ask
    <2>2. updates' \in Seq(PatchUpdate)
        BY <2>1, AppendProperties DEF LineInv
    <2>3. ~result.ok /\ ~(result.ok)' /\ file' = file
        BY <1>1 DEF Ask, None
    <2> QED
        BY <2>2, <2>3 DEF LineInv
<1>2. CASE PatchFile
    <2>1. ~result.ok /\ file \in Contents /\ updates' = updates
        BY <1>2 DEF PatchFile, None, LineInv
    <2>2. CASE Planned(updates, Len(SplitLines(file)))
        BY <1>2, <2>1, <2>2 DEF PatchFile, LineInv
    <2>3. CASE ~Planned(updates, Len(SplitLines(file)))
        BY <1>2, <2>1, <2>3 DEF PatchFile, LineInv
    <2> QED
        BY <2>2, <2>3
<1>3. CASE UNCHANGED lineVars
    BY <1>3 DEF lineVars, LineInv
<1> QED
    BY <1>1, <1>2, <1>3 DEF LineNext

LEMMA LinesKeptByBatch == LineInv => BatchIsFromOriginal
<1> SUFFICES ASSUME LineInv, result.ok
             PROVE  file = Joined(FromTheBottom(result.from, updates),
                                  EndsLine(result.from), LineEnding(result.from))
    BY DEF BatchIsFromOriginal
<1>1. PICK c \in Contents : c = result.from
    BY DEF LineInv
<1>2. c \in Seq(ToSet(c))
    BY ContentsAssumption
<1>3. PICK n \in Nat : SplitLines(c) = [k \in 1..n |-> SplitLines(c)[k]]
    BY <1>2, SplitIsSeq
<1>4. Len(SplitLines(c)) = n
    BY <1>3
<1>5. /\ updates \in Seq(PatchUpdate) /\ Planned(updates, n)
      /\ file = ApplyUpdates(c, updates)
    BY <1>1, <1>4 DEF LineInv
<1>6. Output(updates, SplitLines(c), n) = FromTheBottom(c, updates)
    BY <1>3, <1>5, BothWays
<1>7. ApplyUpdates(c, updates) =
          Joined(Output(updates, SplitLines(c), n), EndsLine(c), LineEnding(c))
    BY <1>4 DEF ApplyUpdates, Output
<1> QED
    BY <1>1, <1>5, <1>6, <1>7

(* Whatever the file and whatever the batch: when patch_file applies it, the  *)
(* file has become what the single edits make of it, one line at a time from *)
(* the bottom, where no line above has moved.                                *)
THEOREM BatchFromOriginal == LineSpec => []BatchIsFromOriginal
<1>1. LineInit => LineInv
    <2> SUFFICES ASSUME LineInit PROVE LineInv
        OBVIOUS
    <2>1. updates \in Seq(PatchUpdate)
        BY EmptySeq DEF LineInit
    <2> QED
        BY <2>1 DEF LineInit, LineInv, None
<1>2. LineInv /\ [LineNext]_lineVars => LineInv'
    BY LinesStep
<1>3. LineInv => BatchIsFromOriginal
    BY LinesKeptByBatch
<1> QED
    BY <1>1, <1>2, <1>3, PTL DEF LineSpec

-----------------------------------------------------------------------------
(* Parts of sequences                                                       *)

(* What a sequence put together of two is made of.                          *)
LEMMA Elements ==
    ASSUME NEW S, NEW s \in Seq(S), NEW t \in Seq(S)
    PROVE  /\ Cat(s, t) \in Seq(S) /\ Len(Cat(s, t)) = Len(s) + Len(t)
           /\ \A i \in 1..(Len(s) + Len(t)) :
                 Cat(s, t)[i] = IF i <= Len(s) THEN s[i] ELSE t[i - Len(s)]
    BY ConcatProperties DEF Cat

(* What a part of a sequence is made of.                                    *)
LEMMA Slice ==
    ASSUME NEW S, NEW s \in Seq(S), NEW m \in 1..(Len(s) + 1), NEW n \in (m - 1)..Len(s)
    PROVE  /\ SubSeq(s, m, n) \in Seq(S) /\ Len(SubSeq(s, m, n)) = n - m + 1
           /\ \A i \in 1..(n - m + 1) : SubSeq(s, m, n)[i] = s[m + i - 1]
<1>1. Len(s) \in Nat /\ \A i \in 1..Len(s) : s[i] \in S
    BY LenProperties, ElementOfSeq
<1>2. m \in Int /\ n \in Int /\ \A i \in m..n : s[i] \in S
    BY <1>1
<1>3. (IF m <= n THEN n - m + 1 ELSE 0) = n - m + 1
    BY <1>1
<1> QED
    BY <1>2, <1>3, SubSeqProperties

-----------------------------------------------------------------------------
(* The text of a tree                                                       *)

(* The text of a tree is the text of its tokens, one behind the other.      *)
Spelling(ns) == [i \in DOMAIN ns |-> ns[i].text]

LEMMA SpellingOf ==
    ASSUME NEW ns \in Seq(Node)
    PROVE  /\ Spelling(ns) = [i \in 1..Len(ns) |-> Spelling(ns)[i]]
           /\ Len(Spelling(ns)) = Len(ns) /\ Len(ns) \in Nat
           /\ \A i \in 1..Len(ns) : Spelling(ns)[i] = ns[i].text /\ ns[i].text \in Text /\ ns[i] \in Node
<1>1. DOMAIN ns = 1..Len(ns) /\ Len(ns) \in Nat
    BY LenProperties
<1>2. \A i \in 1..Len(ns) : ns[i] \in Node
    BY <1>1, ElementOfSeq
<1>3. \A i \in 1..Len(ns) : ns[i].text \in Text
    BY <1>2 DEF Node
<1>4. \A i \in 1..Len(ns) : Spelling(ns)[i] = ns[i].text
    BY <1>1 DEF Spelling
<1>5. Spelling(ns) = [i \in 1..Len(ns) |-> ns[i].text]
    BY <1>1 DEF Spelling
<1>6. Spelling(ns) = [i \in 1..Len(ns) |-> Spelling(ns)[i]]
    BY <1>5
<1>7. DOMAIN Spelling(ns) = 1..Len(ns) /\ Spelling(ns) \in Seq(Text)
    BY <1>1, <1>3, <1>5
<1>8. Len(Spelling(ns)) = Len(ns)
    BY <1>1, <1>7, LenProperties
<1> QED
    BY <1>1, <1>2, <1>3, <1>4, <1>6, <1>8

LEMMA RenderType == \A ns \in Seq(Node) : Render(ns) \in Text
<1> TAKE ns \in Seq(Node)
<1>1. /\ Spelling(ns) = [i \in 1..Len(ns) |-> Spelling(ns)[i]] /\ Len(ns) \in Nat
      /\ \A i \in 1..Len(ns) : Spelling(ns)[i] \in Seq(Char)
    BY SpellingOf DEF Text
<1>2. Render(ns) = FlattenSeq(Spelling(ns))
    BY DEF Render, Spelling
<1>3. FlattenSeq(Spelling(ns)) \in Seq(Char)
    BY <1>1, FlattenType
<1> QED
    BY <1>2, <1>3 DEF Text

LEMMA RenderNone == Render(<<>>) = <<>>
<1>1. <<>> \in Seq(Node)
    BY EmptySeq
<1>2. Len(Spelling(<<>>)) = 0 /\ Spelling(<<>>) \in Seq(Text)
    BY <1>1, SpellingOf, EmptySeq DEF Spelling
<1>3. Spelling(<<>>) = <<>>
    BY <1>2, EmptySeq
<1> QED
    BY <1>2, <1>3 DEF Render, Spelling, FlattenSeq

LEMMA RenderAppend ==
    ASSUME NEW ns \in Seq(Node), NEW x \in Node
    PROVE  Render(ns \o <<x>>) = Render(ns) \o x.text
<1> DEFINE more == ns \o <<x>>
           n == Len(ns)
           s == Spelling(ns)
           t == Spelling(more)
<1>1. <<x>> \in Seq(Node) /\ Len(<<x>>) = 1 /\ <<x>>[1] = x
    OBVIOUS
<1>2. /\ more \in Seq(Node) /\ Len(more) = n + 1 /\ n \in Nat
      /\ \A i \in 1..n : more[i] = ns[i]
      /\ more[n + 1] = x
    BY <1>1, ConcatProperties, LenProperties
<1>3. Len(t) = n + 1 /\ \A i \in 1..(n + 1) : t[i] = more[i].text
    BY <1>2, SpellingOf
<1>4. Len(s) = n /\ \A i \in 1..n : s[i] = ns[i].text
    BY SpellingOf
<1>5. Render(ns) = FlattenSeq(s) /\ Render(more) = FlattenSeq(t)
    BY DEF Render, Spelling
<1> HIDE DEF more, s, t
<1>6. PICK g : /\ FlattenSeq(t) = g[n + 1]
               /\ \A i \in 1..(n + 1) : g[i] = IF i = 1 THEN t[i] ELSE g[i - 1] \o t[i]
    BY <1>2, <1>3, Flattening
<1>7. CASE n = 0
    <2>1. ns = <<>>
        BY <1>7, EmptySeq
    <2>2. g[1] = t[1] /\ t[1] = x.text
        BY <1>2, <1>3, <1>6, <1>7
    <2>3. x.text \in Seq(Char)
        BY DEF Node, Text
    <2>4. <<>> \o x.text = x.text
        BY <2>3, ConcatEmptySeq
    <2>5. Render(more) = x.text
        BY <2>2, <1>5, <1>6, <1>7
    <2> QED
        BY <2>1, <2>4, <2>5, RenderNone DEF more
<1>8. CASE n # 0
    <2>1. PICK f : /\ FlattenSeq(s) = f[n]
                   /\ \A i \in 1..n : f[i] = IF i = 1 THEN s[i] ELSE f[i - 1] \o s[i]
        <3>1. Len(s) \in Nat \ {0}
            BY <1>2, <1>4, <1>8
        <3>2. \E f : /\ FlattenSeq(s) = f[Len(s)]
                     /\ \A i \in 1..Len(s) : f[i] = IF i = 1 THEN s[i] ELSE f[i - 1] \o s[i]
            BY <3>1, Flattening
        <3> QED
            BY <3>2, <1>4
    <2> DEFINE Ks == {k \in Nat : k \in 1..n => f[k] = g[k]}
    <2>2. 0 \in Ks
        OBVIOUS
    <2>3. ASSUME NEW k \in Nat, k \in Ks
          PROVE  k + 1 \in Ks
        <3> SUFFICES ASSUME k + 1 \in 1..n PROVE f[k + 1] = g[k + 1]
            OBVIOUS
        <3>1. s[k + 1] = t[k + 1] /\ k + 1 \in 1..(n + 1)
            BY <1>2, <1>3, <1>4
        <3>2. CASE k = 0
            BY <3>1, <3>2, <2>1, <1>6
        <3>3. CASE k # 0
            <4>1. k \in 1..n /\ k + 1 # 1 /\ (k + 1) - 1 = k
                BY <3>3
            <4>2. f[k] = g[k]
                BY <4>1, <2>3
            <4>3. f[k + 1] = f[k] \o s[k + 1] /\ g[k + 1] = g[k] \o t[k + 1]
                BY <3>1, <4>1, <2>1, <1>6
            <4> QED
                BY <3>1, <4>2, <4>3
        <3> QED
            BY <3>2, <3>3
    <2> HIDE DEF Ks
    <2>4. Nat \subseteq Ks
        BY <2>2, <2>3, Induction
    <2>5. f[n] = g[n]
        BY <2>4, <1>2, <1>8 DEF Ks
    <2>6. g[n + 1] = g[n] \o t[n + 1]
        <3>1. n + 1 \in 1..(n + 1) /\ n + 1 # 1 /\ (n + 1) - 1 = n
            BY <1>2, <1>8
        <3> QED
            BY <3>1, <1>6
    <2>7. t[n + 1] = x.text
        BY <1>2, <1>3
    <2> QED
        BY <1>5, <1>6, <2>1, <2>5, <2>6, <2>7 DEF more
<1> QED
    BY <1>7, <1>8

LEMMA RenderCat == \A a, b \in Seq(Node) : Render(a \o b) = Render(a) \o Render(b)
<1> TAKE a, b \in Seq(Node)
<1> DEFINE Up(k) == SubSeq(b, 1, k)
           Ks == {k \in Nat : k <= Len(b) => Render(Cat(a, Up(k))) = Cat(Render(a), Render(Up(k)))}
<1>0. Len(b) \in Nat /\ Render(a) \in Text /\ \A i \in 1..Len(b) : b[i] \in Node
    BY RenderType, LenProperties, ElementOfSeq
<1>1. 0 \in Ks
    <2>1. Up(0) = <<>>
        BY SubSeqEmpty
    <2>2. Cat(a, <<>>) = a /\ Cat(Render(a), <<>>) = Render(a)
        BY <1>0, Concatenation DEF Text
    <2> QED
        BY <2>1, <2>2, RenderNone
<1>2. ASSUME NEW k \in Nat, k \in Ks
      PROVE  k + 1 \in Ks
    <2> SUFFICES ASSUME k + 1 <= Len(b)
                 PROVE  Render(Cat(a, Up(k + 1))) = Cat(Render(a), Render(Up(k + 1)))
        OBVIOUS
    <2>1. k + 1 \in 1..Len(b) /\ 1 \in 1..Len(b) /\ (k + 1) - 1 = k
        BY <1>0
    <2>2. Up(k + 1) = Cat(Up(k), One(b[k + 1]))
        BY <2>1, SubSeqRecursiveSecond DEF Cat, One
    <2>3. Up(k) \in Seq(Node) /\ b[k + 1] \in Node
        BY <1>0, <2>1, SubSeqProperties
    <2>4. Render(Cat(a, Up(k))) = Cat(Render(a), Render(Up(k)))
        BY <1>2, <1>0
    <2> HIDE DEF Up, Ks
    <2> DEFINE u == Up(k)
               y == b[k + 1]
    <2>5. One(y) \in Seq(Node) /\ Cat(a, u) \in Seq(Node) /\ Render(u) \in Text /\ y.text \in Text
        BY <2>3, Concatenation, RenderType DEF Node
    <2>6. Cat(a, Cat(u, One(y))) = Cat(Cat(a, u), One(y))
        BY <2>3, <2>5, Concatenation
    <2>7. Render(Cat(Cat(a, u), One(y))) = Cat(Render(Cat(a, u)), y.text)
        BY <2>3, <2>5, RenderAppend DEF Cat, One
    <2>8. Render(Cat(u, One(y))) = Cat(Render(u), y.text)
        BY <2>3, RenderAppend DEF Cat, One
    <2>9. Cat(Cat(Render(a), Render(u)), y.text) = Cat(Render(a), Cat(Render(u), y.text))
        <3>1. \A r, s, t \in Text : Cat(Cat(r, s), t) = Cat(r, Cat(s, t))
            BY Concatenation DEF Text
        <3> HIDE DEF u, y
        <3> QED
            BY <3>1, <1>0, <2>5
    <2> QED
        BY <2>2, <2>4, <2>6, <2>7, <2>8, <2>9
<1> HIDE DEF Ks, Up
<1>3. Nat \subseteq Ks
    BY <1>1, <1>2, Induction
<1>4. Up(Len(b)) = b
    BY SubSeqFull DEF Up
<1>5. Render(Cat(a, Up(Len(b)))) = Cat(Render(a), Render(Up(Len(b))))
    BY <1>3, <1>0 DEF Ks
<1> QED
    BY <1>4, <1>5 DEF Cat

(* The least and the greatest of a set of numbers.                          *)
LEMMA LeastOf ==
    ASSUME NEW S, S \subseteq Nat, S # {}
    PROVE  Min(S) \in S /\ \A y \in S : Min(S) <= y
<1>1. \E x \in S : \A y \in S : <<y, x>> \notin OpToRel(<, Nat)
    BY WFMin, NatLessThanWellFounded, Zenon
<1>2. PICK x \in S : \A y \in S : ~(y < x)
    <2>1. PICK x \in S : \A y \in S : <<y, x>> \notin OpToRel(<, Nat)
        BY <1>1
    <2>2. \A y \in S : ~(y < x)
        BY <2>1 DEF OpToRel
    <2> QED
        BY <2>2
<1>3. \A y \in S : x <= y
    BY <1>2
<1> QED
    BY <1>3 DEF Min

LEMMA GreatestOf ==
    ASSUME NEW n \in Nat, NEW S, S \subseteq 0..n, S # {}
    PROVE  Max(S) \in S /\ \A y \in S : y <= Max(S)
<1> DEFINE T == {n - x : x \in S}
<1>0. \A x \in S : x \in Int /\ 0 <= x /\ x <= n /\ n - x \in Nat
    OBVIOUS
<1>1. T \subseteq Nat /\ T # {}
    BY <1>0
<1> HIDE DEF T
<1>2. PICK m \in T : \A y \in T : m <= y
    BY <1>1, LeastOf
<1>3. PICK x \in S : m = n - x
    BY DEF T
<1>4. \A y \in S : n - y \in T
    BY DEF T
<1>5. \A y \in S : x >= y
    <2> TAKE y \in S
    <2>1. m <= n - y
        BY <1>2, <1>4
    <2> QED
        BY <2>1, <1>0, <1>3
<1>6. Max(S) \in S /\ \A y \in S : Max(S) >= y
    BY <1>5 DEF Max
<1> QED
    BY <1>6

(* A tree taken apart before node i and behind node j, and its text.        *)
Part(ns, i, j) == SubSeq(ns, i, j)
Spells(ns, i, j) == Render(Part(ns, i, j))

LEMMA PartType ==
    ASSUME NEW ns \in Seq(Node), NEW i \in 1..(Len(ns) + 1), NEW j \in (i - 1)..Len(ns)
    PROVE  /\ Part(ns, i, j) \in Seq(Node) /\ Len(Part(ns, i, j)) = j - i + 1
           /\ \A k \in 1..(j - i + 1) : Part(ns, i, j)[k] = ns[i + k - 1]
           /\ Spells(ns, i, j) \in Text
<1>1. /\ Part(ns, i, j) \in Seq(Node) /\ Len(Part(ns, i, j)) = j - i + 1
      /\ \A k \in 1..(j - i + 1) : Part(ns, i, j)[k] = ns[i + k - 1]
    BY Slice DEF Part
<1>2. Spells(ns, i, j) \in Text
    BY <1>1, RenderType DEF Spells
<1> QED
    BY <1>1, <1>2

LEMMA Apart ==
    ASSUME NEW ns \in Seq(Node), NEW i \in 1..(Len(ns) + 1), NEW j \in (i - 1)..Len(ns)
    PROVE  /\ Part(ns, 1, j) = Cat(Part(ns, 1, i - 1), Part(ns, i, j))
           /\ ns = Cat(Part(ns, 1, j), Part(ns, j + 1, Len(ns)))
           /\ Spells(ns, 1, j) = Cat(Spells(ns, 1, i - 1), Spells(ns, i, j))
           /\ Render(ns) = Cat(Spells(ns, 1, j), Spells(ns, j + 1, Len(ns)))
<1>0. Len(ns) \in Nat
    BY LenProperties
<1>1. /\ 1 \in 1..(Len(ns) + 1) /\ i - 1 \in 0..Len(ns) /\ j \in (i - 1)..Len(ns)
      /\ j \in 0..Len(ns) /\ Len(ns) \in j..Len(ns) /\ j + 1 \in 1..(Len(ns) + 1)
      /\ Len(ns) \in ((j + 1) - 1)..Len(ns) /\ (i - 1) + 1 = i
    BY <1>0
<1>2. Cat(Part(ns, 1, i - 1), Part(ns, i, j)) = Part(ns, 1, j)
    <2>1. SubSeq(ns, 1, i - 1) \o SubSeq(ns, (i - 1) + 1, j) = SubSeq(ns, 1, j)
        <3>1. i - 1 \in (1 - 1)..Len(ns)
            BY <1>1
        <3> QED
            BY <1>1, <3>1, ConcatAdjacentSubSeq
    <2> QED
        BY <2>1, <1>1 DEF Cat, Part
<1>3. Cat(Part(ns, 1, j), Part(ns, j + 1, Len(ns))) = ns
    <2>1. SubSeq(ns, 1, j) \o SubSeq(ns, j + 1, Len(ns)) = SubSeq(ns, 1, Len(ns))
        <3>1. j \in (1 - 1)..Len(ns)
            BY <1>1
        <3> QED
            BY <1>1, <3>1, ConcatAdjacentSubSeq
    <2> QED
        BY <2>1, SubSeqFull DEF Cat, Part
<1>4. /\ Part(ns, 1, i - 1) \in Seq(Node) /\ Part(ns, i, j) \in Seq(Node)
      /\ Part(ns, 1, j) \in Seq(Node) /\ Part(ns, j + 1, Len(ns)) \in Seq(Node)
    <2>1. i - 1 \in (1 - 1)..Len(ns) /\ j \in (1 - 1)..Len(ns)
        BY <1>1
    <2> QED
        BY <1>1, <2>1, PartType
<1>5. \A a, b \in Seq(Node) : Render(Cat(a, b)) = Cat(Render(a), Render(b))
    BY RenderCat DEF Cat
<1>6. Spells(ns, 1, j) = Cat(Spells(ns, 1, i - 1), Spells(ns, i, j))
    BY <1>2, <1>4, <1>5 DEF Spells
<1>7. Render(ns) = Cat(Spells(ns, 1, j), Spells(ns, j + 1, Len(ns)))
    BY <1>3, <1>4, <1>5 DEF Spells
<1> QED
    BY <1>2, <1>3, <1>6, <1>7

(* One node, and none.                                                      *)
LEMMA OneNode ==
    ASSUME NEW ns \in Seq(Node), NEW i \in 1..Len(ns)
    PROVE  Spells(ns, i, i) = ns[i].text /\ ns[i].text \in Text /\ ns[i] \in Node
<1>0. Len(ns) \in Nat /\ ns[i] \in Node
    BY LenProperties, ElementOfSeq
<1>1. i \in 1..(Len(ns) + 1) /\ i \in (i - 1)..Len(ns) /\ i - i + 1 = 1 /\ i \in Nat
    BY <1>0
<1>2. Part(ns, i, i) \in Seq(Node) /\ Len(Part(ns, i, i)) = 1 /\ Part(ns, i, i)[1] = ns[i]
    <2>1. /\ Part(ns, i, i) \in Seq(Node) /\ Len(Part(ns, i, i)) = i - i + 1
          /\ \A k \in 1..(i - i + 1) : Part(ns, i, i)[k] = ns[i + k - 1]
        BY <1>1, PartType
    <2>2. i + 1 - 1 = i /\ 1 \in 1..(i - i + 1)
        BY <1>1
    <2>3. Part(ns, i, i)[1] = ns[i]
        BY <2>1, <2>2
    <2> QED
        BY <1>1, <2>1, <2>3
<1>3. One(ns[i]) \in Seq(Node) /\ Len(One(ns[i])) = 1 /\ One(ns[i])[1] = ns[i]
    BY <1>0 DEF One
<1>4. Part(ns, i, i) = One(ns[i])
    BY <1>2, <1>3, SeqEqual
<1>5. <<>> \in Seq(Node) /\ Cat(<<>>, One(ns[i])) = One(ns[i])
    BY <1>3, Concatenation
<1>6. Render(Cat(<<>>, One(ns[i]))) = Cat(<<>>, ns[i].text)
    BY <1>0, <1>5, RenderAppend, RenderNone DEF Cat, One
<1>7. ns[i].text \in Text
    BY <1>0 DEF Node
<1>8. Cat(<<>>, ns[i].text) = ns[i].text
    BY <1>7, Concatenation DEF Text
<1> QED
    BY <1>0, <1>4, <1>5, <1>6, <1>7, <1>8 DEF Spells

(* Bytes of a text exchanged.                                               *)
LEMMA BytesExchanged ==
    ASSUME NEW x \in Text, NEW y \in Text, NEW z \in Text, NEW by
    PROVE  ReplaceBytes(Cat(Cat(x, y), z), [from |-> Len(x), to |-> Len(Cat(x, y))], by)
             = Cat(Cat(x, by), z)
<1> DEFINE t == Cat(Cat(x, y), z)
           xy == Cat(x, y)
           yz == Cat(y, z)
<1>1. xy \in Text /\ yz \in Text /\ t = Cat(x, yz)
    BY Concatenation DEF Text
<1> HIDE DEF yz
<1>2. SubSeq(Cat(x, yz), 1, Len(x)) = x
    BY <1>1, Halves DEF Text, Cat
<1> HIDE DEF xy
<1>3. SubSeq(Cat(xy, z), Len(xy) + 1, Len(Cat(xy, z))) = z
    BY <1>1, Halves DEF Text, Cat
<1>4. Cat(xy, z) = t
    BY DEF xy
<1>5. SubSeq(t, 1, Len(x)) = x
    BY <1>1, <1>2
<1>6. SubSeq(t, Len(xy) + 1, Len(t)) = z
    BY <1>3, <1>4
<1> HIDE DEF t
<1>7. ReplaceBytes(t, [from |-> Len(x), to |-> Len(xy)], by)
        = (SubSeq(t, 1, Len(x)) \o by) \o SubSeq(t, Len(xy) + 1, Len(t))
    BY DEF ReplaceBytes
<1> QED
    BY <1>5, <1>6, <1>7 DEF t, xy, Cat

(* The last node below a node.                                              *)
LEMMA LastBelow ==
    ASSUME NEW ns \in Seq(Node), NEW i \in 1..Len(ns)
    PROVE  /\ LastOf(ns, i) \in i..Len(ns)
           /\ \A k \in (i + 1)..LastOf(ns, i) : ns[k].depth > ns[i].depth
           /\ LastOf(ns, i) < Len(ns) => ns[LastOf(ns, i) + 1].depth <= ns[i].depth
<1> DEFINE out == {k \in (i + 1)..Len(ns) : ns[k].depth <= ns[i].depth}
<1>0. Len(ns) \in Nat /\ \A k \in 1..Len(ns) : ns[k].depth \in Nat
    <2>1. \A k \in 1..Len(ns) : ns[k] \in Node
        BY ElementOfSeq
    <2> QED
        BY <2>1, LenProperties DEF Node
<1>1. LastOf(ns, i) = IF out = {} THEN Len(ns) ELSE Min(out) - 1
    BY DEF LastOf
<1>2. out \subseteq Nat
    BY <1>0
<1>3. CASE out = {}
    <2>1. LastOf(ns, i) = Len(ns)
        BY <1>1, <1>3
    <2>2. \A k \in (i + 1)..Len(ns) : ~(ns[k].depth <= ns[i].depth)
        BY <1>3
    <2> QED
        BY <2>1, <2>2, <1>0
<1>4. CASE out # {}
    <2> DEFINE m == Min(out)
    <2>1. m \in out /\ \A y \in out : m <= y
        BY <1>2, <1>4, LeastOf
    <2>2. LastOf(ns, i) = m - 1
        BY <1>1, <1>4
    <2> HIDE DEF m
    <2>3. \A k \in (i + 1)..(m - 1) : ns[k].depth > ns[i].depth
        <3> TAKE k \in (i + 1)..(m - 1)
        <3>1. k \in (i + 1)..Len(ns) /\ k \in 1..Len(ns) /\ ~(m <= k)
            BY <2>1, <1>0
        <3>2. k \notin out
            BY <2>1, <3>1
        <3>3. ~(ns[k].depth <= ns[i].depth)
            BY <3>1, <3>2
        <3> QED
            BY <3>1, <3>3, <1>0
    <2>4. m \in (i + 1)..Len(ns) /\ ns[m].depth <= ns[i].depth
        BY <2>1
    <2>5. (m - 1) + 1 = m /\ m - 1 \in i..Len(ns)
        BY <2>4, <1>0
    <2> QED
        BY <2>2, <2>3, <2>4, <2>5
<1> QED
    BY <1>3, <1>4

(* The first k nodes spell no less than the first i of them.                *)
LEMMA SpeltAscends ==
    ASSUME NEW ns \in Seq(Node), NEW k \in 0..Len(ns), NEW i \in 0..k
    PROVE  /\ Len(Spells(ns, 1, i)) \in Nat /\ Len(Spells(ns, 1, k)) \in Nat
           /\ Len(Spells(ns, 1, i)) <= Len(Spells(ns, 1, k))
<1> DEFINE m == i + 1
<1>0. Len(ns) \in Nat
    BY LenProperties
<1>1. /\ m \in 1..(Len(ns) + 1) /\ k \in (m - 1)..Len(ns) /\ m - 1 = i
      /\ 1 \in 1..(Len(ns) + 1) /\ i \in (1 - 1)..Len(ns) /\ k \in (1 - 1)..Len(ns)
    BY <1>0
<1> HIDE DEF m
<1>2. Spells(ns, 1, k) = Cat(Spells(ns, 1, i), Spells(ns, m, k))
    BY <1>1, Apart
<1>3. Spells(ns, 1, i) \in Text /\ Spells(ns, m, k) \in Text /\ Spells(ns, 1, k) \in Text
    BY <1>1, PartType
<1>4. Len(Spells(ns, 1, k)) = Len(Spells(ns, 1, i)) + Len(Spells(ns, m, k))
    BY <1>2, <1>3, ConcatProperties DEF Text, Cat
<1>5. /\ Len(Spells(ns, 1, i)) \in Nat /\ Len(Spells(ns, m, k)) \in Nat
      /\ Len(Spells(ns, 1, k)) \in Nat
    BY <1>3, LenProperties DEF Text
<1> QED
    BY <1>4, <1>5

LEMMA SpeltNext ==
    ASSUME NEW ns \in Seq(Node), NEW k \in 1..Len(ns)
    PROVE  /\ Spells(ns, 1, k) = Cat(Spells(ns, 1, k - 1), ns[k].text)
           /\ Spells(ns, 1, k - 1) \in Text /\ ns[k].text \in Text
           /\ Len(Spells(ns, 1, k)) = Len(Spells(ns, 1, k - 1)) + Len(ns[k].text)
           /\ Len(Spells(ns, 1, k - 1)) \in Nat /\ Len(ns[k].text) \in Nat
<1>0. Len(ns) \in Nat
    BY LenProperties
<1>1. k \in 1..(Len(ns) + 1) /\ k \in (k - 1)..Len(ns) /\ k - 1 \in 0..Len(ns)
      /\ 1 \in 1..(Len(ns) + 1) /\ k - 1 \in (1 - 1)..Len(ns)
    BY <1>0
<1>2. Spells(ns, 1, k) = Cat(Spells(ns, 1, k - 1), Spells(ns, k, k))
    BY <1>1, Apart
<1>3. Spells(ns, k, k) = ns[k].text /\ ns[k].text \in Text
    BY OneNode
<1>4. Spells(ns, 1, k - 1) \in Text
    BY <1>1, PartType
<1>5. Len(Spells(ns, 1, k - 1)) \in Nat /\ Len(ns[k].text) \in Nat
    BY <1>3, <1>4, LenProperties DEF Text
<1> QED
    BY <1>2, <1>3, <1>4, <1>5, ConcatProperties DEF Text, Cat

LEMMA SpeltFrom ==
    ASSUME NEW ns \in Seq(Node), NEW k \in 1..Len(ns)
    PROVE  /\ Spells(ns, k, Len(ns)) = Cat(ns[k].text, Spells(ns, k + 1, Len(ns)))
           /\ ns[k].text \in Text /\ Spells(ns, k + 1, Len(ns)) \in Text
           /\ Spells(ns, k, Len(ns)) \in Text
<1>0. Len(ns) \in Nat
    BY LenProperties
<1>1. /\ k \in 1..(Len(ns) + 1) /\ k \in (k - 1)..Len(ns) /\ Len(ns) \in k..Len(ns)
      /\ k + 1 \in 1..(Len(ns) + 1) /\ Len(ns) \in ((k + 1) - 1)..Len(ns)
      /\ Len(ns) \in (k - 1)..Len(ns)
    BY <1>0
<1>2. Cat(Part(ns, k, k), Part(ns, k + 1, Len(ns))) = Part(ns, k, Len(ns))
    BY <1>1, ConcatAdjacentSubSeq DEF Cat, Part
<1>3. Part(ns, k, k) \in Seq(Node) /\ Part(ns, k + 1, Len(ns)) \in Seq(Node)
      /\ Spells(ns, k + 1, Len(ns)) \in Text /\ Spells(ns, k, Len(ns)) \in Text
    BY <1>1, PartType
<1>4. Spells(ns, k, Len(ns)) = Cat(Spells(ns, k, k), Spells(ns, k + 1, Len(ns)))
    <2>1. \A a, b \in Seq(Node) : Render(Cat(a, b)) = Cat(Render(a), Render(b))
        BY RenderCat DEF Cat
    <2> QED
        BY <1>2, <1>3, <2>1 DEF Spells
<1> QED
    BY <1>3, <1>4, OneNode

-----------------------------------------------------------------------------
(* patch_symbol                                                             *)

NewLine == DetectLineEnding(text)

(* The text is that of the tree, which has a root that is no item.          *)
TreeType ==
    /\ nodes \in Seq(Node)
    /\ path.ext \in Supported => Rooted(lang, nodes)
TreeInv == TreeType /\ TextIsTree

LEMMA TextOfTree == TreeInv => text \in Text
    BY RenderType DEF TreeInv, TreeType, TextIsTree

LEMMA TreeInitially == SyntaxInit => TreeInv
<1> SUFFICES ASSUME SyntaxInit PROVE TreeInv
    OBVIOUS
<1>1. PICK f \in Files : path = f.path /\ nodes = f.nodes /\ broken = f.broken
    BY DEF SyntaxInit
<1>2. nodes \in Seq(Node)
    BY <1>1, FilesAssumption
<1>3. path.ext \in Supported => Rooted(lang, nodes)
    BY <1>1, FilesAssumption DEF Supported, lang
<1>4. text = Render(nodes)
    BY DEF SyntaxInit
<1> QED
    BY <1>2, <1>3, <1>4 DEF TreeInv, TreeType, TextIsTree

LEMMA TreeUnchanged == TreeInv /\ UNCHANGED <<path, nodes, text>> => TreeInv'
    BY DEF TreeInv, TreeType, TextIsTree, lang

LEMMA RefusedKeeps ==
    ASSUME TreeInv, NEW t, NEW asked, NEW why, Refused(t, asked, why)
    PROVE  TreeInv'
    BY TreeUnchanged DEF Refused, Call

(* An item is a node below the root.                                        *)
LEMMA ItemsBelow ==
    ASSUME NEW l, NEW ns \in Seq(Node), Rooted(l, ns), NEW it \in Items(l, ns)
    PROVE  it.at \in 2..Len(ns) /\ ns[it.at].kind \in ItemKinds(l)
<1>0. DOMAIN ns = 1..Len(ns) /\ Len(ns) \in Nat
    BY LenProperties
<1>1. PICK i \in DOMAIN ns :
            it \in {[at |-> i, kind |-> Kind(l, ns, i, c), name |-> NameAt(l, ns, i)] :
                        c \in ClassesOf(l, ns, i)}
    BY DEF Items
<1>2. PICK c \in ClassesOf(l, ns, i) :
            it = [at |-> i, kind |-> Kind(l, ns, i, c), name |-> NameAt(l, ns, i)]
    BY <1>1
<1>3. it.at = i
    BY <1>2
<1>4. ns[i].kind \in ItemKinds(l)
    BY <1>2 DEF ClassesOf, Defines, ItemKinds
<1>5. i # 1
    BY <1>4 DEF Rooted
<1> QED
    BY <1>0, <1>3, <1>4, <1>5

(* Other nodes in the place of some of a tree.                              *)
LEMMA Regrown ==
    ASSUME NEW l, NEW ns \in Seq(Node), Rooted(l, ns), NEW k \in 1..Len(ns),
           NEW mid \in Seq(Node), NEW rest \in Seq(Node)
    PROVE  /\ Cat(Cat(Part(ns, 1, k), mid), rest) \in Seq(Node)
           /\ Rooted(l, Cat(Cat(Part(ns, 1, k), mid), rest))
           /\ Render(Cat(Cat(Part(ns, 1, k), mid), rest))
                = Cat(Cat(Spells(ns, 1, k), Render(mid)), Render(rest))
<1> DEFINE a == Part(ns, 1, k)
           am == Cat(a, mid)
           new == Cat(am, rest)
<1>0. Len(ns) \in Nat
    BY LenProperties
<1>1. a \in Seq(Node) /\ Len(a) = k /\ a[1] = ns[1]
    <2>1. /\ 1 \in 1..(Len(ns) + 1) /\ k \in (1 - 1)..Len(ns) /\ k - 1 + 1 = k /\ k \in Nat
          /\ 1 \in 1..(k - 1 + 1) /\ 1 + 1 - 1 = 1
        BY <1>0
    <2>2. /\ a \in Seq(Node) /\ Len(a) = k - 1 + 1 /\ \A j \in 1..(k - 1 + 1) : a[j] = ns[1 + j - 1]
        BY <2>1, PartType
    <2> HIDE DEF a
    <2>3. a[1] = ns[1 + 1 - 1] /\ Len(a) = k
        BY <2>1, <2>2
    <2> QED
        BY <2>1, <2>2, <2>3
<1>2. am \in Seq(Node) /\ new \in Seq(Node)
    BY <1>1, Concatenation
<1>3. Render(new) = Cat(Cat(Render(a), Render(mid)), Render(rest))
    <2>1. \A x, y \in Seq(Node) : Render(Cat(x, y)) = Cat(Render(x), Render(y))
        BY RenderCat DEF Cat
    <2> HIDE DEF a
    <2>2. Render(am) = Cat(Render(a), Render(mid))
        BY <2>1, <1>1
    <2> HIDE DEF am
    <2> QED
        BY <2>1, <2>2, <1>2
<1> HIDE DEF a
<1>4. am[1] = a[1] /\ Len(am) \in Nat \ {0}
    <2>0. Len(mid) \in Nat /\ Len(a) \in Nat \ {0}
        BY <1>0, <1>1, LenProperties
    <2>1. Len(am) = Len(a) + Len(mid)
        BY <1>1, ConcatProperties DEF Cat
    <2>2. 1 \in 1..(Len(a) + Len(mid)) /\ 1 <= Len(a)
        BY <2>0
    <2>3. am[1] = a[1]
        BY <2>2, <1>1, ConcatProperties DEF Cat
    <2> QED
        BY <2>0, <2>1, <2>3
<1> HIDE DEF am
<1>5. new[1] = am[1] /\ Len(new) \in Nat \ {0}
    <2>1. Len(new) = Len(am) + Len(rest) /\ Len(rest) \in Nat /\ 1 \in 1..(Len(am) + Len(rest))
        BY <1>2, <1>4, ConcatProperties, LenProperties DEF Cat
    <2> QED
        BY <2>1, <1>2, <1>4, ConcatProperties DEF Cat
<1>6. new # <<>>
    BY <1>2, <1>5, EmptySeq
<1> HIDE DEF new
<1>7. Rooted(l, new)
    BY <1>1, <1>4, <1>5, <1>6 DEF Rooted
<1> QED
    BY <1>2, <1>3, <1>7 DEF new, am, a, Spells

LEMMA PatchKeeps ==
    ASSUME TreeInv, path.ext \in Supported, NEW symbol, NEW name \in Given,
           PatchSymbol(symbol, name)
    PROVE  TreeInv'
<1>0. name \in Text
    BY NamesAssumption
<1> DEFINE found == Definitions(lang, nodes, symbol)
<1>1. CASE \E why : Refused("patch", [symbol |-> symbol, by |-> name], why)
    BY <1>1, RefusedKeeps
<1>2. CASE /\ \E it \in found, end \in DOMAIN nodes :
                /\ end = LastOf(nodes, it.at)
                /\ \E new \in {Rewritten(SubSeq(nodes, it.at, end),
                                         NameNode(lang, nodes, it.at) - it.at + 1, name)} :
                    /\ text' = ReplaceBytes(text, Bytes(nodes, it.at), Render(new))
                    /\ nodes' = SubSeq(nodes, 1, it.at - 1) \o new
                                    \o SubSeq(nodes, end + 1, Len(nodes))
           /\ path' = path
    <2>1. PICK it \in found, end \in DOMAIN nodes :
                /\ end = LastOf(nodes, it.at)
                /\ \E new \in {Rewritten(SubSeq(nodes, it.at, end),
                                         NameNode(lang, nodes, it.at) - it.at + 1, name)} :
                    /\ text' = ReplaceBytes(text, Bytes(nodes, it.at), Render(new))
                    /\ nodes' = SubSeq(nodes, 1, it.at - 1) \o new
                                    \o SubSeq(nodes, end + 1, Len(nodes))
        BY <1>2
    <2> DEFINE at == it.at
               n == NameNode(lang, nodes, at) - at + 1
               old == Part(nodes, at, end)
               new == Rewritten(old, n, name)
               a == Part(nodes, 1, at - 1)
               c == Part(nodes, end + 1, Len(nodes))
    <2>2. /\ text' = ReplaceBytes(text, Bytes(nodes, at), Render(new))
          /\ nodes' = Cat(Cat(a, new), c)
        BY <2>1 DEF Part, Cat
    <2>3. nodes \in Seq(Node) /\ Rooted(lang, nodes) /\ text = Render(nodes) /\ Len(nodes) \in Nat
        BY LenProperties DEF TreeInv, TreeType, TextIsTree
    <2>4. at \in 2..Len(nodes)
        BY <2>1, <2>3, ItemsBelow DEF Definitions
    <2>5. end = LastOf(nodes, at) /\ end \in at..Len(nodes)
        BY <2>1, <2>3, <2>4, LastBelow
    <2> HIDE DEF at
    <2>6. /\ at \in 1..(Len(nodes) + 1) /\ end \in (at - 1)..Len(nodes)
          /\ end + 1 \in 1..(Len(nodes) + 1) /\ Len(nodes) \in ((end + 1) - 1)..Len(nodes)
          /\ at - 1 \in 1..Len(nodes) /\ at - 1 \in (1 - 1)..Len(nodes) /\ 1 \in 1..(Len(nodes) + 1)
        BY <2>3, <2>4, <2>5
    <2>7. /\ old \in Seq(Node) /\ c \in Seq(Node) /\ a \in Seq(Node)
          /\ Render(old) \in Text /\ Render(c) \in Text /\ Render(a) \in Text
        BY <2>3, <2>6, PartType, RenderType
    <2> HIDE DEF old
    <2>8. new \in Seq(Node) /\ Render(new) \in Text
        <3>1. DOMAIN old = 1..Len(old) /\ Len(old) \in Nat /\ \A k \in 1..Len(old) : old[k] \in Node
            BY <2>7, LenProperties, ElementOfSeq
        <3>2. \A k \in 1..Len(old) : [old[k] EXCEPT !.text = name] \in Node
            BY <3>1, <1>0 DEF Node
        <3>3. new = [k \in 1..Len(old) |->
                        IF k = n THEN [old[k] EXCEPT !.text = name] ELSE old[k]]
            BY <3>1 DEF Rewritten
        <3>4. \A k \in 1..Len(old) :
                (IF k = n THEN [old[k] EXCEPT !.text = name] ELSE old[k]) \in Node
            BY <3>1, <3>2
        <3> HIDE DEF n, new
        <3>5. new \in Seq(Node)
            BY <3>1, <3>3, <3>4, IsASeq
        <3> QED
            BY <3>5, RenderType
    <2> HIDE DEF new
    <2>9. text = Cat(Cat(Render(a), Render(old)), Render(c))
          /\ Spells(nodes, 1, end) = Cat(Render(a), Render(old))
        BY <2>3, <2>6, Apart DEF Spells, a, old, c
    <2>10. Bytes(nodes, at) = [from |-> Len(Render(a)), to |-> Len(Cat(Render(a), Render(old)))]
        <3>1. Bytes(nodes, at) = [from |-> Len(Render(a)), to |-> Len(Spells(nodes, 1, end))]
            BY <2>5 DEF Bytes, Spells, Part
        <3> QED
            BY <3>1, <2>9
    <2> HIDE DEF c
    <2>11. /\ Cat(Cat(a, new), c) \in Seq(Node) /\ Rooted(lang, Cat(Cat(a, new), c))
           /\ Render(Cat(Cat(a, new), c)) = Cat(Cat(Render(a), Render(new)), Render(c))
        <3> DEFINE k == at - 1
        <3>1. k \in 1..Len(nodes) /\ a = Part(nodes, 1, k) /\ Render(a) = Spells(nodes, 1, k)
            BY <2>6 DEF Spells
        <3> HIDE DEF a, k
        <3>2. /\ Cat(Cat(Part(nodes, 1, k), new), c) \in Seq(Node)
              /\ Rooted(lang, Cat(Cat(Part(nodes, 1, k), new), c))
              /\ Render(Cat(Cat(Part(nodes, 1, k), new), c))
                   = Cat(Cat(Spells(nodes, 1, k), Render(new)), Render(c))
            BY <2>3, <2>7, <2>8, <3>1, Regrown
        <3> QED
            BY <3>1, <3>2
    <2> HIDE DEF a
    <2>12. text' = Cat(Cat(Render(a), Render(new)), Render(c))
        BY <2>2, <2>7, <2>9, <2>10, BytesExchanged
    <2>13. nodes' \in Seq(Node) /\ Rooted(lang', nodes') /\ text' = Render(nodes')
        BY <2>2, <2>11, <2>12, <1>2 DEF lang
    <2> QED
        BY <2>13 DEF TreeInv, TreeType, TextIsTree
<1> QED
    BY <1>1, <1>2 DEF PatchSymbol, Call

-----------------------------------------------------------------------------
(* ensure_import                                                            *)

LEMMA NewLineType ==
    /\ NewLine \in Text
    /\ NewLine \in {<<"\n">>, <<"\r", "\n">>, <<"\r">>}
    /\ Breaks(text) # {} => NewLine \in {<<"\n">>, <<"\r", "\n">>}
<1>1. "\n" \in Char /\ "\r" \in Char
    BY LabelsAssumption
<1>2. \A c, d \in Char : <<c>> \in Seq(Char) /\ <<c, d>> \in Seq(Char)
    OBVIOUS
<1>3. <<"\n">> \in Text /\ <<"\r", "\n">> \in Text /\ <<"\r">> \in Text
    BY <1>1, <1>2 DEF Text
<1> QED
    BY <1>3, Zenon DEF NewLine, DetectLineEnding

(* An import with the line ends of the file is a text, and as it was when it *)
(* is one line.                                                             *)
LEMMA PiecesType ==
    ASSUME NEW spec \in Text, NEW ending \in Text, NEW pieces,
           pieces = [p \in DOMAIN spec |-> IF spec[p] = "\n" THEN ending ELSE <<spec[p]>>]
    PROVE  /\ Len(spec) \in Nat /\ pieces = [i \in 1..Len(spec) |-> pieces[i]]
           /\ \A i \in 1..Len(spec) :
                 /\ pieces[i] \in Seq(Char) /\ spec[i] \in Char
                 /\ spec[i] # "\n" => pieces[i] = <<spec[i]>>
<1>1. Len(spec) \in Nat /\ DOMAIN spec = 1..Len(spec) /\ \A i \in 1..Len(spec) : spec[i] \in Char
    BY LenProperties, ElementOfSeq DEF Text
<1>2. pieces = [i \in 1..Len(spec) |-> pieces[i]]
    BY <1>1
<1>3. \A i \in 1..Len(spec) : pieces[i] = IF spec[i] = "\n" THEN ending ELSE <<spec[i]>>
    BY <1>1
<1>4. \A c \in Char : <<c>> \in Seq(Char)
    OBVIOUS
<1> QED
    BY <1>1, <1>2, <1>3, <1>4 DEF Text

LEMMA WithEndingsType ==
    ASSUME NEW spec \in Text
    PROVE  WithEndings(spec, NewLine) \in Text
<1> DEFINE pieces == [p \in DOMAIN spec |-> IF spec[p] = "\n" THEN NewLine ELSE <<spec[p]>>]
<1>1. /\ Len(spec) \in Nat /\ pieces = [i \in 1..Len(spec) |-> pieces[i]]
      /\ \A i \in 1..Len(spec) : pieces[i] \in Seq(Char)
    BY NewLineType, PiecesType
<1>2. WithEndings(spec, NewLine) = FlattenSeq(pieces)
    BY DEF WithEndings
<1> HIDE DEF pieces
<1> QED
    BY <1>1, <1>2, FlattenType DEF Text

LEMMA OneLineAsItWas ==
    ASSUME NEW spec \in Text, Breaks(spec) = {}
    PROVE  WithEndings(spec, NewLine) = spec
<1> DEFINE pieces == [p \in DOMAIN spec |-> IF spec[p] = "\n" THEN NewLine ELSE <<spec[p]>>]
           n == Len(spec)
<1>1. /\ n \in Nat /\ pieces = [i \in 1..n |-> pieces[i]]
      /\ \A i \in 1..n :
            pieces[i] \in Seq(Char) /\ spec[i] \in Char /\ (spec[i] # "\n" => pieces[i] = <<spec[i]>>)
    BY NewLineType, PiecesType
<1>2. WithEndings(spec, NewLine) = FlattenSeq(pieces)
    BY DEF WithEndings
<1>3. \A i \in 1..n : spec[i] # "\n"
    BY LenProperties DEF Text, Breaks
<1>4. \A i \in 1..n : pieces[i] = <<spec[i]>>
    BY <1>1, <1>3
<1>5. spec \in Seq(Char)
    BY DEF Text
<1> HIDE DEF pieces
<1>6. pieces \in Seq(Seq(Char)) /\ Len(pieces) = n /\ DOMAIN pieces = 1..n
    <2> HIDE DEF n
    <2>1. pieces \in Seq(Seq(Char))
        BY <1>1
    <2>2. DOMAIN pieces = 1..n
        BY <1>1
    <2> QED
        BY <1>1, <2>1, <2>2, LenProperties
<1>7. CASE n = 0
    <2>1. pieces = <<>> /\ spec = <<>>
        BY <1>5, <1>6, <1>7, EmptySeq
    <2>2. FlattenSeq(pieces) = pieces
        BY <1>6, <1>7 DEF FlattenSeq
    <2> QED
        BY <1>2, <2>1, <2>2
<1>8. CASE n # 0
    <2>1. PICK f : /\ FlattenSeq(pieces) = f[n]
                   /\ \A i \in 1..n : f[i] = IF i = 1 THEN pieces[i] ELSE f[i - 1] \o pieces[i]
        <3> HIDE DEF n
        <3>1. Len(pieces) \in Nat \ {0} /\ Len(pieces) = n
            BY <1>1, <1>6, <1>8
        <3> QED
            BY <3>1, Flattening
    <2> DEFINE Ns == {k \in Nat : k \in 1..n =>
                        /\ f[k] \in Seq(Char) /\ Len(f[k]) = k /\ \A i \in 1..k : f[k][i] = spec[i]}
    <2>2. 0 \in Ns
        OBVIOUS
    <2>3. ASSUME NEW k \in Nat, k \in Ns
          PROVE  k + 1 \in Ns
        <3> DEFINE m == k + 1
        <3> SUFFICES ASSUME m \in 1..n
                     PROVE  f[m] \in Seq(Char) /\ Len(f[m]) = m /\ \A i \in 1..m : f[m][i] = spec[i]
            OBVIOUS
        <3>1. /\ pieces[m] = <<spec[m]>> /\ <<spec[m]>> \in Seq(Char)
              /\ Len(<<spec[m]>>) = 1 /\ <<spec[m]>>[1] = spec[m]
            BY <1>1, <1>4
        <3>2. CASE k = 0
            <4>1. m = 1 /\ f[m] = <<spec[m]>>
                BY <2>1, <3>1, <3>2
            <4> QED
                BY <3>1, <4>1
        <3>3. CASE k # 0
            <4>1. k \in 1..n /\ m # 1 /\ m - 1 = k
                BY <3>3
            <4> DEFINE g == f[k]
                       one == <<spec[m]>>
            <4>2. f[m] = Cat(g, one)
                BY <4>1, <2>1, <3>1 DEF Cat
            <4>3. g \in Seq(Char) /\ Len(g) = k /\ \A i \in 1..k : g[i] = spec[i]
                BY <4>1, <2>3
            <4> HIDE DEF g
            <4>4. /\ Cat(g, one) \in Seq(Char) /\ Len(Cat(g, one)) = k + 1
                  /\ \A i \in 1..(k + 1) : Cat(g, one)[i] = IF i <= k THEN g[i] ELSE one[i - k]
                <5> HIDE DEF one
                <5>1. one \in Seq(Char) /\ Len(one) = 1
                    BY <3>1 DEF one
                <5>2. /\ Cat(g, one) \in Seq(Char) /\ Len(Cat(g, one)) = Len(g) + Len(one)
                      /\ \A i \in 1..(Len(g) + Len(one)) :
                            Cat(g, one)[i] = IF i <= Len(g) THEN g[i] ELSE one[i - Len(g)]
                    BY <4>3, <5>1, Elements
                <5> QED
                    BY <4>3, <5>1, <5>2
            <4>5. ASSUME NEW i \in 1..m PROVE f[m][i] = spec[i]
                <5>1. CASE i <= k
                    BY <4>2, <4>3, <4>4, <5>1
                <5>2. CASE ~(i <= k)
                    <6>1. i = m /\ i - k = 1
                        BY <5>2
                    <6> QED
                        BY <3>1, <4>2, <4>4, <5>2, <6>1
                <5> QED
                    BY <5>1, <5>2
            <4> QED
                BY <4>2, <4>4, <4>5
        <3> QED
            BY <3>2, <3>3
    <2> HIDE DEF Ns
    <2>4. Nat \subseteq Ns
        BY <2>2, <2>3, Induction
    <2>5. n \in Ns /\ n \in 1..n
        BY <2>4, <1>1, <1>8
    <2>6. f[n] \in Seq(Char) /\ Len(f[n]) = n /\ \A i \in 1..n : f[n][i] = spec[i]
        BY <2>5 DEF Ns
    <2>7. f[n] = spec
        BY <1>5, <2>6, SeqEqual
    <2> QED
        BY <1>2, <2>1, <2>7
<1> QED
    BY <1>7, <1>8

LEMMA GapType ==
    ASSUME NEW d \in Nat
    PROVE  Gap(NewLine, d) \in Node /\ Gap(NewLine, d).text = NewLine
<1>1. \A t \in Text : Gap(t, d) \in Node /\ Gap(t, d).text = t
    BY LabelsAssumption DEF Gap, Node
<1> QED
    BY <1>1, NewLineType

LEMMA ImportNodeType ==
    ASSUME path.ext \in Supported, NEW spec \in Text, NEW d \in Nat
    PROVE  /\ ImportNode(spec, d) \in Node
           /\ ImportNode(spec, d).text = spec /\ ImportNode(spec, d).depth = d
           /\ "Import" \in DOMAIN lang.items =>
                ImportNode(spec, d).kind \in lang.items.Import \ {"call"}
<1>1. "Import" \in DOMAIN lang.items =>
        lang.items.Import # {} /\ lang.items.Import \subseteq Label \ {"call"}
    BY LanguagesAssumption DEF Supported, lang
<1>2. PICK word : word = IF "Import" \in DOMAIN lang.items
                         THEN CHOOSE k \in lang.items.Import : TRUE ELSE "include"
    OBVIOUS
<1>3. ImportNode(spec, d) = [kind |-> word, field |-> NoField, depth |-> d, text |-> spec]
    BY <1>2 DEF ImportNode
<1>4. "Import" \in DOMAIN lang.items => word \in lang.items.Import
    BY <1>1, <1>2
<1>5. "Import" \notin DOMAIN lang.items => word = "include"
    BY <1>2
<1>6. word \in Label
    <2>1. "include" \in Label
        BY LabelsAssumption
    <2> QED
        BY <2>1, <1>1, <1>4, <1>5
<1>7. [kind |-> word, field |-> NoField, depth |-> d, text |-> spec] \in Node
    BY <1>6, LabelsAssumption DEF Node
<1>8. ImportNode(spec, d).text = spec /\ ImportNode(spec, d).depth = d /\ ImportNode(spec, d).kind = word
    <2>1. \A r : r = [kind |-> word, field |-> NoField, depth |-> d, text |-> spec]
                    => r.text = spec /\ r.depth = d /\ r.kind = word
        OBVIOUS
    <2> QED
        BY <1>3, <2>1
<1>9. "Import" \in DOMAIN lang.items => word \in lang.items.Import \ {"call"}
    BY <1>1, <1>4
<1> QED
    BY <1>3, <1>7, <1>8, <1>9

LEMMA TwoNodes ==
    ASSUME NEW p \in Node, NEW q \in Node
    PROVE  <<p, q>> \in Seq(Node) /\ Render(<<p, q>>) = Cat(p.text, q.text)
<1>1. One(p) \in Seq(Node) /\ <<>> \in Seq(Node) /\ p.text \in Text
    BY Concatenation DEF Node
<1>2. Render(Cat(<<>>, One(p))) = Cat(<<>>, p.text)
    BY <1>1, RenderAppend, RenderNone DEF Cat, One
<1>3. Cat(<<>>, One(p)) = One(p) /\ Cat(<<>>, p.text) = p.text
    BY <1>1, Concatenation DEF Text
<1>4. Render(Cat(One(p), One(q))) = Cat(Render(One(p)), q.text)
    BY <1>1, RenderAppend DEF Cat, One
<1>6. <<p, q>> \in Seq(Node) /\ Len(<<p, q>>) = 2 /\ <<p, q>>[1] = p /\ <<p, q>>[2] = q
    OBVIOUS
<1>5. Cat(One(p), One(q)) = <<p, q>>
    <2>1. /\ One(p) \in Seq(Node) /\ Len(One(p)) = 1 /\ One(p)[1] = p
          /\ One(q) \in Seq(Node) /\ Len(One(q)) = 1 /\ One(q)[1] = q
        BY DEF One
    <2> DEFINE u == Cat(One(p), One(q))
    <2>2. u \in Seq(Node) /\ Len(u) = 1 + 1
        BY <2>1, ConcatProperties DEF Cat
    <2>3. \A i \in 1..(1 + 1) : u[i] = IF i <= 1 THEN One(p)[i] ELSE One(q)[i - 1]
        BY <2>1, ConcatProperties DEF Cat
    <2>4. u[1] = p /\ u[2] = q
        BY <2>1, <2>3
    <2> HIDE DEF u
    <2>5. \A i \in 1..2 : u[i] = <<p, q>>[i]
        <3> TAKE i \in 1..2
        <3>1. i = 1 \/ i = 2
            OBVIOUS
        <3> QED
            BY <3>1, <2>4, <1>6
    <2>6. Len(u) = 2
        BY <2>2
    <2>7. u = <<p, q>>
        BY <2>2, <2>5, <2>6, <1>6, SeqEqual
    <2> QED
        BY <2>7 DEF u
<1> QED
    BY <1>2, <1>3, <1>4, <1>5, <1>6

(* A line put behind the first part of a text.                              *)
LEMMA InsertedBehind ==
    ASSUME NEW x \in Text, NEW z \in Text, NEW spec \in Text, x # <<>>
    PROVE  Inserted(Cat(x, z), Len(x), spec, NewLine) = Cat(Cat(x, Cat(NewLine, spec)), z)
<1> DEFINE t == Cat(x, z)
<1>1. SubSeq(t, 1, Len(x)) = x /\ SubSeq(t, Len(x) + 1, Len(t)) = z
    BY Halves DEF Text, Cat
<1>2. Len(x) # 0
    BY EmptySeq DEF Text
<1> HIDE DEF t
<1>3. Inserted(t, Len(x), spec, NewLine) = Cat(Cat(Cat(x, NewLine), spec), z)
    BY <1>1, <1>2 DEF Inserted, Cat
<1>4. Cat(Cat(x, NewLine), spec) = Cat(x, Cat(NewLine, spec))
    BY Concatenation, NewLineType DEF Text
<1> QED
    BY <1>3, <1>4 DEF t

LEMMA BehindNode ==
    ASSUME TreeInv, path.ext \in Supported, NEW k \in 1..Len(nodes), NEW p \in Node, NEW q \in Node
    PROVE  /\ Behind(k, <<p, q>>) \in Seq(Node) /\ Rooted(lang, Behind(k, <<p, q>>))
           /\ Render(Behind(k, <<p, q>>))
                = Cat(Cat(Spells(nodes, 1, k), Cat(p.text, q.text)), Spells(nodes, k + 1, Len(nodes)))
<1>0. nodes \in Seq(Node) /\ Rooted(lang, nodes) /\ Len(nodes) \in Nat
    BY LenProperties DEF TreeInv, TreeType
<1> DEFINE mid == <<p, q>>
           c == Part(nodes, k + 1, Len(nodes))
<1>1. mid \in Seq(Node) /\ Render(mid) = Cat(p.text, q.text)
    BY TwoNodes
<1>2. c \in Seq(Node)
    <2>1. k + 1 \in 1..(Len(nodes) + 1) /\ Len(nodes) \in ((k + 1) - 1)..Len(nodes)
        BY <1>0
    <2> QED
        BY <1>0, <2>1, PartType
<1>3. Behind(k, mid) = Cat(Cat(Part(nodes, 1, k), mid), c)
    BY DEF Behind, Cat, Part
<1>4. Render(c) = Spells(nodes, k + 1, Len(nodes))
    BY DEF Spells
<1> HIDE DEF mid, c
<1>5. /\ Cat(Cat(Part(nodes, 1, k), mid), c) \in Seq(Node)
      /\ Rooted(lang, Cat(Cat(Part(nodes, 1, k), mid), c))
      /\ Render(Cat(Cat(Part(nodes, 1, k), mid), c))
           = Cat(Cat(Spells(nodes, 1, k), Render(mid)), Render(c))
    BY <1>0, <1>1, <1>2, Regrown
<1> QED
    BY <1>1, <1>3, <1>4, <1>5 DEF mid

(* The text before and behind the end of node k.                            *)
LEMMA TextAround ==
    ASSUME TreeInv, NEW k \in 0..Len(nodes)
    PROVE  /\ text = Cat(Spells(nodes, 1, k), Spells(nodes, k + 1, Len(nodes)))
           /\ Spells(nodes, 1, k) \in Text /\ Spells(nodes, k + 1, Len(nodes)) \in Text
           /\ Len(text) = Len(Spells(nodes, 1, k)) + Len(Spells(nodes, k + 1, Len(nodes)))
<1>0. nodes \in Seq(Node) /\ Len(nodes) \in Nat /\ text = Render(nodes)
    BY LenProperties DEF TreeInv, TreeType, TextIsTree
<1>1. /\ 1 \in 1..(Len(nodes) + 1) /\ k \in (1 - 1)..Len(nodes)
      /\ k + 1 \in 1..(Len(nodes) + 1) /\ Len(nodes) \in ((k + 1) - 1)..Len(nodes)
    BY <1>0
<1>2. text = Cat(Spells(nodes, 1, k), Spells(nodes, k + 1, Len(nodes)))
    BY <1>0, <1>1, Apart
<1>3. Spells(nodes, 1, k) \in Text /\ Spells(nodes, k + 1, Len(nodes)) \in Text
    BY <1>0, <1>1, PartType
<1> QED
    BY <1>2, <1>3, ConcatProperties DEF Text, Cat

LEMMA TextGrows ==
    ASSUME TreeInv, NEW k \in 1..Len(nodes)
    PROVE  /\ Spells(nodes, 1, k) = Cat(Spells(nodes, 1, k - 1), nodes[k].text)
           /\ Spells(nodes, 1, k - 1) \in Text /\ nodes[k].text \in Text /\ nodes[k] \in Node
           /\ Len(Spells(nodes, 1, k)) = Len(Spells(nodes, 1, k - 1)) + Len(nodes[k].text)
           /\ Len(Spells(nodes, 1, k - 1)) \in Nat /\ Len(nodes[k].text) \in Nat
    BY SpeltNext, OneNode DEF TreeInv, TreeType

LEMMA NoneBefore == Spells(nodes, 1, 0) = <<>> /\ Len(Spells(nodes, 1, 0)) = 0
<1>1. Part(nodes, 1, 0) = <<>>
    BY SubSeqEmpty DEF Part
<1> QED
    BY <1>1, RenderNone, EmptySeq DEF Spells

(* Where an import goes, and how the text around it is spelt.               *)
LEMMA AtTop ==
    ASSUME TreeInv, path.ext \in Supported, NEW spec \in Text, NEW imports, NEW ran
    PROVE  /\ Grown(imports, 0, ran, spec, NewLine) \in Seq(Node)
           /\ Rooted(lang, Grown(imports, 0, ran, spec, NewLine))
           /\ Inserted(text, 0, spec, NewLine) = Render(Grown(imports, 0, ran, spec, NewLine))
<1> DEFINE p == ImportNode(spec, 1)
           q == Gap(NewLine, 1)
           z == Spells(nodes, 2, Len(nodes))
<1>0. nodes \in Seq(Node) /\ Rooted(lang, nodes) /\ Len(nodes) \in Nat
    BY LenProperties DEF TreeInv, TreeType
<1>1. 1 \in 1..Len(nodes) /\ nodes[1].text = <<>>
    <2>1. nodes # <<>> /\ nodes[1].text = <<>>
        BY <1>0 DEF Rooted
    <2>2. Len(nodes) # 0
        BY <1>0, <2>1, EmptySeq
    <2> QED
        BY <1>0, <2>1, <2>2
<1>2. /\ p \in Node /\ p.text = spec /\ q \in Node /\ q.text = NewLine
    <2>1. 1 \in Nat
        OBVIOUS
    <2> QED
        BY <2>1, ImportNodeType, GapType
<1>3. Grown(imports, 0, ran, spec, NewLine) = Behind(1, <<p, q>>)
    BY DEF Grown
<1> HIDE DEF p, q
<1>4. /\ Behind(1, <<p, q>>) \in Seq(Node) /\ Rooted(lang, Behind(1, <<p, q>>))
      /\ Render(Behind(1, <<p, q>>)) = Cat(Cat(Spells(nodes, 1, 1), Cat(spec, NewLine)), z)
    <2>1. 1 + 1 = 2
        OBVIOUS
    <2> QED
        BY <1>1, <1>2, <2>1, BehindNode
<1>5. Spells(nodes, 1, 1) = <<>>
    BY <1>0, <1>1, OneNode
<1>6. text = Cat(<<>>, z) /\ z \in Text
    <2>1. 1 \in 0..Len(nodes) /\ 1 + 1 = 2
        BY <1>1
    <2> QED
        BY <1>5, <2>1, TextAround
<1>7. text = z /\ Cat(<<>>, Cat(spec, NewLine)) = Cat(spec, NewLine)
    BY <1>6, NewLineType, Concatenation DEF Text
<1>8. Inserted(text, 0, spec, NewLine) = Cat(Cat(spec, NewLine), text)
    BY DEF Inserted, Cat
<1> QED
    BY <1>3, <1>4, <1>5, <1>7, <1>8

LEMMA BehindImport ==
    ASSUME TreeInv, path.ext \in Supported, NEW spec \in Text, NEW k \in 1..Len(nodes),
           NEW d \in Nat, NEW byte, byte = Len(Spells(nodes, 1, k)), byte # 0
    PROVE  LET new == Behind(k, <<Gap(NewLine, d), ImportNode(spec, d)>>)
           IN  new \in Seq(Node) /\ Rooted(lang, new) /\ Inserted(text, byte, spec, NewLine) = Render(new)
<1> DEFINE p == Gap(NewLine, d)
           q == ImportNode(spec, d)
           x == Spells(nodes, 1, k)
           z == Spells(nodes, k + 1, Len(nodes))
<1>1. p \in Node /\ p.text = NewLine /\ q \in Node /\ q.text = spec
    BY ImportNodeType, GapType
<1>2. text = Cat(x, z) /\ x \in Text /\ z \in Text
    <2>1. k \in 0..Len(nodes)
        OBVIOUS
    <2> QED
        BY <2>1, TextAround
<1> HIDE DEF p, q
<1>3. /\ Behind(k, <<p, q>>) \in Seq(Node) /\ Rooted(lang, Behind(k, <<p, q>>))
      /\ Render(Behind(k, <<p, q>>)) = Cat(Cat(x, Cat(NewLine, spec)), z)
    BY <1>1, BehindNode
<1>4. Len(x) = byte
    OBVIOUS
<1> HIDE DEF x, z
<1>5. x # <<>>
    BY <1>4, EmptySeq
<1>6. Inserted(text, byte, spec, NewLine) = Cat(Cat(x, Cat(NewLine, spec)), z)
    BY <1>2, <1>4, <1>5, InsertedBehind
<1> QED
    BY <1>3, <1>6 DEF p, q

(* The node that an import is put behind ends where its text is inserted.   *)
LEMMA LastImport ==
    ASSUME TreeInv, path.ext \in Supported, Imports(nodes) # {}
    PROVE  \E i \in Imports(nodes) : Bytes(nodes, i).to = InsertionByte(text, nodes, Imports(nodes))
<1> DEFINE imports == Imports(nodes)
           ends == {Bytes(nodes, i).to : i \in imports}
<1>0. nodes \in Seq(Node) /\ Rooted(lang, nodes) /\ Len(nodes) \in Nat /\ text \in Text
      /\ Len(text) \in Nat
    BY LenProperties, TextOfTree DEF TreeInv, TreeType, Text
<1>1. ASSUME NEW i \in imports
      PROVE  Bytes(nodes, i).to \in 0..Len(text)
    <2>1. i \in 1..Len(nodes)
        BY <1>0, ItemsBelow DEF Imports
    <2>2. LastOf(nodes, i) \in 0..Len(nodes)
        BY <1>0, <2>1, LastBelow
    <2> DEFINE L == LastOf(nodes, i)
               x == Spells(nodes, 1, L)
               z == Spells(nodes, L + 1, Len(nodes))
    <2>3. Bytes(nodes, i).to = Len(x)
        BY DEF Bytes, Spells, Part
    <2>4. x \in Text /\ z \in Text /\ Len(text) = Len(x) + Len(z)
        BY <2>2, TextAround
    <2> HIDE DEF x, z
    <2>5. Len(x) \in Nat /\ Len(z) \in Nat
        BY <2>4, LenProperties DEF Text
    <2> QED
        BY <2>3, <2>4, <2>5
<1>2. ends \subseteq 0..Len(text) /\ ends # {}
    BY <1>1
<1>3. InsertionByte(text, nodes, imports) = Max(ends)
    BY DEF InsertionByte
<1> HIDE DEF ends
<1>4. Max(ends) \in ends
    BY <1>0, <1>2, GreatestOf
<1> QED
    BY <1>3, <1>4 DEF ends

LEMMA AmongImports ==
    ASSUME TreeInv, path.ext \in Supported, NEW spec \in Text, NEW ran, Imports(nodes) # {},
           NEW byte, byte = InsertionByte(text, nodes, Imports(nodes)), byte # 0
    PROVE  \E i \in Imports(nodes) :
              /\ i \in 2..Len(nodes) /\ LastOf(nodes, i) \in 1..Len(nodes)
              /\ nodes[i].depth \in Nat
              /\ Grown(Imports(nodes), byte, ran, spec, NewLine)
                   = Behind(LastOf(nodes, i), <<Gap(NewLine, nodes[i].depth),
                                                ImportNode(spec, nodes[i].depth)>>)
              /\ byte = Len(Spells(nodes, 1, LastOf(nodes, i)))
<1> DEFINE i == CHOOSE i \in Imports(nodes) : Bytes(nodes, i).to = byte
<1>0. nodes \in Seq(Node) /\ Rooted(lang, nodes) /\ Len(nodes) \in Nat
    BY LenProperties DEF TreeInv, TreeType
<1>1. i \in Imports(nodes) /\ Bytes(nodes, i).to = byte
    BY LastImport
<1>2. Grown(Imports(nodes), byte, ran, spec, NewLine)
        = Behind(LastOf(nodes, i), <<Gap(NewLine, nodes[i].depth),
                                     ImportNode(spec, nodes[i].depth)>>)
    BY DEF Grown
<1> HIDE DEF i
<1>3. i \in 2..Len(nodes)
    BY <1>0, <1>1, ItemsBelow DEF Imports
<1>4. LastOf(nodes, i) \in 1..Len(nodes)
    <2>1. i \in 1..Len(nodes)
        BY <1>3
    <2>2. LastOf(nodes, i) \in i..Len(nodes)
        BY <1>0, <2>1, LastBelow
    <2> QED
        BY <1>0, <1>3, <2>2
<1>5. Bytes(nodes, i).to = Len(Spells(nodes, 1, LastOf(nodes, i)))
    BY DEF Bytes, Spells, Part
<1>6. nodes[i].depth \in Nat
    <2>1. nodes[i] \in Node
        BY <1>0, <1>3, ElementOfSeq
    <2> QED
        BY <2>1 DEF Node
<1> QED
    BY <1>1, <1>2, <1>3, <1>4, <1>5, <1>6

LEMMA HeaderByte ==
    ASSUME TreeInv, NEW byte, byte = InsertionByte(text, nodes, {}), byte # 0
    PROVE  byte \in Breaks(text) /\ byte \in 1..Len(text) /\ \A p \in Breaks(text) : byte <= p
<1>0. text \in Text /\ DOMAIN text = 1..Len(text) /\ Len(text) \in Nat
    BY LenProperties, TextOfTree DEF Text
<1>1. byte = Min(Breaks(text)) /\ Breaks(text) # {}
    BY DEF InsertionByte
<1>2. Breaks(text) \subseteq Nat /\ Breaks(text) \subseteq 1..Len(text)
    BY <1>0 DEF Breaks
<1>3. byte \in Breaks(text) /\ \A p \in Breaks(text) : byte <= p
    BY <1>1, <1>2, LeastOf
<1> QED
    BY <1>2, <1>3

LEMMA TokenOver ==
    ASSUME TreeInv, path.ext \in Supported, NEW byte \in 1..Len(text)
    PROVE  /\ NodeOver(byte) \in 2..Len(nodes)
           /\ Len(Spells(nodes, 1, NodeOver(byte))) >= byte
           /\ Len(Spells(nodes, 1, NodeOver(byte) - 1)) < byte
<1> DEFINE K == {k \in DOMAIN nodes : Len(Spells(nodes, 1, k)) >= byte}
           m == Min(K)
<1>0. /\ nodes \in Seq(Node) /\ Rooted(lang, nodes) /\ Len(nodes) \in Nat
      /\ DOMAIN nodes = 1..Len(nodes) /\ text = Render(nodes) /\ Len(text) \in Nat
    <2>1. text \in Text
        BY TextOfTree
    <2> QED
        BY <2>1, LenProperties DEF TreeInv, TreeType, TextIsTree, Text
<1>1. NodeOver(byte) = m
    BY DEF NodeOver, Spells, Part
<1>2. nodes # <<>> /\ nodes[1].text = <<>> /\ Len(nodes) \in 1..Len(nodes)
    <2>1. nodes # <<>> /\ nodes[1].text = <<>>
        BY <1>0 DEF Rooted
    <2>2. Len(nodes) # 0
        BY <1>0, <2>1, EmptySeq
    <2> QED
        BY <2>1, <2>2, <1>0
<1>3. Len(nodes) \in K
    <2>1. Spells(nodes, 1, Len(nodes)) = text
        BY <1>0, SubSeqFull DEF Spells, Part
    <2> QED
        BY <2>1, <1>0, <1>2
<1>4. K \subseteq Nat
    BY <1>0
<1>5. m \in K /\ \A y \in K : m <= y
    BY <1>3, <1>4, LeastOf
<1> HIDE DEF m
<1>6. m \in 1..Len(nodes) /\ Len(Spells(nodes, 1, m)) >= byte
    BY <1>0, <1>5
<1>7. m # 1
    <2>1. Spells(nodes, 1, 1) = <<>>
        BY <1>0, <1>2, OneNode
    <2>2. Len(Spells(nodes, 1, 1)) = 0
        BY <2>1, EmptySeq
    <2> QED
        BY <1>6, <2>2, <1>0
<1>8. Len(Spells(nodes, 1, m - 1)) < byte
    <2>1. m - 1 \in 1..Len(nodes) /\ ~(m <= m - 1) /\ m - 1 \in 0..Len(nodes)
        BY <1>0, <1>6, <1>7
    <2>2. m - 1 \notin K
        BY <2>1, <1>5
    <2>3. ~(Len(Spells(nodes, 1, m - 1)) >= byte)
        BY <2>1, <2>2, <1>0
    <2>4. Len(Spells(nodes, 1, m - 1)) \in Nat
        BY <2>1, TextAround, LenProperties DEF Text
    <2> QED
        BY <2>3, <2>4, <1>0
<1> QED
    BY <1>0, <1>1, <1>6, <1>7, <1>8

(* Another text for node k.                                                 *)
LEMMA Respelt ==
    ASSUME NEW l, NEW ns \in Seq(Node), Rooted(l, ns), NEW k \in 2..Len(ns), NEW t \in Text
    PROVE  LET new == [ns EXCEPT ![k].text = t]
           IN  /\ new \in Seq(Node) /\ Rooted(l, new)
               /\ Render(new) = Cat(Cat(Spells(ns, 1, k - 1), t), Spells(ns, k + 1, Len(ns)))
<1> DEFINE x == [ns[k] EXCEPT !.text = t]
           new == [ns EXCEPT ![k].text = t]
           j == k - 1
           a == Part(ns, 1, j)
           c == Part(ns, k + 1, Len(ns))
           ax == Cat(a, One(x))
           other == Cat(ax, c)
<1>0. Len(ns) \in Nat /\ ns[k] \in Node
    BY LenProperties, ElementOfSeq
<1>1. x \in Node /\ x.text = t
    BY <1>0 DEF Node
<1>2. new = [ns EXCEPT ![k] = x]
    OBVIOUS
<1>3. /\ new \in Seq(Node) /\ Len(new) = Len(ns)
      /\ \A i \in 1..Len(ns) : new[i] = IF i = k THEN x ELSE ns[i]
    <2>1. k \in 1..Len(ns)
        OBVIOUS
    <2> HIDE DEF x, new
    <2> QED
        BY <1>1, <1>2, <2>1, ExceptSeq
<1>4. j \in 1..Len(ns) /\ j \in (1 - 1)..Len(ns) /\ 1 \in 1..(Len(ns) + 1)
      /\ k + 1 \in 1..(Len(ns) + 1) /\ Len(ns) \in ((k + 1) - 1)..Len(ns) /\ j - 1 + 1 = j
      /\ Len(ns) - (k + 1) + 1 = Len(ns) - k /\ j + 1 = k
    BY <1>0
<1>5. /\ a \in Seq(Node) /\ Len(a) = j /\ \A i \in 1..j : a[i] = ns[1 + i - 1]
    <2>1. Len(a) = j - 1 + 1 /\ \A i \in 1..(j - 1 + 1) : a[i] = ns[1 + i - 1]
        BY <1>4, PartType
    <2> QED
        BY <2>1, <1>4, PartType
<1>6. /\ c \in Seq(Node) /\ Len(c) = Len(ns) - k
      /\ \A i \in 1..(Len(ns) - k) : c[i] = ns[k + 1 + i - 1]
    <2>1. Len(c) = Len(ns) - (k + 1) + 1
          /\ \A i \in 1..(Len(ns) - (k + 1) + 1) : c[i] = ns[k + 1 + i - 1]
        BY <1>4, PartType
    <2> HIDE DEF c
    <2> QED
        BY <2>1, <1>4, PartType DEF c
<1>7. One(x) \in Seq(Node) /\ Len(One(x)) = 1 /\ One(x)[1] = x
    BY <1>1 DEF One
<1> HIDE DEF a, c, x, j, new
<1>8. ax \in Seq(Node) /\ Len(ax) = k /\ \A i \in 1..k : ax[i] = IF i = k THEN x ELSE ns[i]
    <2>1. ax \in Seq(Node) /\ Len(ax) = j + 1
          /\ \A i \in 1..(j + 1) : ax[i] = IF i <= j THEN a[i] ELSE One(x)[i - j]
        <3>1. /\ ax \in Seq(Node) /\ Len(ax) = Len(a) + Len(One(x))
              /\ \A i \in 1..(Len(a) + Len(One(x))) :
                    ax[i] = IF i <= Len(a) THEN a[i] ELSE One(x)[i - Len(a)]
            BY <1>5, <1>7, Elements
        <3> HIDE DEF ax
        <3> QED
            BY <3>1, <1>5, <1>7
    <2> HIDE DEF ax
    <2>2. \A i \in 1..k : ax[i] = IF i = k THEN x ELSE ns[i]
        <3> TAKE i \in 1..k
        <3>1. CASE i = k
            <4>1. i \in 1..(j + 1) /\ ~(i <= j) /\ i - j = 1
                BY <3>1, <1>4
            <4> QED
                BY <2>1, <4>1, <3>1, <1>7
        <3>2. CASE i # k
            <4>1. i \in 1..(j + 1) /\ i <= j /\ i \in 1..j /\ 1 + i - 1 = i
                BY <3>2, <1>4
            <4> QED
                BY <2>1, <4>1, <3>2, <1>5
        <3> QED
            BY <3>1, <3>2
    <2> QED
        BY <2>1, <2>2, <1>4
<1> HIDE DEF ax
<1>9. other = new
    <2>1. other \in Seq(Node) /\ Len(other) = k + (Len(ns) - k)
          /\ \A i \in 1..(k + (Len(ns) - k)) : other[i] = IF i <= k THEN ax[i] ELSE c[i - k]
        <3>1. /\ other \in Seq(Node) /\ Len(other) = Len(ax) + Len(c)
              /\ \A i \in 1..(Len(ax) + Len(c)) :
                    other[i] = IF i <= Len(ax) THEN ax[i] ELSE c[i - Len(ax)]
            BY <1>6, <1>8, Elements
        <3> HIDE DEF other
        <3> QED
            BY <3>1, <1>6, <1>8
    <2> HIDE DEF other
    <2>2. k + (Len(ns) - k) = Len(ns)
        BY <1>0
    <2>3. \A i \in 1..Len(ns) : other[i] = new[i]
        <3> TAKE i \in 1..Len(ns)
        <3>1. CASE i <= k
            <4>1. i \in 1..k /\ i \in 1..(k + (Len(ns) - k))
                BY <3>1, <2>2
            <4> QED
                BY <4>1, <3>1, <2>1, <1>8, <1>3
        <3>2. CASE ~(i <= k)
            <4>1. i - k \in 1..(Len(ns) - k) /\ k + 1 + (i - k) - 1 = i /\ i # k
                  /\ i \in 1..(k + (Len(ns) - k))
                BY <3>2, <1>0
            <4>2. c[i - k] = ns[i]
                BY <4>1, <1>6
            <4> QED
                BY <4>1, <4>2, <3>2, <2>1, <1>3
        <3> QED
            BY <3>1, <3>2
    <2> QED
        BY <2>1, <2>2, <2>3, <1>3, SeqEqual
<1>10. Render(One(x)) = t
    <2>1. <<>> \in Seq(Node) /\ Cat(<<>>, One(x)) = One(x) /\ Cat(<<>>, t) = t
        BY <1>7, Concatenation DEF Text
    <2>2. Render(Cat(<<>>, One(x))) = Cat(<<>>, x.text)
        BY <1>1, <2>1, RenderAppend, RenderNone DEF Cat, One
    <2> QED
        BY <2>1, <2>2, <1>1
<1>11. /\ Render(c) = Spells(ns, k + 1, Len(ns)) /\ a = Part(ns, 1, j)
       /\ Spells(ns, 1, j) = Spells(ns, 1, k - 1)
    BY DEF c, a, j, Spells
<1>12. /\ other \in Seq(Node) /\ Rooted(l, other)
       /\ Render(other) = Cat(Cat(Spells(ns, 1, j), Render(One(x))), Render(c))
    <2>1. /\ Cat(Cat(Part(ns, 1, j), One(x)), c) \in Seq(Node)
          /\ Rooted(l, Cat(Cat(Part(ns, 1, j), One(x)), c))
          /\ Render(Cat(Cat(Part(ns, 1, j), One(x)), c))
               = Cat(Cat(Spells(ns, 1, j), Render(One(x))), Render(c))
        BY <1>4, <1>6, <1>7, Regrown
    <2> QED
        BY <2>1, <1>11 DEF ax
<1> HIDE DEF other
<1> QED
    BY <1>9, <1>10, <1>11, <1>12 DEF new

LEMMA Regroup ==
    \A a, b, c, d, e \in Text :
        /\ Cat(Cat(a, b), Cat(d, e)) = Cat(Cat(a, Cat(b, d)), e)
        /\ Cat(Cat(Cat(a, b), c), Cat(d, e)) = Cat(Cat(a, Cat(Cat(b, c), d)), e)
<1> TAKE a, b, c, d, e \in Text
<1>0. /\ \A s, t \in Text : Cat(s, t) \in Text
      /\ \A s, t, u \in Text : Cat(Cat(s, t), u) = Cat(s, Cat(t, u))
    BY Concatenation DEF Text
<1>1. Cat(Cat(a, b), Cat(d, e)) = Cat(Cat(a, Cat(b, d)), e)
    BY <1>0
<1>2. Cat(b, c) \in Text /\ Cat(Cat(a, b), c) = Cat(a, Cat(b, c))
    BY <1>0
<1>3. Cat(Cat(a, Cat(b, c)), Cat(d, e)) = Cat(Cat(a, Cat(Cat(b, c), d)), e)
    BY <1>0, <1>2
<1> QED
    BY <1>1, <1>2, <1>3

LEMMA InToken ==
    ASSUME TreeInv, path.ext \in Supported, NEW spec \in Text, NEW byte \in 1..Len(text),
           NEW k, k = NodeOver(byte), NEW inside, inside = byte - Len(Spells(nodes, 1, k - 1)),
           inside < Len(nodes[k].text)
    PROVE  LET new == [nodes EXCEPT ![k].text = Inserted(nodes[k].text, inside, spec, NewLine)]
           IN  new \in Seq(Node) /\ Rooted(lang, new) /\ Inserted(text, byte, spec, NewLine) = Render(new)
<1> DEFINE x == Spells(nodes, 1, k - 1)
           y == nodes[k].text
           z == Spells(nodes, k + 1, Len(nodes))
           y1 == SubSeq(y, 1, inside)
           y2 == SubSeq(y, inside + 1, Len(y))
           m == Cat(NewLine, spec)
           t == Inserted(y, inside, spec, NewLine)
           new == [nodes EXCEPT ![k].text = t]
<1>0. /\ nodes \in Seq(Node) /\ Rooted(lang, nodes) /\ Len(nodes) \in Nat /\ text \in Text
      /\ Len(text) \in Nat
    BY LenProperties, TextOfTree DEF TreeInv, TreeType, Text
<1>1. k \in 2..Len(nodes) /\ Len(x) < byte /\ k \in 1..Len(nodes)
    BY <1>0, TokenOver
<1>2. /\ Spells(nodes, 1, k) = Cat(x, y) /\ x \in Text /\ y \in Text
      /\ Len(x) \in Nat /\ Len(y) \in Nat
    BY <1>1, TextGrows
<1>3. text = Cat(Cat(x, y), z) /\ z \in Text
    <2>1. k \in 0..Len(nodes)
        BY <1>0, <1>1
    <2> QED
        BY <2>1, <1>2, TextAround
<1>4. inside \in 1..Len(y) /\ byte = Len(x) + inside
    <2>1. inside = byte - Len(x) /\ inside < Len(y) /\ byte \in Nat
        BY <1>0
    <2> HIDE DEF x, y
    <2> QED
        BY <2>1, <1>1, <1>2
<1> HIDE DEF x, z
<1>5. /\ y1 \in Text /\ Len(y1) = inside /\ y2 \in Text /\ y = Cat(y1, y2)
    <2> HIDE DEF y
    <2>1. /\ 1 \in 1..(Len(y) + 1) /\ inside \in (1 - 1)..Len(y) /\ Len(y) \in inside..Len(y)
          /\ 1 \in Int /\ inside \in Int /\ inside + 1 \in Int /\ Len(y) \in Int
          /\ 1 <= inside /\ inside - 1 + 1 = inside
        BY <1>2, <1>4
    <2>2. \A i \in 1..Len(y) : y[i] \in Char
        BY <1>2, ElementOfSeq DEF Text
    <2>3. y1 \in Text /\ Len(y1) = inside
        <3>1. \A i \in 1..inside : y[i] \in Char
            BY <2>1, <2>2
        <3> QED
            BY <2>1, <3>1, SubSeqProperties DEF Text
    <2>4. y2 \in Text
        <3>1. \A i \in (inside + 1)..Len(y) : y[i] \in Char
            BY <1>4, <2>2
        <3> QED
            BY <2>1, <3>1, SubSeqProperties DEF Text
    <2>5. Cat(y1, y2) = SubSeq(y, 1, Len(y))
        BY <1>2, <2>1, ConcatAdjacentSubSeq DEF Cat, Text
    <2>6. SubSeq(y, 1, Len(y)) = y
        BY <1>2, SubSeqFull DEF Text
    <2> QED
        BY <2>3, <2>4, <2>5, <2>6
<1> HIDE DEF y, y1, y2
<1>6. m \in Text /\ Cat(x, y1) \in Text /\ Cat(y2, z) \in Text
    BY <1>2, <1>3, <1>5, NewLineType, Concatenation DEF Text
<1>7. Len(Cat(x, y1)) = byte /\ y1 # <<>> /\ Cat(x, y1) # <<>>
    <2>1. Len(Cat(x, y1)) = Len(x) + Len(y1)
        BY <1>2, <1>5, Elements DEF Text
    <2>2. Len(y1) # 0 /\ Len(Cat(x, y1)) # 0
        BY <2>1, <1>2, <1>4, <1>5
    <2> QED
        BY <2>1, <2>2, <1>4, <1>5, EmptySeq
<1>8. t = Cat(Cat(y1, m), y2) /\ t \in Text
    <2>1. Inserted(Cat(y1, y2), Len(y1), spec, NewLine) = Cat(Cat(y1, m), y2)
        BY <1>5, <1>7, InsertedBehind
    <2>2. Cat(Cat(y1, m), y2) \in Text
        <3> HIDE DEF m
        <3> QED
            BY <1>5, <1>6, Concatenation DEF Text
    <2> HIDE DEF m
    <2> QED
        BY <1>5, <2>1, <2>2
<1>9. text = Cat(Cat(x, y1), Cat(y2, z))
    BY <1>2, <1>3, <1>5, Regroup
<1>10. Inserted(text, byte, spec, NewLine) = Cat(Cat(Cat(x, y1), m), Cat(y2, z))
    BY <1>6, <1>7, <1>9, InsertedBehind
<1> HIDE DEF m, t
<1>11. Inserted(text, byte, spec, NewLine) = Cat(Cat(x, t), z)
    BY <1>2, <1>3, <1>5, <1>6, <1>8, <1>10, Regroup
<1>12. new \in Seq(Node) /\ Rooted(lang, new) /\ Render(new) = Cat(Cat(x, t), z)
    BY <1>0, <1>1, <1>8, Respelt DEF x, z
<1> QED
    BY <1>11, <1>12 DEF t, y

(* Run into the node behind: node k ends where the import goes.             *)
RunInto(k, spec) ==
    SubSeq(nodes, 1, k) \o <<Gap(NewLine, 1), [nodes[k + 1] EXCEPT !.text = spec \o @]>>
        \o SubSeq(nodes, k + 2, Len(nodes))

LEMMA RunsIn ==
    ASSUME TreeInv, path.ext \in Supported, NEW spec \in Text, NEW k \in 1..(Len(nodes) - 1),
           NEW byte, byte = Len(Spells(nodes, 1, k)), byte # 0
    PROVE  /\ RunInto(k, spec) \in Seq(Node) /\ Rooted(lang, RunInto(k, spec))
           /\ Inserted(text, byte, spec, NewLine) = Render(RunInto(k, spec))
<1> DEFINE j == k + 1
           x == Spells(nodes, 1, k)
           y == nodes[j].text
           z == Spells(nodes, j + 1, Len(nodes))
           p == Gap(NewLine, 1)
           q == [nodes[j] EXCEPT !.text = spec \o @]
           mid == <<p, q>>
           c == Part(nodes, j + 1, Len(nodes))
<1>0. /\ nodes \in Seq(Node) /\ Rooted(lang, nodes) /\ Len(nodes) \in Nat
    BY LenProperties DEF TreeInv, TreeType
<1>1. /\ j \in 1..Len(nodes) /\ j - 1 = k /\ j + 1 = k + 2 /\ k \in 1..Len(nodes) /\ k \in 0..Len(nodes)
      /\ j \in 0..Len(nodes) /\ j + 1 \in 1..(Len(nodes) + 1) /\ Len(nodes) \in ((j + 1) - 1)..Len(nodes)
    BY <1>0
<1>2. x \in Text /\ y \in Text /\ Spells(nodes, 1, j) = Cat(x, y) /\ nodes[j] \in Node
    BY <1>1, TextGrows
<1>3. text = Cat(Cat(x, y), z) /\ z \in Text
    BY <1>1, <1>2, TextAround
<1>4. p \in Node /\ p.text = NewLine
    <2>1. 1 \in Nat
        OBVIOUS
    <2> QED
        BY <2>1, GapType
<1>5. q \in Node /\ q.text = Cat(spec, y)
    <2>1. Cat(spec, y) \in Text
        BY <1>2, Concatenation DEF Text
    <2>2. q = [nodes[j] EXCEPT !.text = Cat(spec, y)]
        BY DEF Cat
    <2> HIDE DEF y, q, j
    <2> QED
        BY <1>2, <2>1, <2>2 DEF Node
<1> HIDE DEF p, q
<1>6. mid \in Seq(Node) /\ Render(mid) = Cat(NewLine, Cat(spec, y))
    BY <1>4, <1>5, TwoNodes
<1>7. c \in Seq(Node) /\ Render(c) = z
    BY <1>0, <1>1, PartType DEF Spells
<1>8. RunInto(k, spec) = Cat(Cat(Part(nodes, 1, k), mid), c)
    BY <1>1 DEF RunInto, Cat, Part, p, q
<1> HIDE DEF mid, c, z, y
<1>9. /\ RunInto(k, spec) \in Seq(Node) /\ Rooted(lang, RunInto(k, spec))
      /\ Render(RunInto(k, spec)) = Cat(Cat(x, Cat(NewLine, Cat(spec, y))), z)
    <2>1. /\ Cat(Cat(Part(nodes, 1, k), mid), c) \in Seq(Node)
          /\ Rooted(lang, Cat(Cat(Part(nodes, 1, k), mid), c))
          /\ Render(Cat(Cat(Part(nodes, 1, k), mid), c))
               = Cat(Cat(x, Render(mid)), Render(c))
        BY <1>0, <1>1, <1>6, <1>7, Regrown
    <2> QED
        BY <2>1, <1>6, <1>7, <1>8
<1>10. byte = Len(x)
    OBVIOUS
<1> HIDE DEF x
<1>11. x # <<>> /\ Cat(y, z) \in Text /\ Cat(NewLine, spec) \in Text
    BY <1>2, <1>3, <1>10, EmptySeq, NewLineType, Concatenation DEF Text
<1>12. text = Cat(x, Cat(y, z))
    BY <1>2, <1>3, Concatenation DEF Text
<1>13. Inserted(text, byte, spec, NewLine) = Cat(Cat(x, Cat(NewLine, spec)), Cat(y, z))
    BY <1>2, <1>10, <1>11, <1>12, InsertedBehind
<1>14. Cat(Cat(x, Cat(NewLine, spec)), Cat(y, z)) = Cat(Cat(x, Cat(Cat(NewLine, spec), y)), z)
    BY <1>2, <1>3, <1>11, Regroup
<1>15. Cat(Cat(NewLine, spec), y) = Cat(NewLine, Cat(spec, y))
    BY <1>2, NewLineType, Concatenation DEF Text
<1> QED
    BY <1>9, <1>13, <1>14, <1>15

(* Behind a header line, whose end may lie within a token.                  *)
LEMMA BehindHeader ==
    ASSUME TreeInv, path.ext \in Supported, NEW spec \in Text,
           NEW byte, byte = InsertionByte(text, nodes, {}), byte # 0,
           NEW ran, ran = RunsOn(text, {}, byte)
    PROVE  LET new == Grown({}, byte, ran, spec, NewLine)
           IN  new \in Seq(Node) /\ Rooted(lang, new) /\ Inserted(text, byte, spec, NewLine) = Render(new)
<1> DEFINE k == NodeOver(byte)
           inside == byte - Len(Spells(nodes, 1, k - 1))
           new == Grown({}, byte, ran, spec, NewLine)
<1>0. byte \in 1..Len(text) /\ Len(nodes) \in Nat
    BY HeaderByte, LenProperties DEF TreeInv, TreeType
<1>1. /\ k \in 2..Len(nodes) /\ k \in 1..Len(nodes)
      /\ Len(Spells(nodes, 1, k)) >= byte
    BY <1>0, TokenOver
<1>2. new = IF inside < Len(nodes[k].text)
            THEN [nodes EXCEPT ![k].text = Inserted(@, inside, spec, NewLine)]
            ELSE IF ~ran THEN Behind(k, <<Gap(NewLine, 1), ImportNode(spec, 1)>>)
            ELSE RunInto(k, spec)
    BY <1>0 DEF Grown, RunInto, Spells, Part
<1>3. CASE inside < Len(nodes[k].text)
    <2>1. new = [nodes EXCEPT ![k].text = Inserted(nodes[k].text, inside, spec, NewLine)]
        BY <1>2, <1>3
    <2>2. LET other == [nodes EXCEPT ![k].text = Inserted(nodes[k].text, inside, spec, NewLine)]
          IN  other \in Seq(Node) /\ Rooted(lang, other)
              /\ Inserted(text, byte, spec, NewLine) = Render(other)
        BY <1>0, <1>3, InToken
    <2> QED
        BY <2>1, <2>2
<1>4. CASE ~(inside < Len(nodes[k].text))
    <2>1. byte = Len(Spells(nodes, 1, k))
        <3> DEFINE whole == Len(Spells(nodes, 1, k))
                   before == Len(Spells(nodes, 1, k - 1))
                   own == Len(nodes[k].text)
        <3>1. whole = before + own /\ before \in Nat /\ own \in Nat /\ whole >= byte
            BY <1>1, TextGrows
        <3>2. ~(byte - before < own) /\ byte \in Nat
            BY <1>0, <1>4
        <3> HIDE DEF whole, before, own
        <3>3. byte = whole
            BY <3>1, <3>2
        <3> QED
            BY <3>3 DEF whole
    <2>2. CASE ~ran
        <3>1. new = Behind(k, <<Gap(NewLine, 1), ImportNode(spec, 1)>>)
            BY <1>2, <1>4, <2>2
        <3>2. 1 \in Nat
            OBVIOUS
        <3> HIDE DEF k
        <3>3. LET other == Behind(k, <<Gap(NewLine, 1), ImportNode(spec, 1)>>)
              IN  other \in Seq(Node) /\ Rooted(lang, other)
                  /\ Inserted(text, byte, spec, NewLine) = Render(other)
            BY <1>1, <2>1, <3>2, BehindImport
        <3> QED
            BY <3>1, <3>3
    <2>3. CASE ran
        <3>1. new = RunInto(k, spec)
            BY <1>2, <1>4, <2>3
        <3>2. byte # Len(text)
            BY <2>3 DEF RunsOn
        <3>3. Spells(nodes, 1, Len(nodes)) = text
            <4>1. nodes \in Seq(Node) /\ text = Render(nodes)
                BY DEF TreeInv, TreeType, TextIsTree
            <4> QED
                BY <4>1, SubSeqFull DEF Spells, Part
        <3>4. k # Len(nodes)
            BY <2>1, <3>2, <3>3
        <3> HIDE DEF k
        <3>5. k \in 1..(Len(nodes) - 1)
            BY <1>0, <1>1, <3>4
        <3>6. /\ RunInto(k, spec) \in Seq(Node) /\ Rooted(lang, RunInto(k, spec))
              /\ Inserted(text, byte, spec, NewLine) = Render(RunInto(k, spec))
            BY <2>1, <3>5, RunsIn
        <3> QED
            BY <3>1, <3>6
    <2> QED
        BY <2>2, <2>3
<1> QED
    BY <1>3, <1>4

(* What a call that writes an import does, in terms of its byte.            *)
Ensured(imports, byte, ran, spec) ==
    /\ imports = Imports(nodes) /\ byte = InsertionByte(text, nodes, imports)
    /\ ran = RunsOn(text, imports, byte)
    /\ text' = Inserted(text, byte, WithEndings(spec, NewLine), NewLine)
    /\ nodes' = Grown(imports, byte, ran, WithEndings(spec, NewLine), NewLine)
    /\ path' = path
    /\ last' = [tool |-> "import", asked |-> [spec |-> spec, ran |-> ran], outcome |-> "written"]

LEMMA ImportCases ==
    ASSUME NEW spec, EnsureImport(spec)
    PROVE  \/ \E asked, why : Refused("import", asked, why) /\ why # "written"
           \/ \E imports, byte, ran : Ensured(imports, byte, ran, spec)
<1> DEFINE imports == Imports(nodes)
           byte == InsertionByte(text, nodes, imports)
           ran == RunsOn(text, imports, byte)
           asked == [spec |-> spec, ran |-> FALSE]
           import == WithEndings(spec, NewLine)
<1>1. \/ \E why \in {"EmptyImportSpec", "SourceHasErrors", "unchanged", "ImportIntroducesErrors"} :
                Refused("import", asked, why)
      \/ /\ text' = Inserted(text, byte, import, NewLine)
         /\ nodes' = Grown(imports, byte, ran, import, NewLine)
         /\ Call("import", [spec |-> spec, ran |-> ran], "written")
    BY DEF EnsureImport, NewLine
<1>2. CASE \E why \in {"EmptyImportSpec", "SourceHasErrors", "unchanged", "ImportIntroducesErrors"} :
                Refused("import", asked, why)
    BY <1>2
<1>3. CASE /\ text' = Inserted(text, byte, import, NewLine)
           /\ nodes' = Grown(imports, byte, ran, import, NewLine)
           /\ Call("import", [spec |-> spec, ran |-> ran], "written")
    BY <1>1, <1>3 DEF Ensured, Call
<1> QED
    BY <1>1, <1>2, <1>3

LEMMA EnsuredKeeps ==
    ASSUME TreeInv, path.ext \in Supported, NEW spec \in Text,
           NEW imports, NEW byte, NEW ran, Ensured(imports, byte, ran, spec)
    PROVE  TreeInv'
<1> DEFINE import == WithEndings(spec, NewLine)
<1>0. import \in Text
    BY WithEndingsType
<1>1. /\ Grown(imports, byte, ran, import, NewLine) \in Seq(Node)
      /\ Rooted(lang, Grown(imports, byte, ran, import, NewLine))
      /\ Inserted(text, byte, import, NewLine) = Render(Grown(imports, byte, ran, import, NewLine))
    <2> HIDE DEF import
    <2>1. CASE byte = 0
        BY <1>0, <2>1, AtTop
    <2>2. CASE byte # 0 /\ imports # {}
        <3>1. Imports(nodes) # {} /\ byte = InsertionByte(text, nodes, Imports(nodes))
              /\ imports = Imports(nodes)
            BY <2>2 DEF Ensured
        <3>2. PICK i \in Imports(nodes) :
              /\ i \in 2..Len(nodes) /\ LastOf(nodes, i) \in 1..Len(nodes)
              /\ nodes[i].depth \in Nat
              /\ Grown(Imports(nodes), byte, ran, import, NewLine)
                   = Behind(LastOf(nodes, i), <<Gap(NewLine, nodes[i].depth),
                                                ImportNode(import, nodes[i].depth)>>)
              /\ byte = Len(Spells(nodes, 1, LastOf(nodes, i)))
            <4>1. TreeInv /\ path.ext \in Supported /\ byte # 0
                BY <2>2
            <4> QED
                BY ONLY <1>0, <3>1, <4>1, AmongImports
        <3> DEFINE L == LastOf(nodes, i)
                   d == nodes[i].depth
                   new == Behind(L, <<Gap(NewLine, d), ImportNode(import, d)>>)
        <3>3. L \in 1..Len(nodes) /\ d \in Nat /\ byte = Len(Spells(nodes, 1, L))
              /\ Grown(imports, byte, ran, import, NewLine) = new
            BY <3>1, <3>2
        <3> HIDE DEF L, d
        <3>4. new \in Seq(Node) /\ Rooted(lang, new) /\ Inserted(text, byte, import, NewLine) = Render(new)
            BY <1>0, <2>2, <3>3, BehindImport
        <3> QED
            BY <3>3, <3>4
    <2>3. CASE byte # 0 /\ imports = {}
        <3>1. byte = InsertionByte(text, nodes, {}) /\ ran = RunsOn(text, {}, byte)
            BY <2>3 DEF Ensured
        <3> QED
            BY <1>0, <2>3, <3>1, BehindHeader
    <2> QED
        BY <2>1, <2>2, <2>3
<1>2. /\ text' = Inserted(text, byte, import, NewLine) /\ nodes' = Grown(imports, byte, ran, import, NewLine)
      /\ path' = path
    BY DEF Ensured
<1>3. nodes' \in Seq(Node) /\ Rooted(lang', nodes') /\ text' = Render(nodes')
    BY <1>1, <1>2 DEF lang
<1> QED
    BY <1>3 DEF TreeInv, TreeType, TextIsTree

LEMMA ImportKeeps ==
    ASSUME TreeInv, path.ext \in Supported, NEW spec \in Specs, EnsureImport(spec)
    PROVE  TreeInv'
<1>1. spec \in Text
    BY NamesAssumption
<1> QED
    BY <1>1, ImportCases, RefusedKeeps, EnsuredKeeps

-----------------------------------------------------------------------------
(* rename_symbol                                                            *)

(* ReplaceRanges chooses the function whose value at i is the text with the  *)
(* ranges among its last i bytes replaced; there is one.                    *)
Replaced(t, ranges, by, f, n) ==
    f = [i \in 0..n |-> IF i = 0 THEN t
                        ELSE ReplaceFrom(f[i - 1], ranges, by, Len(t) + 1 - i)]

LEMMA ReplacedAt ==
    ASSUME NEW t, NEW ranges, NEW by, NEW f, NEW n \in Nat, Replaced(t, ranges, by, f, n)
    PROVE  \A i \in 0..n : f[i] = IF i = 0 THEN t
                                  ELSE ReplaceFrom(f[i - 1], ranges, by, Len(t) + 1 - i)
<1> DEFINE e == [i \in 0..n |-> IF i = 0 THEN t
                                ELSE ReplaceFrom(f[i - 1], ranges, by, Len(t) + 1 - i)]
<1>1. \A i \in 0..n : e[i] = IF i = 0 THEN t
                             ELSE ReplaceFrom(f[i - 1], ranges, by, Len(t) + 1 - i)
    OBVIOUS
<1>2. f = e
    BY DEF Replaced
<1> QED
    BY ONLY <1>1, <1>2

LEMMA ReplacedStep ==
    ASSUME NEW t, NEW ranges, NEW by, NEW f, NEW n \in Nat, Replaced(t, ranges, by, f, n)
    PROVE  \E g : Replaced(t, ranges, by, g, n + 1)
<1> DEFINE F(x, i) == ReplaceFrom(x, ranges, by, Len(t) + 1 - i)
           g == [i \in 0..(n + 1) |-> IF i = 0 THEN t ELSE IF i = n + 1 THEN F(f[n], i) ELSE f[i]]
           h == [i \in 0..(n + 1) |-> IF i = 0 THEN t ELSE F(g[i - 1], i)]
<1>0. \A i \in 0..n : f[i] = IF i = 0 THEN t ELSE F(f[i - 1], i)
    BY ReplacedAt
<1> HIDE DEF F
<1>1. ASSUME NEW i \in 0..(n + 1)
      PROVE  g[i] = h[i]
    <2>1. CASE i = 0
        BY <2>1
    <2>2. CASE i # 0
        <3>1. i - 1 \in 0..n /\ i - 1 \in 0..(n + 1) /\ i - 1 # n + 1
            BY <2>2
        <3>2. g[i - 1] = f[i - 1]
            BY <3>1, <1>0
        <3>3. h[i] = F(f[i - 1], i)
            <4> HIDE DEF g
            <4> QED
                BY <2>2, <3>2
        <3>4. CASE i = n + 1
            <4>1. i - 1 = n
                BY <3>4
            <4>2. g[i] = F(f[n], i)
                BY <2>2, <3>4
            <4> HIDE DEF g, h
            <4> QED
                BY <3>3, <4>1, <4>2
        <3>5. CASE i # n + 1
            <4>1. i \in 0..n
                BY <3>5
            <4>2. g[i] = f[i]
                BY <2>2, <3>5
            <4>3. f[i] = F(f[i - 1], i)
                BY <1>0, <2>2, <4>1
            <4> HIDE DEF g, h
            <4> QED
                BY <3>3, <4>2, <4>3
        <3> QED
            BY <3>4, <3>5
    <2> QED
        BY <2>1, <2>2
<1>2. g = h
    <2>1. g = [i \in 0..(n + 1) |-> g[i]] /\ h = [i \in 0..(n + 1) |-> h[i]]
        OBVIOUS
    <2> HIDE DEF g, h
    <2> QED
        BY <1>1, <2>1
<1>3. Replaced(t, ranges, by, g, n + 1)
    BY <1>2 DEF Replaced, F
<1> QED
    BY <1>3

LEMMA ReplacedExists ==
    \A t, ranges, by : \A n \in Nat : \E f : Replaced(t, ranges, by, f, n)
<1> TAKE t, ranges, by
<1> DEFINE Ns == {n \in Nat : \E f : Replaced(t, ranges, by, f, n)}
<1>1. 0 \in Ns
    <2> DEFINE f == [i \in 0..0 |-> t]
    <2>1. f = [i \in 0..0 |-> IF i = 0 THEN t
                              ELSE ReplaceFrom(f[i - 1], ranges, by, Len(t) + 1 - i)]
        OBVIOUS
    <2>2. Replaced(t, ranges, by, f, 0)
        BY <2>1 DEF Replaced
    <2> QED
        BY <2>2
<1>2. \A n \in Nat : n \in Ns => n + 1 \in Ns
    BY ReplacedStep
<1> HIDE DEF Ns
<1>3. Nat \subseteq Ns
    BY <1>1, <1>2, Induction
<1> QED
    BY <1>3 DEF Ns

(* What ReplaceRanges computes.                                             *)
LEMMA Replacing ==
    ASSUME NEW t \in Text, NEW ranges, NEW by
    PROVE  \E f : /\ ReplaceRanges(t, ranges, by) = f[Len(t) + 1]
                  /\ \A i \in 0..(Len(t) + 1) :
                        f[i] = IF i = 0 THEN t
                               ELSE ReplaceFrom(f[i - 1], ranges, by, Len(t) + 1 - i)
<1> DEFINE N == Len(t) + 1
           F == CHOOSE f : Replaced(t, ranges, by, f, N)
<1>0. N \in Nat
    BY LenProperties DEF Text
<1>1. Replaced(t, ranges, by, F, N)
    BY <1>0, ReplacedExists, Zenon
<1>2. ReplaceRanges(t, ranges, by) = F[N]
    BY DEF ReplaceRanges, Replaced
<1> HIDE DEF F
<1>3. \A i \in 0..N : F[i] = IF i = 0 THEN t
                             ELSE ReplaceFrom(F[i - 1], ranges, by, Len(t) + 1 - i)
    BY <1>0, <1>1, ReplacedAt
<1> QED
    BY <1>2, <1>3

(* The first j nodes as they are in one tree, the others as in the other.   *)
Mixed(ns, new, j) == Cat(Spells(ns, 1, j), Spells(new, j + 1, Len(new)))

LEMMA MixedEnds ==
    ASSUME NEW ns \in Seq(Node), NEW new \in Seq(Node), Len(new) = Len(ns)
    PROVE  Mixed(ns, new, 0) = Render(new) /\ Mixed(ns, new, Len(ns)) = Render(ns)
<1>0. Len(ns) \in Nat
    BY LenProperties
<1>1. Spells(ns, 1, 0) = <<>>
    <2>1. Part(ns, 1, 0) = <<>>
        BY SubSeqEmpty DEF Part
    <2> QED
        BY <2>1, RenderNone DEF Spells
<1>2. Spells(new, 1, Len(new)) = Render(new) /\ Spells(ns, 1, Len(ns)) = Render(ns)
    BY SubSeqFull DEF Spells, Part
<1>3. Spells(new, Len(ns) + 1, Len(new)) = <<>>
    <2>1. Part(new, Len(ns) + 1, Len(ns)) = <<>>
        <3> DEFINE m == Len(ns) + 1
        <3>1. m \in Int /\ Len(ns) \in Int /\ Len(ns) < m
            BY <1>0
        <3> HIDE DEF m
        <3>2. Part(new, m, Len(ns)) = <<>>
            BY <3>1, SubSeqEmpty DEF Part
        <3> QED
            BY <3>2 DEF m
    <2> QED
        BY <2>1, RenderNone DEF Spells
<1>4. Cat(<<>>, Render(new)) = Render(new) /\ Cat(Render(ns), <<>>) = Render(ns)
    BY RenderType, Concatenation DEF Text
<1>5. 0 + 1 = 1
    OBVIOUS
<1> QED
    BY <1>1, <1>2, <1>3, <1>4, <1>5 DEF Mixed

LEMMA MixedStep ==
    ASSUME NEW ns \in Seq(Node), NEW new \in Seq(Node), Len(new) = Len(ns),
           NEW k \in 1..Len(ns)
    PROVE  /\ new[k].text = ns[k].text => Mixed(ns, new, k - 1) = Mixed(ns, new, k)
           /\ Mixed(ns, new, k - 1)
                = ReplaceBytes(Mixed(ns, new, k),
                               [from |-> Len(Spells(ns, 1, k - 1)), to |-> Len(Spells(ns, 1, k))],
                               new[k].text)
<1> DEFINE j == k - 1
           x == Spells(ns, 1, j)
           y == ns[k].text
           by == new[k].text
           z == Spells(new, k + 1, Len(new))
<1>1. x \in Text /\ y \in Text /\ Spells(ns, 1, k) = Cat(x, y)
    BY SpeltNext
<1>2. by \in Text /\ z \in Text /\ Spells(new, k, Len(new)) = Cat(by, z)
    BY SpeltFrom
<1>3. j + 1 = k
    OBVIOUS
<1>4. Mixed(ns, new, k) = Cat(Cat(x, y), z) /\ Mixed(ns, new, j) = Cat(x, Cat(by, z))
    BY <1>1, <1>2, <1>3 DEF Mixed
<1> HIDE DEF x, y, by, z, j
<1>5. Cat(x, Cat(by, z)) = Cat(Cat(x, by), z)
    BY <1>1, <1>2, Concatenation DEF Text
<1>6. ReplaceBytes(Cat(Cat(x, y), z), [from |-> Len(x), to |-> Len(Cat(x, y))], by)
        = Cat(Cat(x, by), z)
    BY <1>1, <1>2, BytesExchanged
<1>7. by = y => Mixed(ns, new, j) = Mixed(ns, new, k)
    BY <1>4, <1>5
<1>8. Mixed(ns, new, j)
        = ReplaceBytes(Mixed(ns, new, k), [from |-> Len(x), to |-> Len(Spells(ns, 1, k))], by)
    BY <1>1, <1>4, <1>5, <1>6
<1> QED
    BY <1>7, <1>8 DEF x, y, by, j

(* Nodes that spell the same in both.                                       *)
LEMMA MixedSame ==
    ASSUME NEW ns \in Seq(Node), NEW new \in Seq(Node), Len(new) = Len(ns),
           NEW k \in 0..Len(ns), NEW j \in k..Len(ns),
           \A i \in (k + 1)..j : new[i].text = ns[i].text
    PROVE  Mixed(ns, new, j) = Mixed(ns, new, k)
<1> DEFINE Ms == {m \in Nat : k + m <= j => Mixed(ns, new, k + m) = Mixed(ns, new, k)}
<1>0. Len(ns) \in Nat
    BY LenProperties
<1>1. 0 \in Ms
    <2>1. k + 0 = k
        OBVIOUS
    <2> QED
        BY <2>1
<1>2. ASSUME NEW m \in Nat, m \in Ms
      PROVE  m + 1 \in Ms
    <2> SUFFICES ASSUME k + (m + 1) <= j
                 PROVE  Mixed(ns, new, k + (m + 1)) = Mixed(ns, new, k)
        OBVIOUS
    <2> DEFINE i == k + (m + 1)
               h == i - 1
    <2>1. i \in (k + 1)..j /\ i \in 1..Len(ns) /\ h = k + m /\ k + m <= j
        BY <1>0
    <2>2. Mixed(ns, new, k + m) = Mixed(ns, new, k)
        BY <1>2, <2>1
    <2>3. new[i].text = ns[i].text
        BY <2>1
    <2> HIDE DEF i
    <2>4. Mixed(ns, new, h) = Mixed(ns, new, i)
        BY <2>1, <2>3, MixedStep
    <2>5. Mixed(ns, new, i) = Mixed(ns, new, k)
        BY <2>1, <2>2, <2>4
    <2> QED
        BY <2>5 DEF i
<1> HIDE DEF Ms
<1>3. Nat \subseteq Ms
    BY <1>1, <1>2, Induction
<1>4. j - k \in Nat /\ k + (j - k) = j /\ j <= j
    BY <1>0
<1> QED
    BY <1>3, <1>4 DEF Ms

(* Nodes that spell something, replaced from the last to the first.         *)
From(ns, i) == Len(Spells(ns, 1, i - 1))
ByteRange(ns, i) == [from |-> From(ns, i), to |-> Len(Spells(ns, 1, i))]

LEMMA FromAscends ==
    ASSUME NEW ns \in Seq(Node), NEW k \in 1..Len(ns), NEW i \in 1..Len(ns)
    PROVE  /\ From(ns, i) \in Nat /\ From(ns, k) \in Nat
           /\ i <= k => From(ns, i) <= From(ns, k)
           /\ i < k /\ ns[i].text # <<>> => From(ns, i) < From(ns, k)
<1>0. Len(ns) \in Nat
    BY LenProperties
<1>1. From(ns, i) \in Nat /\ From(ns, k) \in Nat
    BY SpeltNext DEF From
<1>2. i <= k => From(ns, i) <= From(ns, k)
    <2> SUFFICES ASSUME i <= k PROVE From(ns, i) <= From(ns, k)
        OBVIOUS
    <2> DEFINE kk == k - 1
               ii == i - 1
    <2>1. kk \in 0..Len(ns) /\ ii \in 0..kk
        BY <1>0
    <2> HIDE DEF kk, ii
    <2>2. Len(Spells(ns, 1, ii)) <= Len(Spells(ns, 1, kk))
        BY <2>1, SpeltAscends
    <2> QED
        BY <2>2 DEF From, kk, ii
<1>3. i < k /\ ns[i].text # <<>> => From(ns, i) < From(ns, k)
    <2> SUFFICES ASSUME i < k, ns[i].text # <<>> PROVE From(ns, i) < From(ns, k)
        OBVIOUS
    <2> DEFINE kk == k - 1
               whole == Len(Spells(ns, 1, i))
               own == Len(ns[i].text)
    <2>1. kk \in 0..Len(ns) /\ i \in 0..kk
        BY <1>0
    <2>2. whole = From(ns, i) + own /\ own \in Nat /\ ns[i].text \in Text
        BY SpeltNext DEF From
    <2>3. own # 0
        BY <2>2, EmptySeq DEF Text
    <2> HIDE DEF kk
    <2>4. whole <= Len(Spells(ns, 1, kk))
        BY <2>1, SpeltAscends
    <2>5. Len(Spells(ns, 1, kk)) = From(ns, k)
        BY DEF From, kk
    <2> HIDE DEF whole, own
    <2> QED
        BY <1>1, <2>2, <2>3, <2>4, <2>5
<1> QED
    BY <1>1, <1>2, <1>3

LEMMA ReplacedNodes ==
    ASSUME NEW ns \in Seq(Node), NEW new \in Seq(Node), Len(new) = Len(ns), NEW by,
           NEW found, found \subseteq 1..Len(ns),
           \A i \in found : ns[i].text # <<>> /\ new[i].text = by,
           \A i \in 1..Len(ns) : i \notin found => new[i].text = ns[i].text
    PROVE  ReplaceRanges(Render(ns), {ByteRange(ns, i) : i \in found}, by) = Render(new)
<1> DEFINE t == Render(ns)
           L == Len(ns)
           N == Len(t) + 1
           ranges == {ByteRange(ns, i) : i \in found}
           R(j) == Mixed(ns, new, j)
           Left(p, j) == \A i \in found : i > j <=> From(ns, i) >= p
<1>0. t \in Text /\ L \in Nat /\ Len(t) \in Nat /\ N \in Nat
    <2>1. t \in Text
        BY RenderType
    <2>2. Len(t) \in Nat
        BY <2>1, LenProperties DEF Text
    <2> HIDE DEF t
    <2> QED
        BY <2>1, <2>2, LenProperties
<1>1. \A i \in found : i \in 1..L /\ From(ns, i) \in Nat /\ From(ns, i) <= Len(t)
    <2> TAKE i \in found
    <2>1. i \in 1..L
        OBVIOUS
    <2> DEFINE h == i - 1
    <2>2. h \in 0..L /\ L \in 0..Len(ns) /\ h \in 0..L
        BY <1>0, <2>1
    <2> HIDE DEF h
    <2>3. Len(Spells(ns, 1, h)) \in Nat /\ Len(Spells(ns, 1, h)) <= Len(Spells(ns, 1, L))
        BY <2>2, SpeltAscends
    <2>4. Spells(ns, 1, L) = t
        BY SubSeqFull DEF Spells, Part
    <2> QED
        BY <2>1, <2>3, <2>4 DEF From, h
<1>2. PICK f : /\ ReplaceRanges(t, ranges, by) = f[N]
               /\ \A i \in 0..N : f[i] = IF i = 0 THEN t
                                         ELSE ReplaceFrom(f[i - 1], ranges, by, Len(t) + 1 - i)
    <2>1. t \in Text
        BY <1>0
    <2> HIDE DEF t, ranges
    <2>2. \E f : /\ ReplaceRanges(t, ranges, by) = f[Len(t) + 1]
                 /\ \A i \in 0..(Len(t) + 1) :
                        f[i] = IF i = 0 THEN t
                               ELSE ReplaceFrom(f[i - 1], ranges, by, Len(t) + 1 - i)
        BY <2>1, Replacing
    <2> QED
        BY <2>2
<1> DEFINE Ms == {m \in Nat : m <= N => \E j \in 0..L : Left(N - m, j) /\ f[m] = R(j)}
<1>3. 0 \in Ms
    <2>1. L \in 0..L /\ 0 \in 0..N /\ N - 0 = N
        BY <1>0
    <2>2. f[0] = t
        BY <1>2, <2>1
    <2>3. R(L) = t
        BY MixedEnds
    <2> HIDE DEF t, R
    <2>4. Left(N, L)
        BY <1>0, <1>1
    <2> HIDE DEF L, N
    <2> QED
        BY <2>1, <2>2, <2>3, <2>4
<1>4. ASSUME NEW m \in Nat, m \in Ms
      PROVE  m + 1 \in Ms
    <2> SUFFICES ASSUME m + 1 <= N
                 PROVE  \E j \in 0..L : Left(N - (m + 1), j) /\ f[m + 1] = R(j)
        OBVIOUS
    <2> HIDE DEF t
    <2>0. m <= N /\ m + 1 \in 0..N /\ m + 1 # 0 /\ (m + 1) - 1 = m
        BY <1>0
    <2>1. PICK j \in 0..L : Left(N - m, j) /\ f[m] = R(j)
        BY <1>4, <2>0
    <2> DEFINE q == N - (m + 1)
    <2>2. q \in Nat /\ N - m = q + 1 /\ Len(t) + 1 - (m + 1) = q
        BY <1>0
    <2>3. f[m + 1] = ReplaceFrom(f[m], ranges, by, q)
        BY <1>2, <2>0, <2>2
    <2>4. Left(q + 1, j)
        BY <2>1, <2>2
    <2> HIDE DEF q, N, R
    <2>5. CASE \A i \in found : From(ns, i) # q
        <3>1. ~\E r \in ranges : r.from = q
            BY <2>5 DEF ByteRange
        <3>2. f[m + 1] = R(j)
            BY <2>1, <2>3, <3>1 DEF ReplaceFrom
        <3>3. Left(q, j)
            BY <1>1, <2>2, <2>4, <2>5
        <3> QED
            BY <3>2, <3>3 DEF q
    <2>6. CASE \E i \in found : From(ns, i) = q
        <3>1. PICK k \in found : From(ns, k) = q
            BY <2>6
        <3>2. k \in 1..L /\ k \in 1..Len(ns)
            BY <1>1
        <3>3. \A i \in found : From(ns, i) = q => i = k
            <4> SUFFICES ASSUME NEW i \in found, From(ns, i) = q, i # k PROVE FALSE
                OBVIOUS
            <4>1. i \in 1..Len(ns) /\ ns[i].text # <<>> /\ ns[k].text # <<>>
                OBVIOUS
            <4>2. i < k \/ k < i
                BY <3>2, <4>1
            <4>3. From(ns, i) \in Nat /\ From(ns, k) \in Nat
                BY <1>1
            <4>4. i < k => From(ns, i) < From(ns, k)
                BY <3>2, <4>1, FromAscends
            <4>5. k < i => From(ns, k) < From(ns, i)
                BY <3>2, <4>1, FromAscends
            <4> QED
                BY <3>1, <4>2, <4>3, <4>4, <4>5
        <3>4. \A i \in found : i # k => (i < k <=> From(ns, i) < q) /\ (i > k <=> From(ns, i) > q)
            <4> TAKE i \in found
            <4> HAVE i # k
            <4>1. i \in 1..Len(ns) /\ ns[i].text # <<>> /\ ns[k].text # <<>>
                OBVIOUS
            <4>2. i < k \/ k < i
                BY <3>2, <4>1
            <4>3. From(ns, i) \in Nat /\ From(ns, k) \in Nat
                BY <1>1
            <4>4. i < k => From(ns, i) < From(ns, k)
                BY <3>2, <4>1, FromAscends
            <4>5. k < i => From(ns, k) < From(ns, i)
                BY <3>2, <4>1, FromAscends
            <4> QED
                BY <3>1, <3>2, <4>1, <4>2, <4>3, <4>4, <4>5
        <3>5. k <= j /\ j \in k..Len(ns) /\ k \in 0..Len(ns)
            <4>1. ~(From(ns, k) >= q + 1)
                BY <2>2, <3>1
            <4>2. ~(k > j)
                BY <2>4, <4>1
            <4> QED
                BY <4>2, <3>2, <1>0
        <3>6. \A i \in (k + 1)..j : new[i].text = ns[i].text
            <4> TAKE i \in (k + 1)..j
            <4>1. i \in 1..Len(ns) /\ i # k /\ i > k /\ ~(i > j)
                BY <3>2, <3>5, <1>0
            <4>2. i \notin found
                <5> SUFFICES ASSUME i \in found PROVE FALSE
                    OBVIOUS
                <5>1. From(ns, i) > q /\ From(ns, i) \in Nat
                    BY <3>4, <4>1, <1>1
                <5>2. ~(From(ns, i) >= q + 1)
                    BY <2>4, <4>1
                <5> QED
                    BY <5>1, <5>2, <2>2
            <4> QED
                BY <4>1, <4>2
        <3>7. R(j) = R(k)
            BY <3>5, <3>6, MixedSame DEF R
        <3> DEFINE r == ByteRange(ns, k)
        <3>8. r \in ranges /\ r.from = q /\ \A s \in ranges : s.from = q => s = r
            <4>1. \A i \in found : ByteRange(ns, i).from = From(ns, i)
                BY DEF ByteRange
            <4> QED
                BY <3>1, <3>3, <4>1
        <3>9. f[m + 1] = ReplaceBytes(f[m], r, by)
            <4> HIDE DEF r, ranges
            <4>1. (CHOOSE s \in ranges : s.from = q) = r
                BY <3>8
            <4> QED
                BY <2>3, <3>8, <4>1 DEF ReplaceFrom
        <3> DEFINE h == k - 1
        <3>10. R(h) = ReplaceBytes(R(k), r, by)
            <4>1. new[k].text = by
                OBVIOUS
            <4>2. Mixed(ns, new, k - 1)
                    = ReplaceBytes(Mixed(ns, new, k),
                                   [from |-> Len(Spells(ns, 1, k - 1)), to |-> Len(Spells(ns, 1, k))],
                                   new[k].text)
                BY <3>2, MixedStep
            <4> QED
                BY <4>1, <4>2 DEF R, ByteRange, From
        <3>11. f[m + 1] = R(h)
            BY <2>1, <3>7, <3>9, <3>10
        <3>12. h \in 0..L /\ \A i \in found : i > h <=> (i = k \/ i > k)
            BY <3>2, <1>0
        <3> HIDE DEF h
        <3>13. Left(q, h)
            <4> SUFFICES ASSUME NEW i \in found PROVE i > h <=> From(ns, i) >= q
                OBVIOUS
            <4>1. i \in 1..L /\ From(ns, i) \in Nat
                BY <1>1
            <4>2. CASE i = k
                BY <4>2, <3>1, <3>12, <2>2
            <4>3. CASE i # k
                BY <4>1, <4>3, <3>4, <3>2, <3>12, <2>2
            <4> QED
                BY <4>2, <4>3
        <3> QED
            BY <3>11, <3>12, <3>13 DEF q
    <2> QED
        BY <2>5, <2>6
<1> HIDE DEF Ms
<1>5. Nat \subseteq Ms
    BY <1>3, <1>4, Induction
<1>6. PICK j \in 0..L : Left(0, j) /\ f[N] = R(j)
    <2>1. N - N = 0 /\ N <= N
        BY <1>0
    <2> HIDE DEF N
    <2>2. \E j \in 0..L : Left(N - N, j) /\ f[N] = R(j)
        BY <1>0, <1>5, <2>1 DEF Ms
    <2> QED
        BY <2>1, <2>2
<1>7. \A i \in 1..j : new[i].text = ns[i].text
    <2> TAKE i \in 1..j
    <2>1. i \in 1..Len(ns) /\ ~(i > j)
        BY <1>0
    <2>2. i \notin found
        BY <1>1, <1>6, <2>1
    <2> QED
        BY <2>1, <2>2
<1>8. R(j) = R(0)
    <2>1. 0 \in 0..Len(ns) /\ j \in 0..Len(ns) /\ 0 + 1 = 1
        BY <1>0
    <2> HIDE DEF L
    <2> QED
        BY <1>7, <2>1, MixedSame
<1>9. R(0) = Render(new)
    BY MixedEnds
<1> QED
    BY <1>2, <1>6, <1>8, <1>9

LEMMA RenameKeeps ==
    ASSUME TreeInv, path.ext \in Supported, NEW symbol \in Asked, NEW replacement \in Given,
           RenameSymbol(symbol, replacement)
    PROVE  TreeInv'
<1> DEFINE found == Occurrences(nodes, symbol)
           asked == [symbol |-> symbol, by |-> replacement]
           new == [i \in DOMAIN nodes |-> IF i \in found THEN [nodes[i] EXCEPT !.text = replacement]
                                          ELSE nodes[i]]
<1>0. /\ nodes \in Seq(Node) /\ Rooted(lang, nodes) /\ text = Render(nodes)
      /\ DOMAIN nodes = 1..Len(nodes) /\ Len(nodes) \in Nat /\ replacement \in Text
    BY LenProperties, NamesAssumption DEF TreeInv, TreeType, TextIsTree
<1>1. CASE \E why : Refused("rename", asked, why)
    BY <1>1, RefusedKeeps
<1>2. CASE /\ text' = ReplaceRanges(text, {Bytes(nodes, i) : i \in found}, replacement)
           /\ nodes' = new
           /\ path' = path
    <2>1. \A i \in found : i \in 1..Len(nodes) /\ nodes[i].text # <<>> /\ Subtree(nodes, i) = {i}
        BY <1>0, NamesAssumption DEF Occurrences, Spelt
    <2>2. \A i \in 1..Len(nodes) :
            nodes[i] \in Node /\ [nodes[i] EXCEPT !.text = replacement] \in Node
            /\ [nodes[i] EXCEPT !.text = replacement].text = replacement
        <3>1. \A i \in 1..Len(nodes) : nodes[i] \in Node
            BY <1>0, ElementOfSeq
        <3> QED
            BY <3>1, <1>0 DEF Node
    <2> HIDE DEF found
    <2>3. /\ new \in Seq(Node) /\ Len(new) = Len(nodes)
          /\ \A i \in 1..Len(nodes) :
                new[i] = IF i \in found THEN [nodes[i] EXCEPT !.text = replacement] ELSE nodes[i]
        <3>1. new = [i \in 1..Len(nodes) |->
                        IF i \in found THEN [nodes[i] EXCEPT !.text = replacement] ELSE nodes[i]]
            BY <1>0
        <3>2. \A i \in 1..Len(nodes) :
                (IF i \in found THEN [nodes[i] EXCEPT !.text = replacement] ELSE nodes[i]) \in Node
            BY <2>2
        <3>3. \A i \in 1..Len(nodes) :
                new[i] = IF i \in found THEN [nodes[i] EXCEPT !.text = replacement] ELSE nodes[i]
            BY <3>1
        <3>4. DOMAIN new = 1..Len(nodes)
            BY <3>1
        <3> HIDE DEF new
        <3>5. new \in Seq(Node)
            BY <1>0, <3>1, <3>2, IsASeq
        <3>6. Len(new) = Len(nodes)
            BY <1>0, <3>4, <3>5, LenProperties
        <3> QED
            BY <3>3, <3>5, <3>6
    <2> HIDE DEF new
    <2>4. {Bytes(nodes, i) : i \in found} = {ByteRange(nodes, i) : i \in found}
        <3>1. ASSUME NEW i \in found
              PROVE  Bytes(nodes, i) = ByteRange(nodes, i)
            <4>1. LastOf(nodes, i) \in i..Len(nodes) /\ i..LastOf(nodes, i) = {i}
                BY <1>0, <2>1, LastBelow DEF Subtree
            <4>2. LastOf(nodes, i) = i
                BY <2>1, <4>1
            <4> QED
                BY <4>2 DEF Bytes, ByteRange, From, Spells, Part
        <3> QED
            BY <3>1
    <2>5. ReplaceRanges(Render(nodes), {ByteRange(nodes, i) : i \in found}, replacement) = Render(new)
        <3>1. /\ found \subseteq 1..Len(nodes) /\ new \in Seq(Node) /\ Len(new) = Len(nodes)
              /\ \A i \in found : nodes[i].text # <<>> /\ new[i].text = replacement
              /\ \A i \in 1..Len(nodes) : i \notin found => new[i].text = nodes[i].text
            BY <2>1, <2>2, <2>3
        <3> QED
            BY <1>0, <3>1, ReplacedNodes
    <2>6. Rooted(lang, new)
        <3>1. nodes # <<>> /\ nodes[1].text = <<>>
              /\ nodes[1].kind \notin ItemKinds(lang) \cup lang.hides
            BY <1>0 DEF Rooted
        <3>2. Len(nodes) # 0
            BY <1>0, <3>1, EmptySeq
        <3>3. 1 \in 1..Len(nodes) /\ 1 \notin found
            BY <1>0, <2>1, <3>1, <3>2
        <3>4. new[1] = nodes[1] /\ new # <<>>
            BY <2>3, <3>2, <3>3, EmptySeq
        <3> QED
            BY <3>1, <3>4 DEF Rooted
    <2>7. nodes' \in Seq(Node) /\ Rooted(lang', nodes') /\ text' = Render(nodes')
        BY <1>0, <1>2, <2>3, <2>4, <2>5, <2>6 DEF lang
    <2> QED
        BY <2>7 DEF TreeInv, TreeType, TextIsTree
<1> QED
    BY <1>1, <1>2 DEF RenameSymbol, Call

(* What the tools write by byte ranges of the old tree is the text of the new one. *)
LEMMA TreeKept ==
    ASSUME TreeInv, [SyntaxNext]_syntaxVars
    PROVE  TreeInv'
<1>1. CASE UNCHANGED syntaxVars
    BY <1>1, TreeUnchanged DEF syntaxVars
<1>2. CASE SyntaxNext /\ path.ext \in Supported
    <2>1. \/ \E s \in Asked, r \in Given : RenameSymbol(s, r)
          \/ \E s \in Asked, r \in Given : PatchSymbol(s, r)
          \/ \E spec \in Specs : EnsureImport(spec)
        BY <1>2 DEF SyntaxNext
    <2> QED
        BY <1>2, <2>1, RenameKeeps, PatchKeeps, ImportKeeps
<1>3. CASE SyntaxNext /\ path.ext \notin Supported
    <2>1. \E t : Refused(t, [by |-> <<>>], "UnsupportedLanguage")
        BY <1>3 DEF SyntaxNext, Unsupported
    <2> QED
        BY <2>1, RefusedKeeps
<1> QED
    BY <1>1, <1>2, <1>3

(* Whatever the grammar and the names: after any renames, patches and         *)
(* imports by byte ranges of the old tree, the file is the text of the new.  *)
THEOREM TextFollowsTree == SyntaxSpec => []TextIsTree
<1>1. SyntaxInit => TreeInv
    BY TreeInitially
<1>2. TreeInv /\ [SyntaxNext]_syntaxVars => TreeInv'
    BY TreeKept
<1>3. TreeInv => TextIsTree
    BY DEF TreeInv
<1> QED
    BY <1>1, <1>2, <1>3, PTL DEF SyntaxSpec

-----------------------------------------------------------------------------
(* What ensure_import has written is found again                             *)

(* A text between the ends of lines is a line.                              *)
LEMMA LineWithin ==
    ASSUME NEW a \in Text, NEW spec \in Text, NEW z \in Text, Breaks(spec) = {},
           a # <<>> => a[Len(a)] = "\n", z # <<>> => z[1] = "\n"
    PROVE  spec \in Lines(Cat(Cat(a, spec), z))
<1> DEFINE as == Cat(a, spec)
           t == Cat(as, z)
           A == Len(a)
           B == Len(spec)
           C == Len(z)
           from == A
           to == A + B + 1
<1>1. A \in Nat /\ B \in Nat /\ C \in Nat
    BY LenProperties DEF Text
<1>2. /\ as \in Text /\ Len(as) = A + B
      /\ \A i \in 1..(A + B) : as[i] = IF i <= A THEN a[i] ELSE spec[i - A]
    BY Elements DEF Text
<1>3. /\ t \in Text /\ Len(t) = A + B + C /\ DOMAIN t = 1..(A + B + C)
      /\ \A i \in 1..(A + B + C) : t[i] = IF i <= A + B THEN as[i] ELSE z[i - (A + B)]
    <2> HIDE DEF as
    <2>1. /\ t \in Text /\ Len(t) = Len(as) + C
          /\ \A i \in 1..(Len(as) + C) : t[i] = IF i <= Len(as) THEN as[i] ELSE z[i - Len(as)]
        BY <1>2, Elements DEF Text
    <2>2. DOMAIN t = 1..Len(t)
        BY <2>1, LenProperties DEF Text
    <2> HIDE DEF t, C, A, B
    <2> QED
        BY <2>1, <2>2, <1>2
<1> HIDE DEF as, t
<1>4. SubSeq(t, from + 1, to - 1) = spec
    <2>1. SubSeq(as, Len(a) + 1, Len(as)) = spec
        BY Halves DEF Text, Cat, as
    <2> HIDE DEF A, B, C
    <2> DEFINE m == A + 1
               n == A + B
    <2>2. /\ m \in 1..(A + B + 1) /\ n \in (m - 1)..(A + B) /\ n - m + 1 = B
          /\ m \in 1..(A + B + C + 1) /\ n \in (m - 1)..(A + B + C)
        BY <1>1
    <2>3. ASSUME NEW i \in 1..B
          PROVE  t[m + i - 1] = as[m + i - 1]
        <3>1. m + i - 1 \in 1..(A + B + C) /\ m + i - 1 <= A + B
            BY <1>1
        <3> HIDE DEF m
        <3> QED
            BY <3>1, <1>3
    <2> HIDE DEF m, n
    <2>5. /\ SubSeq(t, m, n) \in Seq(Char) /\ Len(SubSeq(t, m, n)) = B
          /\ \A i \in 1..B : SubSeq(t, m, n)[i] = t[m + i - 1]
        <3>1. m \in 1..(Len(t) + 1) /\ n \in (m - 1)..Len(t) /\ t \in Seq(Char)
            BY <1>3, <2>2 DEF Text
        <3>2. /\ SubSeq(t, m, n) \in Seq(Char) /\ Len(SubSeq(t, m, n)) = n - m + 1
              /\ \A i \in 1..(n - m + 1) : SubSeq(t, m, n)[i] = t[m + i - 1]
            BY <3>1, Slice
        <3> QED
            BY <2>2, <3>2
    <2>6. /\ SubSeq(as, m, n) \in Seq(Char) /\ Len(SubSeq(as, m, n)) = B
          /\ \A i \in 1..B : SubSeq(as, m, n)[i] = as[m + i - 1]
        <3>1. m \in 1..(Len(as) + 1) /\ n \in (m - 1)..Len(as) /\ as \in Seq(Char)
            BY <1>2, <2>2 DEF Text
        <3>2. /\ SubSeq(as, m, n) \in Seq(Char) /\ Len(SubSeq(as, m, n)) = n - m + 1
              /\ \A i \in 1..(n - m + 1) : SubSeq(as, m, n)[i] = as[m + i - 1]
            BY <3>1, Slice
        <3> QED
            BY <2>2, <3>2
    <2>7. SubSeq(t, m, n) = SubSeq(as, m, n)
        BY <2>3, <2>5, <2>6, SeqEqual
    <2>8. n = Len(as) /\ m = Len(a) + 1 /\ from + 1 = m /\ to - 1 = n
        BY <1>1, <1>2 DEF m, n, A
    <2> HIDE DEF from, to
    <2> QED
        BY <2>1, <2>7, <2>8
<1>5. \A i \in 1..B : spec[i] # "\n"
    BY LenProperties DEF Text, Breaks
<1>6. from \in Stops(t)
    <2>1. CASE a = <<>>
        <3>1. from = 0
            BY <2>1, EmptySeq
        <3> QED
            BY <3>1 DEF Stops
    <2>2. CASE a # <<>>
        <3>1. A # 0 /\ a[A] = "\n"
            BY <2>2, EmptySeq DEF Text
        <3> HIDE DEF A, B, C
        <3>2. A \in 1..(A + B) /\ A \in 1..(A + B + C) /\ A <= A + B /\ A <= A
            BY <1>1, <3>1
        <3>3. t[A] = "\n"
            BY <3>1, <3>2, <1>2, <1>3
        <3> QED
            BY <3>2, <3>3, <1>3 DEF Stops, Breaks
    <2> QED
        BY <2>1, <2>2
<1>7. to \in Stops(t)
    <2>1. CASE z = <<>>
        <3>1. to = Len(t) + 1
            BY <2>1, <1>1, <1>3, EmptySeq
        <3> QED
            BY <3>1 DEF Stops
    <2>2. CASE z # <<>>
        <3>1. C # 0 /\ z[1] = "\n"
            BY <2>2, EmptySeq DEF Text
        <3> HIDE DEF A, B, C
        <3>2. to \in 1..(A + B + C) /\ ~(to <= A + B) /\ to - (A + B) = 1
            BY <1>1, <3>1
        <3>3. t[to] = "\n"
            BY <3>1, <3>2, <1>3
        <3> QED
            BY <3>2, <3>3, <1>3 DEF Stops, Breaks
    <2> QED
        BY <2>1, <2>2
<1> HIDE DEF A, B, C
<1>8. from < to /\ \A p \in Stops(t) : p <= from \/ to <= p
    <2>1. from < to
        BY <1>1
    <2>2. ASSUME NEW p \in Stops(t), ~(p <= from), ~(to <= p)
          PROVE  FALSE
        <3>1. p \in {0, A + B + C + 1} \cup {i \in 1..(A + B + C) : t[i] = "\n"}
            BY <1>3 DEF Stops, Breaks
        <3>2. p \in 1..(A + B + C) /\ t[p] = "\n" /\ ~(p <= A) /\ p <= A + B
            BY <1>1, <2>2, <3>1
        <3>3. p \in 1..(A + B) /\ p - A \in 1..B
            BY <1>1, <3>2
        <3>4. t[p] = spec[p - A]
            BY <1>2, <1>3, <3>2, <3>3
        <3> QED
            BY <1>5, <3>2, <3>3, <3>4
    <2> QED
        BY <2>1, <2>2
<1> DEFINE r == [from |-> from, to |-> to]
<1>9. r \in [from : Stops(t), to : Stops(t)] /\ r.from = from /\ r.to = to
    BY <1>6, <1>7
<1> HIDE DEF r, from, to
<1>10. SubSeq(t, r.from + 1, r.to - 1) = spec
    BY <1>4, <1>9
<1>11. spec \in Lines(t)
    BY <1>8, <1>9, <1>10 DEF Lines
<1> QED
    BY <1>11 DEF t, as

(* A carriage return behind an import is no part of it: normalised, the line  *)
(* is the import.                                                           *)
Return == <<"\r">>

LEMMA ReturnType == Return \in Text /\ Len(Return) = 1 /\ Return[1] = "\r"
<1>1. \A c \in Char : <<c>> \in Seq(Char) /\ Len(<<c>>) = 1 /\ <<c>>[1] = c
    OBVIOUS
<1> QED
    BY <1>1, LabelsAssumption DEF Return, Text

LEMMA ReturnStripped ==
    ASSUME NEW spec \in Text
    PROVE  NormalizedBlock(Cat(spec, Return)) = NormalizedBlock(spec)
<1> DEFINE u == Cat(spec, Return)
           n == Len(spec)
           solid == {p \in DOMAIN spec : spec[p] \notin White}
           m == Min(solid)
           x == Max(solid)
<1>1. spec \in Seq(Char) /\ n \in Nat /\ DOMAIN spec = 1..n
    BY LenProperties DEF Text
<1>2. /\ u \in Seq(Char) /\ Len(u) = n + 1
      /\ \A i \in 1..(n + 1) : u[i] = IF i <= n THEN spec[i] ELSE Return[i - n]
    <2>1. /\ u \in Seq(Char) /\ Len(u) = Len(spec) + Len(Return)
          /\ \A i \in 1..(Len(spec) + Len(Return)) :
                u[i] = IF i <= Len(spec) THEN spec[i] ELSE Return[i - Len(spec)]
        BY <1>1, ReturnType, Elements DEF Text
    <2> HIDE DEF u
    <2> QED
        BY <2>1, ReturnType
<1>3. DOMAIN u = 1..(n + 1)
    BY <1>2, LenProperties
<1> HIDE DEF u, n
<1>4. (\A i \in 1..n : u[i] = spec[i]) /\ u[n + 1] = "\r"
    <2>1. n + 1 \in 1..(n + 1) /\ ~(n + 1 <= n) /\ (n + 1) - n = 1
        BY <1>1
    <2>2. \A i \in 1..n : i \in 1..(n + 1) /\ i <= n
        BY <1>1
    <2> QED
        BY <1>2, <2>1, <2>2, ReturnType
<1>5. {p \in DOMAIN u : u[p] \notin White} = solid
    <2>1. 1..(n + 1) = 1..n \cup {n + 1} /\ "\r" \in White
        BY <1>1 DEF White
    <2> QED
        BY <1>1, <1>3, <1>4, <2>1
<1>6. Stripped(u) = (IF solid = {} THEN <<>> ELSE SubSeq(u, m, x))
    BY <1>5 DEF Stripped
<1>7. Stripped(spec) = (IF solid = {} THEN <<>> ELSE SubSeq(spec, m, x))
    BY DEF Stripped
<1>8. ASSUME solid # {}
      PROVE  SubSeq(u, m, x) = SubSeq(spec, m, x)
    <2>1. solid \subseteq 1..n /\ solid \subseteq Nat /\ solid \subseteq 0..n
        BY <1>1
    <2> HIDE DEF solid
    <2>2. m \in solid /\ x \in solid /\ \A y \in solid : m <= y
        BY <1>1, <1>8, <2>1, LeastOf, GreatestOf
    <2> HIDE DEF m, x
    <2>3. m \in 1..n /\ x \in 1..n /\ m <= x
        BY <2>1, <2>2
    <2>4. /\ SubSeq(spec, m, x) \in Seq(Char) /\ Len(SubSeq(spec, m, x)) = x - m + 1
          /\ \A i \in 1..(x - m + 1) : SubSeq(spec, m, x)[i] = spec[m + i - 1]
        <3>1. m \in 1..(Len(spec) + 1) /\ x \in (m - 1)..Len(spec)
            BY <1>1, <2>3 DEF n
        <3> QED
            BY <1>1, <3>1, Slice
    <2>5. /\ SubSeq(u, m, x) \in Seq(Char) /\ Len(SubSeq(u, m, x)) = x - m + 1
          /\ \A i \in 1..(x - m + 1) : SubSeq(u, m, x)[i] = u[m + i - 1]
        <3>1. m \in 1..(Len(u) + 1) /\ x \in (m - 1)..Len(u)
            BY <1>1, <1>2, <2>3
        <3> QED
            BY <1>2, <3>1, Slice
    <2>6. \A i \in 1..(x - m + 1) : SubSeq(u, m, x)[i] = SubSeq(spec, m, x)[i]
        <3> TAKE i \in 1..(x - m + 1)
        <3>1. m + i - 1 \in 1..n
            BY <1>1, <2>3
        <3> QED
            BY <1>4, <2>4, <2>5, <3>1
    <2> DEFINE g == SubSeq(u, m, x)
               h == SubSeq(spec, m, x)
    <2>7. g \in Seq(Char) /\ h \in Seq(Char) /\ Len(g) = Len(h) /\ \A i \in 1..Len(g) : g[i] = h[i]
        BY <2>4, <2>5, <2>6
    <2> HIDE DEF g, h
    <2>8. g = h
        BY <2>7, SeqEqual
    <2> QED
        BY <2>8 DEF g, h
<1>9. Stripped(u) = Stripped(spec)
    <2>1. CASE solid = {}
        BY <1>6, <1>7, <2>1
    <2>2. CASE solid # {}
        <3>1. Stripped(u) = SubSeq(u, m, x) /\ Stripped(spec) = SubSeq(spec, m, x)
            BY <1>6, <1>7, <2>2
        <3> QED
            BY <1>8, <2>2, <3>1
    <2> QED
        BY <2>1, <2>2
<1> QED
    BY <1>9 DEF NormalizedBlock, u

(* A text of one line between the ends of lines, of either kind, is found.   *)
LEMMA FoundWithin ==
    ASSUME NEW a \in Text, NEW spec \in Text, NEW z \in Text, Breaks(spec) = {},
           NormalizedBlock(spec) = spec,
           a # <<>> => a[Len(a)] = "\n",
           z # <<>> => z[1] = "\n" \/ (z[1] = "\r" /\ 1 < Len(z) /\ z[2] = "\n")
    PROVE  \E line \in Lines(Cat(Cat(a, spec), z)) : NormalizedBlock(line) = spec
<1>1. CASE z # <<>> => z[1] = "\n"
    BY <1>1, LineWithin
<1>2. CASE z[1] = "\r" /\ 1 < Len(z) /\ z[2] = "\n"
    <2> DEFINE y == SubSeq(z, 2, Len(z))
               one == SubSeq(z, 1, 1)
               mid == Cat(spec, Return)
    <2>0. z \in Seq(Char) /\ Len(z) \in Nat
        BY LenProperties DEF Text
    <2>1. y \in Text /\ y[1] = "\n"
        <3>1. 2 \in 1..(Len(z) + 1) /\ Len(z) \in (2 - 1)..Len(z)
              /\ 1 \in 1..(Len(z) - 2 + 1) /\ 2 + 1 - 1 = 2
            BY <2>0, <1>2
        <3>2. /\ y \in Seq(Char)
              /\ \A i \in 1..(Len(z) - 2 + 1) : y[i] = z[2 + i - 1]
            BY <2>0, <3>1, Slice
        <3> HIDE DEF y
        <3> QED
            BY <1>2, <3>1, <3>2 DEF Text
    <2>2. one = Return
        <3>1. 1 \in 1..(Len(z) + 1) /\ 1 \in (1 - 1)..Len(z) /\ 1 - 1 + 1 = 1 /\ 1 + 1 - 1 = 1
            BY <2>0, <1>2
        <3>2. /\ one \in Seq(Char) /\ Len(one) = 1 - 1 + 1
              /\ \A i \in 1..(1 - 1 + 1) : one[i] = z[1 + i - 1]
            BY <2>0, <3>1, Slice
        <3> HIDE DEF one
        <3>3. Len(one) = 1 /\ one[1] = "\r"
            BY <1>2, <3>1, <3>2
        <3>4. Return \in Seq(Char) /\ Len(one) = Len(Return) /\ \A i \in 1..Len(one) : one[i] = Return[i]
            BY <3>3, ReturnType DEF Text
        <3> QED
            BY <3>2, <3>4, SeqEqual
    <2>3. z = Cat(one, y)
        <3>1. 2 \in 1..(Len(z) + 1) /\ Len(z) \in (2 - 1)..Len(z) /\ Len(z) - 2 + 1 = Len(z) - 1
            BY <2>0, <1>2
        <3>2. y \in Seq(Char) /\ Len(y) = Len(z) - 1 /\ \A i \in 1..(Len(z) - 1) : y[i] = z[2 + i - 1]
            BY <2>0, <3>1, Slice
        <3>3. one \in Seq(Char) /\ Len(one) = 1 /\ one[1] = z[1]
            BY <1>2, <2>2, ReturnType DEF Text
        <3> HIDE DEF y, one
        <3>4. /\ Cat(one, y) \in Seq(Char) /\ Len(Cat(one, y)) = Len(one) + Len(y)
              /\ \A i \in 1..(Len(one) + Len(y)) :
                    Cat(one, y)[i] = IF i <= Len(one) THEN one[i] ELSE y[i - Len(one)]
            BY <3>2, <3>3, Elements
        <3>5. Len(Cat(one, y)) = Len(z)
            BY <2>0, <3>2, <3>3, <3>4
        <3>6. \A i \in 1..Len(z) : Cat(one, y)[i] = z[i]
            <4> TAKE i \in 1..Len(z)
            <4>1. i \in 1..(1 + (Len(z) - 1))
                BY <2>0
            <4>2. CASE i <= 1
                <5>1. i = 1
                    BY <4>2
                <5> QED
                    BY <3>2, <3>3, <3>4, <4>1, <5>1
            <4>3. CASE ~(i <= 1)
                <5>1. i - 1 \in 1..(Len(z) - 1) /\ 2 + (i - 1) - 1 = i
                    BY <2>0, <4>3
                <5> QED
                    BY <3>2, <3>3, <3>4, <4>1, <4>3, <5>1
            <4> QED
                BY <4>2, <4>3
        <3> QED
            BY <2>0, <3>4, <3>5, <3>6, SeqEqual
    <2> HIDE DEF y, one
    <2>4. Cat(Cat(a, spec), z) = Cat(Cat(a, mid), y)
        <3>1. /\ a \in Seq(Char) /\ spec \in Seq(Char) /\ Return \in Seq(Char) /\ y \in Seq(Char)
              /\ Cat(a, spec) \in Seq(Char) /\ z = Cat(Return, y)
            BY <2>1, <2>2, <2>3, ReturnType, Concatenation DEF Text
        <3>2. Cat(Cat(a, spec), Cat(Return, y)) = Cat(Cat(Cat(a, spec), Return), y)
            BY <3>1, Concatenation
        <3>3. Cat(Cat(a, spec), Return) = Cat(a, Cat(spec, Return))
            BY <3>1, Concatenation
        <3> QED
            BY <3>1, <3>2, <3>3
    <2>5. mid \in Text /\ Breaks(mid) = {}
        <3>1. /\ mid \in Seq(Char) /\ Len(mid) = Len(spec) + 1 /\ Len(spec) \in Nat
              /\ \A i \in 1..(Len(spec) + 1) :
                    mid[i] = IF i <= Len(spec) THEN spec[i] ELSE Return[i - Len(spec)]
            <4>1. /\ mid \in Seq(Char) /\ Len(mid) = Len(spec) + Len(Return)
                  /\ \A i \in 1..(Len(spec) + Len(Return)) :
                        mid[i] = IF i <= Len(spec) THEN spec[i] ELSE Return[i - Len(spec)]
                BY ReturnType, Elements DEF Text
            <4>2. Len(spec) \in Nat
                BY LenProperties DEF Text
            <4> HIDE DEF mid
            <4> QED
                BY <4>1, <4>2, ReturnType
        <3> HIDE DEF mid
        <3>2. DOMAIN mid = 1..(Len(spec) + 1)
            BY <3>1, LenProperties
        <3>3. \A i \in 1..Len(spec) : spec[i] # "\n"
            BY LenProperties DEF Text, Breaks
        <3>4. \A i \in 1..(Len(spec) + 1) : mid[i] # "\n"
            <4> TAKE i \in 1..(Len(spec) + 1)
            <4>1. CASE i <= Len(spec)
                BY <3>1, <3>3, <4>1
            <4>2. CASE ~(i <= Len(spec))
                <5>1. i - Len(spec) = 1
                    BY <3>1, <4>2
                <5> QED
                    BY <3>1, <4>2, <5>1, ReturnType
            <4> QED
                BY <4>1, <4>2
        <3> QED
            BY <3>1, <3>2, <3>4 DEF Text, Breaks
    <2>6. NormalizedBlock(mid) = spec
        BY ReturnStripped
    <2> HIDE DEF mid
    <2>7. mid \in Lines(Cat(Cat(a, mid), y))
        BY <2>1, <2>5, LineWithin
    <2> QED
        BY <2>4, <2>6, <2>7
<1> QED
    BY <1>1, <1>2

Fed == {<<"\n">>, <<"\r", "\n">>}

LEMMA FoundAtTop ==
    ASSUME NEW spec \in Text, Breaks(spec) = {}, NormalizedBlock(spec) = spec,
           NEW t \in Text, NewLine \in Fed
    PROVE  \E line \in Lines(Inserted(t, 0, spec, NewLine)) : NormalizedBlock(line) = spec
<1> DEFINE z == Cat(NewLine, t)
<1>1. NewLine \in Text /\ z \in Text /\ Len(t) \in Nat
    BY NewLineType, Concatenation, LenProperties DEF Text
<1>2. /\ Len(z) = Len(NewLine) + Len(t)
      /\ \A i \in 1..(Len(NewLine) + Len(t)) :
            z[i] = IF i <= Len(NewLine) THEN NewLine[i] ELSE t[i - Len(NewLine)]
    BY <1>1, Elements DEF Text
<1>3. Inserted(t, 0, spec, NewLine) = Cat(Cat(spec, NewLine), t)
    BY DEF Inserted, Cat
<1>4. Inserted(t, 0, spec, NewLine) = Cat(Cat(<<>>, spec), z)
    BY <1>1, <1>3, Concatenation DEF Text
<1> HIDE DEF z
<1>5. z[1] = "\n" \/ (z[1] = "\r" /\ 1 < Len(z) /\ z[2] = "\n")
    <2>1. CASE NewLine = <<"\n">>
        <3>1. Len(NewLine) = 1 /\ NewLine[1] = "\n"
            BY <2>1
        <3>2. 1 \in 1..(1 + Len(t)) /\ 1 <= 1
            BY <1>1
        <3> QED
            BY <1>2, <3>1, <3>2
    <2>2. CASE NewLine = <<"\r", "\n">>
        <3>1. Len(NewLine) = 2 /\ NewLine[1] = "\r" /\ NewLine[2] = "\n"
            BY <2>2
        <3>2. 1 \in 1..(2 + Len(t)) /\ 2 \in 1..(2 + Len(t)) /\ 1 <= 2 /\ 2 <= 2 /\ 1 < 2 + Len(t)
            BY <1>1
        <3> QED
            BY <1>2, <3>1, <3>2
    <2> QED
        BY <2>1, <2>2 DEF Fed
<1>6. <<>> \in Text
    BY Concatenation DEF Text
<1> QED
    BY <1>1, <1>4, <1>5, <1>6, FoundWithin

LEMMA FoundBehindHeader ==
    ASSUME NEW t \in Text, NEW byte \in 1..Len(t), NEW spec \in Text, Breaks(spec) = {},
           NormalizedBlock(spec) = spec, NewLine \in Fed,
           byte = Len(t) \/ LineEndsAt(t, byte + 1)
    PROVE  \E line \in Lines(Inserted(t, byte, spec, NewLine)) : NormalizedBlock(line) = spec
<1> DEFINE x == SubSeq(t, 1, byte)
           z == SubSeq(t, byte + 1, Len(t))
           a == Cat(x, NewLine)
           N == Len(t)
<1>0. N \in Nat /\ \A i \in 1..N : t[i] \in Char
    BY LenProperties, ElementOfSeq DEF Text
<1>1. x \in Text /\ Len(x) = byte
    <2>1. 1 \in Int /\ byte \in Int /\ 1 <= byte /\ byte - 1 + 1 = byte /\ \A i \in 1..byte : t[i] \in Char
        BY <1>0
    <2> QED
        BY <2>1, SubSeqProperties DEF Text
<1>2. z \in Text /\ Len(z) = N - byte /\ \A i \in 1..(N - byte) : z[i] = t[byte + i]
    <2> DEFINE m == byte + 1
    <2>1. /\ m \in Int /\ N \in Int /\ (IF m <= N THEN N - m + 1 ELSE 0) = N - byte
          /\ N - m + 1 = N - byte /\ \A i \in m..N : t[i] \in Char
          /\ \A i \in 1..(N - byte) : m + i - 1 = byte + i
        BY <1>0
    <2> HIDE DEF m, N
    <2>2. /\ SubSeq(t, m, N) \in Seq(Char) /\ Len(SubSeq(t, m, N)) = N - byte
          /\ \A i \in 1..(N - byte) : SubSeq(t, m, N)[i] = t[m + i - 1]
        BY <2>1, SubSeqProperties
    <2> QED
        BY <2>1, <2>2 DEF m, N, Text
<1>3. NewLine \in Text /\ Len(NewLine) \in Nat \ {0} /\ NewLine[Len(NewLine)] = "\n"
    <2>1. CASE NewLine = <<"\n">>
        BY <2>1, NewLineType
    <2>2. CASE NewLine = <<"\r", "\n">>
        BY <2>2, NewLineType
    <2> QED
        BY <2>1, <2>2 DEF Fed
<1>4. Inserted(t, byte, spec, NewLine) = Cat(Cat(a, spec), z)
    <2>1. byte # 0
        OBVIOUS
    <2> QED
        BY <2>1 DEF Inserted, Cat
<1> HIDE DEF x, z
<1>5. a \in Text /\ a[Len(a)] = "\n"
    <2> DEFINE e == Len(NewLine)
    <2>1. /\ a \in Seq(Char) /\ Len(a) = byte + e
          /\ \A i \in 1..(byte + e) : a[i] = IF i <= byte THEN x[i] ELSE NewLine[i - byte]
        <3>1. /\ a \in Seq(Char) /\ Len(a) = Len(x) + Len(NewLine)
              /\ \A i \in 1..(Len(x) + Len(NewLine)) :
                    a[i] = IF i <= Len(x) THEN x[i] ELSE NewLine[i - Len(x)]
            BY <1>1, <1>3, Elements DEF Text
        <3> HIDE DEF a
        <3> QED
            BY <3>1, <1>1
    <2> HIDE DEF a
    <2>2. byte + e \in 1..(byte + e) /\ ~(byte + e <= byte) /\ (byte + e) - byte = e
        BY <1>0, <1>3
    <2> QED
        BY <1>3, <2>1, <2>2 DEF Text
<1> HIDE DEF a
<1>6. z # <<>> => z[1] = "\n" \/ (z[1] = "\r" /\ 1 < Len(z) /\ z[2] = "\n")
    <2> SUFFICES ASSUME z # <<>> PROVE z[1] = "\n" \/ (z[1] = "\r" /\ 1 < Len(z) /\ z[2] = "\n")
        OBVIOUS
    <2>1. Len(z) # 0
        BY <1>2, EmptySeq DEF Text
    <2>2. byte # N
        BY <1>0, <1>2, <2>1
    <2>3. 1 \in 1..(N - byte) /\ z[1] = t[byte + 1]
        BY <1>0, <1>2, <2>2
    <2>4. t[byte + 1] = "\n" \/ (t[byte + 1] = "\r" /\ byte + 1 < N /\ t[(byte + 1) + 1] = "\n")
        BY <2>2 DEF LineEndsAt
    <2>5. byte + 1 < N => 2 \in 1..(N - byte) /\ 1 < N - byte /\ byte + 2 = (byte + 1) + 1
        BY <1>0
    <2> QED
        BY <1>2, <2>3, <2>4, <2>5
<1> QED
    BY <1>2, <1>4, <1>5, <1>6, FoundWithin

(* Put at the top of a file without line feeds, an import of one line leaves  *)
(* it without any.                                                          *)
LEMMA UnbrokenAtTop ==
    ASSUME NEW spec \in Text, Breaks(spec) = {}, NEW t \in Text, Breaks(t) = {}, NewLine = Return
    PROVE  Breaks(Inserted(t, 0, spec, NewLine)) = {}
<1> DEFINE first == Cat(spec, Return)
           u == Cat(first, t)
<1>1. Inserted(t, 0, spec, NewLine) = u
    BY DEF Inserted, Cat
<1>2. /\ Len(spec) \in Nat /\ Len(t) \in Nat /\ Len(Return) = 1 /\ Return[1] # "\n"
      /\ \A i \in 1..Len(spec) : spec[i] # "\n"
      /\ \A i \in 1..Len(t) : t[i] # "\n"
    BY LenProperties, ReturnType DEF Text, Breaks
<1>3. /\ first \in Seq(Char) /\ Len(first) = Len(spec) + Len(Return)
      /\ \A i \in 1..(Len(spec) + Len(Return)) :
            first[i] = IF i <= Len(spec) THEN spec[i] ELSE Return[i - Len(spec)]
    BY ReturnType, Elements DEF Text
<1> HIDE DEF first
<1>4. \A i \in 1..Len(first) : first[i] # "\n"
    <2> TAKE i \in 1..Len(first)
    <2>1. CASE i <= Len(spec)
        BY <1>2, <1>3, <2>1
    <2>2. CASE ~(i <= Len(spec))
        <3>1. i - Len(spec) = 1
            BY <1>2, <1>3, <2>2
        <3> QED
            BY <1>2, <1>3, <2>2, <3>1
    <2> QED
        BY <2>1, <2>2
<1>5. /\ u \in Seq(Char) /\ Len(u) = Len(first) + Len(t)
      /\ \A i \in 1..(Len(first) + Len(t)) : u[i] = IF i <= Len(first) THEN first[i] ELSE t[i - Len(first)]
    BY <1>3, Elements DEF Text
<1> HIDE DEF u
<1>6. ASSUME NEW i \in 1..(Len(first) + Len(t))
      PROVE  u[i] # "\n"
    <2>0. Len(first) \in Nat
        BY <1>3, LenProperties
    <2>1. CASE i <= Len(first)
        BY <1>4, <1>5, <2>0, <2>1
    <2>2. CASE ~(i <= Len(first))
        <3>1. i - Len(first) \in 1..Len(t)
            BY <1>2, <2>0, <2>2
        <3> QED
            BY <1>2, <1>5, <2>2, <3>1
    <2> QED
        BY <2>1, <2>2
<1>7. DOMAIN u = 1..(Len(first) + Len(t))
    BY <1>5, LenProperties
<1> QED
    BY <1>1, <1>6, <1>7 DEF Breaks

(* Two nodes behind node k.                                                 *)
Put(ns, k, mid) == SubSeq(ns, 1, k) \o mid \o SubSeq(ns, k + 1, Len(ns))

LEMMA BehindNodes ==
    ASSUME NEW ns \in Seq(Node), NEW k \in 1..Len(ns), NEW p \in Node, NEW q \in Node
    PROVE  /\ Put(ns, k, <<p, q>>) \in Seq(Node) /\ Len(Put(ns, k, <<p, q>>)) = Len(ns) + 2
           /\ Put(ns, k, <<p, q>>)[k + 1] = p /\ Put(ns, k, <<p, q>>)[k + 2] = q
           /\ \A i \in 1..k : Put(ns, k, <<p, q>>)[i] = ns[i]
           /\ \A i \in (k + 1)..Len(ns) : Put(ns, k, <<p, q>>)[i + 2] = ns[i]
<1> DEFINE N == Len(ns)
           a == SubSeq(ns, 1, k)
           mid == <<p, q>>
           c == SubSeq(ns, k + 1, N)
           am == Cat(a, mid)
           new == Cat(am, c)
<1>0. N \in Nat /\ k \in 1..N
    BY LenProperties
<1>1. /\ a \in Seq(Node) /\ Len(a) = k /\ \A i \in 1..k : a[i] = ns[i]
    <2>1. 1 \in 1..(Len(ns) + 1) /\ k \in (1 - 1)..Len(ns) /\ k - 1 + 1 = k
          /\ \A i \in 1..k : 1 + i - 1 = i
        BY <1>0
    <2>2. /\ a \in Seq(Node) /\ Len(a) = k - 1 + 1 /\ \A i \in 1..(k - 1 + 1) : a[i] = ns[1 + i - 1]
        BY <2>1, Slice
    <2> HIDE DEF a
    <2> QED
        BY <2>1, <2>2
<1>2. /\ c \in Seq(Node) /\ Len(c) = N - k /\ \A i \in 1..(N - k) : c[i] = ns[k + i]
    <2> DEFINE m == k + 1
    <2>1. m \in 1..(Len(ns) + 1) /\ N \in (m - 1)..Len(ns) /\ N - m + 1 = N - k
          /\ \A i \in 1..(N - k) : m + i - 1 = k + i
        BY <1>0
    <2> HIDE DEF m
    <2>2. /\ SubSeq(ns, m, N) \in Seq(Node) /\ Len(SubSeq(ns, m, N)) = N - m + 1
          /\ \A i \in 1..(N - m + 1) : SubSeq(ns, m, N)[i] = ns[m + i - 1]
        BY <2>1, Slice
    <2> QED
        BY <2>1, <2>2 DEF m
<1>3. mid \in Seq(Node) /\ Len(mid) = 2 /\ mid[1] = p /\ mid[2] = q
    OBVIOUS
<1> HIDE DEF a, mid, c, N
<1>4. /\ am \in Seq(Node) /\ Len(am) = k + 2
      /\ \A i \in 1..(k + 2) : am[i] = IF i <= k THEN a[i] ELSE mid[i - k]
    <2>1. /\ am \in Seq(Node) /\ Len(am) = Len(a) + Len(mid)
          /\ \A i \in 1..(Len(a) + Len(mid)) : am[i] = IF i <= Len(a) THEN a[i] ELSE mid[i - Len(a)]
        BY <1>1, <1>3, Elements
    <2> HIDE DEF am
    <2> QED
        BY <2>1, <1>1, <1>3
<1> HIDE DEF am
<1>5. /\ new \in Seq(Node) /\ Len(new) = (k + 2) + (N - k)
      /\ \A i \in 1..((k + 2) + (N - k)) : new[i] = IF i <= k + 2 THEN am[i] ELSE c[i - (k + 2)]
    <2>1. /\ new \in Seq(Node) /\ Len(new) = Len(am) + Len(c)
          /\ \A i \in 1..(Len(am) + Len(c)) : new[i] = IF i <= Len(am) THEN am[i] ELSE c[i - Len(am)]
        BY <1>2, <1>4, Elements
    <2> HIDE DEF new
    <2> QED
        BY <2>1, <1>2, <1>4
<1> HIDE DEF new
<1>6. (k + 2) + (N - k) = N + 2
    BY <1>0
<1>7. new[k + 1] = p /\ new[k + 2] = q
    <2> DEFINE u == k + 1
               v == k + 2
    <2>1. /\ u \in 1..(N + 2) /\ u <= k + 2 /\ u \in 1..(k + 2) /\ ~(u <= k) /\ u - k = 1
          /\ v \in 1..(N + 2) /\ v <= k + 2 /\ v \in 1..(k + 2) /\ ~(v <= k) /\ v - k = 2
        BY <1>0
    <2> HIDE DEF u, v
    <2>2. new[u] = mid[1] /\ new[v] = mid[2]
        BY <2>1, <1>4, <1>5, <1>6
    <2> QED
        BY <2>2, <1>3 DEF u, v
<1>8. \A i \in 1..k : new[i] = ns[i]
    <2> TAKE i \in 1..k
    <2>1. i \in 1..(N + 2) /\ i <= k + 2 /\ i \in 1..(k + 2) /\ i <= k
        BY <1>0
    <2> QED
        BY <2>1, <1>1, <1>4, <1>5, <1>6
<1>9. \A i \in (k + 1)..N : new[i + 2] = ns[i]
    <2> TAKE i \in (k + 1)..N
    <2> DEFINE u == i + 2
               v == i - k
    <2>1. u \in 1..(N + 2) /\ ~(u <= k + 2) /\ u - (k + 2) = v /\ v \in 1..(N - k) /\ k + v = i
        BY <1>0
    <2> HIDE DEF u, v
    <2>2. new[u] = c[v] /\ c[v] = ns[i]
        BY <2>1, <1>2, <1>5, <1>6
    <2> QED
        BY <2>2 DEF u
<1>10. new = Put(ns, k, <<p, q>>)
    BY DEF new, am, a, mid, c, N, Cat, Put
<1>11. /\ new \in Seq(Node) /\ Len(new) = Len(ns) + 2
       /\ \A i \in (k + 1)..Len(ns) : new[i + 2] = ns[i]
    BY <1>5, <1>6, <1>9 DEF N
<1> QED
    BY <1>7, <1>8, <1>10, <1>11

(* What an import item is: a node of one of the import kinds that nothing    *)
(* hides.                                                                   *)
LEMMA ImportItem ==
    ASSUME path.ext \in Supported, NEW ns, NEW i \in Imports(ns)
    PROVE  /\ i \in DOMAIN ns /\ "Import" \in DOMAIN lang.items
           /\ lang.hides # {} => \A j \in Ancestors(ns, i) : ns[j].kind \notin lang.hides
<1>1. PICK it \in Items(lang, ns) : it.kind = "Import" /\ it.at = i
    BY DEF Imports
<1>2. PICK h \in DOMAIN ns :
            it \in {[at |-> h, kind |-> Kind(lang, ns, h, c), name |-> NameAt(lang, ns, h)] :
                        c \in ClassesOf(lang, ns, h)}
    BY DEF Items
<1>3. PICK c \in ClassesOf(lang, ns, h) :
            it = [at |-> h, kind |-> Kind(lang, ns, h, c), name |-> NameAt(lang, ns, h)]
    BY <1>2
<1>4. h = i /\ Kind(lang, ns, h, c) = "Import"
    BY <1>1, <1>3
<1>5. c = "Import"
    BY <1>4 DEF Kind
<1>6. ~Defines(lang, ns, h)
    <2> SUFFICES ASSUME Defines(lang, ns, h) PROVE FALSE
        OBVIOUS
    <2>1. c = lang.calls[ns[Min(Words(lang, ns, h))].text]
          /\ ns[Min(Words(lang, ns, h))].text \in DOMAIN lang.calls
        BY <1>3 DEF ClassesOf, Defines
    <2> DEFINE w == ns[Min(Words(lang, ns, h))].text
    <2> HIDE DEF w
    <2>2. \A x \in DOMAIN lang.calls : lang.calls[x] # "Import"
        BY LanguagesAssumption DEF Supported, lang
    <2> QED
        BY <2>1, <2>2, <1>5
<1>7. c \in {k \in DOMAIN lang.items : ns[h].kind \in lang.items[k]}
    BY <1>6 DEF ClassesOf
<1>8. lang.hides # {} => \A j \in Ancestors(ns, it.at) : ns[j].kind \notin lang.hides
    BY DEF Items
<1> QED
    BY <1>1, <1>2, <1>4, <1>5, <1>7, <1>8

LEMMA IsImportItem ==
    ASSUME path.ext \in Supported, NEW ns, NEW i \in DOMAIN ns, "Import" \in DOMAIN lang.items,
           ns[i].kind \in lang.items.Import \ {"call"},
           lang.hides # {} => \A j \in Ancestors(ns, i) : ns[j].kind \notin lang.hides
    PROVE  i \in Imports(ns)
<1> DEFINE name == NameAt(lang, ns, i)
           it == [at |-> i, kind |-> Kind(lang, ns, i, "Import"), name |-> name]
<1>1. ~Defines(lang, ns, i)
    BY DEF Defines
<1>2. "Import" \in {k \in DOMAIN lang.items : ns[i].kind \in lang.items[k]}
    OBVIOUS
<1>3. "Import" \in ClassesOf(lang, ns, i)
    BY <1>1, <1>2 DEF ClassesOf
<1>4. Kind(lang, ns, i, "Import") = "Import"
    BY DEF Kind
<1> HIDE DEF name
<1>5. it.at = i /\ it.kind = "Import" /\ it.name = name
    BY <1>4
<1>6. it \in {[at |-> i, kind |-> Kind(lang, ns, i, c), name |-> NameAt(lang, ns, i)] :
                    c \in ClassesOf(lang, ns, i)}
    BY <1>3 DEF name
<1>7. "Import" \notin lang.needs
    BY LanguagesAssumption DEF Supported, lang
<1> HIDE DEF it
<1>8. it \in Items(lang, ns)
    BY <1>5, <1>6, <1>7 DEF Items
<1> QED
    BY <1>5, <1>8 DEF Imports

(* Put behind an import, an import is one itself.                           *)
LEMMA BehindIsImport ==
    ASSUME TreeInv, path.ext \in Supported, NEW spec \in Text, NEW i \in Imports(nodes),
           i \in 2..Len(nodes), NEW L, L = LastOf(nodes, i), L \in 1..Len(nodes),
           NEW d \in Nat, d = nodes[i].depth
    PROVE  LET new == Behind(L, <<Gap(NewLine, d), ImportNode(spec, d)>>)
           IN  L + 2 \in Imports(new) /\ TextOf(new, L + 2) = spec
<1> DEFINE p == Gap(NewLine, d)
           q == ImportNode(spec, d)
           new == Behind(L, <<p, q>>)
           h == L + 2
           N == Len(nodes)
<1>0. nodes \in Seq(Node) /\ N \in Nat /\ \A k \in 1..N : nodes[k].depth \in Nat
    <2>1. nodes \in Seq(Node)
        BY DEF TreeInv, TreeType
    <2>2. \A k \in 1..N : nodes[k] \in Node
        BY <2>1, ElementOfSeq
    <2> QED
        BY <2>1, <2>2, LenProperties DEF Node
<1>1. p \in Node /\ q \in Node /\ q.text = spec /\ q.depth = d /\ p.depth = d
    BY ImportNodeType, GapType DEF Gap
<1>2. "Import" \in DOMAIN lang.items /\ q.kind \in lang.items.Import \ {"call"}
    BY ImportItem, ImportNodeType
<1> HIDE DEF p, q
<1>3. /\ new \in Seq(Node) /\ Len(new) = N + 2 /\ new[L + 1] = p /\ new[h] = q
      /\ \A k \in 1..L : new[k] = nodes[k]
      /\ \A k \in (L + 1)..N : new[k + 2] = nodes[k]
    <2> DEFINE other == Put(nodes, L, <<p, q>>)
    <2>1. new = other
        BY DEF Behind, Put
    <2>2. /\ other \in Seq(Node) /\ Len(other) = Len(nodes) + 2
          /\ other[L + 1] = p /\ other[L + 2] = q
          /\ \A k \in 1..L : other[k] = nodes[k]
          /\ \A k \in (L + 1)..Len(nodes) : other[k + 2] = nodes[k]
        <3> HIDE DEF N
        <3>1. nodes \in Seq(Node) /\ L \in 1..Len(nodes) /\ p \in Node /\ q \in Node
            BY <1>0, <1>1
        <3> QED
            BY ONLY <3>1, BehindNodes
    <2> HIDE DEF new, other
    <2> QED
        BY <2>1, <2>2
<1>4. /\ L \in i..N /\ L \in 1..N
      /\ \A k \in (i + 1)..L : nodes[k].depth > d
      /\ L < N => nodes[L + 1].depth <= d
    <2>1. i \in 1..Len(nodes)
        BY <1>0
    <2> QED
        BY <1>0, <2>1, LastBelow
<1> HIDE DEF new, N
<1>5. h \in 1..(N + 2) /\ h \in DOMAIN new /\ h \in 1..Len(new)
    <2>1. h \in 1..(N + 2)
        BY <1>0, <1>4
    <2>2. DOMAIN new = 1..Len(new)
        BY <1>3, LenProperties
    <2> QED
        BY <2>1, <2>2, <1>3
<1>6. Ancestors(new, h) \subseteq Ancestors(nodes, i)
      /\ \A j \in Ancestors(new, h) : new[j] = nodes[j]
    <2> SUFFICES ASSUME NEW j \in Ancestors(new, h)
                 PROVE  j \in Ancestors(nodes, i) /\ new[j] = nodes[j]
        OBVIOUS
    <2>1. j \in 1..(h - 1) /\ \A k \in (j + 1)..h : new[k].depth > new[j].depth
        BY DEF Ancestors
    <2>2. h \in (j + 1)..h
        BY <2>1, <1>0, <1>4
    <2>3. d > new[j].depth
        BY <2>1, <2>2, <1>1, <1>3
    <2>4. j # L + 1
        BY <2>3, <1>1, <1>3
    <2>5. j \in 1..L
        BY <2>1, <2>4, <1>0, <1>4
    <2>6. new[j] = nodes[j] /\ nodes[j].depth \in Nat /\ d > nodes[j].depth
        BY <2>3, <2>5, <1>0, <1>3, <1>4
    <2>7. j \notin (i + 1)..L /\ j # i
        BY <2>6, <1>4
    <2>8. j \in 1..(i - 1)
        BY <2>5, <2>7, <1>0, <1>4
    <2>9. \A k \in (j + 1)..i : nodes[k].depth > nodes[j].depth
        <3> TAKE k \in (j + 1)..i
        <3>1. k \in (j + 1)..h /\ k \in 1..L
            BY <2>8, <1>0, <1>4
        <3> QED
            BY <3>1, <2>1, <2>6, <1>3
    <2> QED
        BY <2>6, <2>8, <2>9 DEF Ancestors
<1>7. lang.hides # {} => \A j \in Ancestors(new, h) : new[j].kind \notin lang.hides
    BY <1>6, ImportItem
<1>8. h \in Imports(new)
    BY <1>2, <1>3, <1>5, <1>7, IsImportItem
<1>9. LastOf(new, h) = h
    <2>1. /\ LastOf(new, h) \in h..Len(new)
          /\ \A k \in (h + 1)..LastOf(new, h) : new[k].depth > new[h].depth
        BY <1>3, <1>5, LastBelow
    <2> DEFINE last1 == LastOf(new, h)
    <2> HIDE DEF last1
    <2>2. CASE last1 # h
        <3>1. /\ h + 1 \in (h + 1)..last1 /\ L < N /\ L + 1 \in (L + 1)..N /\ (L + 1) + 2 = h + 1
            <4>1. last1 \in h..(N + 2) /\ L \in 1..N
                BY <2>1, <1>3, <1>4 DEF last1
            <4> QED
                BY <4>1, <2>2, <1>0
        <3>2. new[h + 1] = nodes[L + 1]
            BY <3>1, <1>3
        <3>3. nodes[L + 1].depth > d
            BY <3>1, <3>2, <2>1, <1>1, <1>3 DEF last1
        <3>4. nodes[L + 1].depth <= d /\ nodes[L + 1].depth \in Nat
            BY <3>1, <1>0, <1>4
        <3> QED
            BY <3>3, <3>4
    <2> QED
        BY <2>2 DEF last1
<1>10. TextOf(new, h) = Spells(new, h, h)
    BY <1>9 DEF TextOf, Spells, Part
<1>11. TextOf(new, h) = spec
    BY <1>1, <1>3, <1>5, <1>10, OneNode
<1> QED
    BY <1>8, <1>11 DEF new, p, q

(* At the top of a file, in a language that has import items, it is one too. *)
LEMMA TopIsImport ==
    ASSUME TreeInv, path.ext \in Supported, "Import" \in DOMAIN lang.items,
           NEW spec \in Text, NEW imports, NEW ran
    PROVE  LET new == Grown(imports, 0, ran, spec, NewLine)
           IN  2 \in Imports(new) /\ TextOf(new, 2) = spec
<1> DEFINE p == ImportNode(spec, 1)
           q == Gap(NewLine, 1)
           new == Grown(imports, 0, ran, spec, NewLine)
           N == Len(nodes)
<1>0. /\ nodes \in Seq(Node) /\ N \in Nat /\ 1 \in 1..Len(nodes)
      /\ nodes[1].kind \notin lang.hides
    <2>1. nodes \in Seq(Node) /\ nodes # <<>> /\ nodes[1].kind \notin lang.hides
        BY DEF TreeInv, TreeType, Rooted
    <2>2. Len(nodes) \in Nat /\ Len(nodes) # 0
        BY <2>1, LenProperties, EmptySeq
    <2> QED
        BY <2>1, <2>2
<1>1. /\ p \in Node /\ q \in Node /\ p.text = spec /\ p.depth = 1 /\ q.depth = 1
      /\ p.kind \in lang.items.Import \ {"call"}
    <2>1. 1 \in Nat
        OBVIOUS
    <2> QED
        BY <2>1, ImportNodeType, GapType DEF Gap
<1>2. new = Put(nodes, 1, <<p, q>>)
    BY DEF Grown, Behind, Put
<1> HIDE DEF p, q, new
<1>3. /\ new \in Seq(Node) /\ Len(new) = N + 2
      /\ new[1] = nodes[1] /\ new[2] = p /\ new[3] = q
    <2> DEFINE other == Put(nodes, 1, <<p, q>>)
    <2>1. /\ other \in Seq(Node) /\ Len(other) = Len(nodes) + 2
          /\ other[1 + 1] = p /\ other[1 + 2] = q
          /\ \A i \in 1..1 : other[i] = nodes[i]
        BY ONLY <1>0, <1>1, BehindNodes
    <2> HIDE DEF other
    <2>2. 1 + 1 = 2 /\ 1 + 2 = 3 /\ 1 \in 1..1
        OBVIOUS
    <2> QED
        BY <1>2, <2>1, <2>2 DEF other
<1>4. 2 \in 1..Len(new) /\ 2 \in DOMAIN new
    BY <1>0, <1>3, LenProperties
<1>5. \A j \in Ancestors(new, 2) : new[j].kind \notin lang.hides
    <2> SUFFICES ASSUME NEW j \in Ancestors(new, 2) PROVE new[j].kind \notin lang.hides
        OBVIOUS
    <2>1. j = 1
        BY DEF Ancestors
    <2> QED
        BY <1>0, <1>3, <2>1
<1>6. 2 \in Imports(new)
    BY <1>1, <1>3, <1>4, <1>5, IsImportItem
<1>7. LastOf(new, 2) = 2
    <2> DEFINE last1 == LastOf(new, 2)
    <2>1. last1 \in 2..Len(new) /\ \A k \in (2 + 1)..last1 : new[k].depth > new[2].depth
        BY <1>3, <1>4, LastBelow
    <2> HIDE DEF last1
    <2>2. 3 \notin (2 + 1)..last1
        <3>1. ~(new[3].depth > new[2].depth)
            BY <1>1, <1>3
        <3> QED
            BY <2>1, <3>1
    <2>3. last1 = 2
        BY <1>0, <1>3, <2>1, <2>2
    <2> QED
        BY <2>3 DEF last1
<1>8. TextOf(new, 2) = Spells(new, 2, 2)
    BY <1>7 DEF TextOf, Spells, Part
<1>9. TextOf(new, 2) = spec
    BY <1>1, <1>3, <1>4, <1>8, OneNode
<1> QED
    BY <1>6, <1>9 DEF new

LEMMA WrittenIsEnsured ==
    ASSUME TreeInv, path.ext \in Supported, NEW spec \in Specs, Breaks(spec) = {},
           NEW imports, NEW byte, NEW ran, Ensured(imports, byte, ran, spec), ~ran,
           Breaks(text') # {} \/ "Import" \in DOMAIN lang.items
    PROVE  AlreadyPresent(text, nodes, Imports(nodes), spec)'
<1> DEFINE new == Grown(imports, byte, ran, spec, NewLine)
           t == Inserted(text, byte, spec, NewLine)
<1>0. spec \in Text /\ Breaks(spec) = {} /\ text \in Text /\ NormalizedBlock(spec) = spec
    BY NamesAssumption, SpecsAssumption, TextOfTree
<1>1. /\ imports = Imports(nodes) /\ byte = InsertionByte(text, nodes, imports)
      /\ ran = RunsOn(text, imports, byte)
      /\ text' = t /\ nodes' = new /\ path' = path /\ Imports(nodes)' = Imports(new)
    <2>1. WithEndings(spec, NewLine) = spec
        BY <1>0, OneLineAsItWas
    <2> QED
        BY <2>1 DEF Ensured, Imports, lang
<1>2. CASE \E line \in Lines(t) : NormalizedBlock(line) = spec
    BY <1>1, <1>2 DEF AlreadyPresent
<1>3. CASE byte = 0
    <2>1. CASE "Import" \in DOMAIN lang.items
        <3> HIDE DEF t
        <3>1. new = Grown(imports, 0, ran, spec, NewLine)
            BY <1>3
        <3> HIDE DEF new
        <3>2. 2 \in Imports(new) /\ TextOf(new, 2) = spec
            BY <1>0, <2>1, <3>1, TopIsImport
        <3>3. \E k \in Imports(new) : NormalizedBlock(TextOf(new, k)) = spec
            BY <1>0, <3>2
        <3> QED
            BY <1>1, <3>3 DEF AlreadyPresent
    <2>2. CASE "Import" \notin DOMAIN lang.items
        <3>1. t = Inserted(text, 0, spec, NewLine) /\ Breaks(t) # {}
            BY <1>1, <1>3, <2>2
        <3> HIDE DEF t
        <3>2. NewLine \in Fed
            <4> SUFFICES ASSUME NewLine \notin Fed PROVE FALSE
                OBVIOUS
            <4>1. NewLine = Return /\ Breaks(text) = {}
                BY NewLineType, Zenon DEF Fed, Return
            <4> QED
                BY <1>0, <3>1, <4>1, UnbrokenAtTop
        <3>3. \E line \in Lines(t) : NormalizedBlock(line) = spec
            BY <1>0, <3>1, <3>2, FoundAtTop
        <3> QED
            BY <1>2, <3>3
    <2> QED
        BY <2>1, <2>2
<1>4. CASE byte # 0 /\ imports = {}
    <2>1. byte = InsertionByte(text, nodes, {}) /\ ~RunsOn(text, {}, byte)
        BY <1>1, <1>4
    <2>2. byte \in 1..Len(text)
        BY <1>4, <2>1, HeaderByte
    <2>3. byte = Len(text) \/ LineEndsAt(text, byte + 1)
        BY <1>4, <2>1 DEF RunsOn
    <2>4. NewLine \in Fed
        <3>1. Breaks(text) # {}
            BY <1>4, <2>1, HeaderByte
        <3> QED
            BY <3>1, NewLineType DEF Fed
    <2>5. \E line \in Lines(t) : NormalizedBlock(line) = spec
        BY <1>0, <2>2, <2>3, <2>4, FoundBehindHeader
    <2> QED
        BY <2>5, <1>2
<1>5. CASE byte # 0 /\ imports # {}
    <2>1. Imports(nodes) # {} /\ byte = InsertionByte(text, nodes, Imports(nodes))
        BY <1>1, <1>5
    <2>2. PICK i \in Imports(nodes) :
              /\ i \in 2..Len(nodes) /\ LastOf(nodes, i) \in 1..Len(nodes)
              /\ nodes[i].depth \in Nat
              /\ Grown(Imports(nodes), byte, ran, spec, NewLine)
                   = Behind(LastOf(nodes, i), <<Gap(NewLine, nodes[i].depth),
                                                ImportNode(spec, nodes[i].depth)>>)
        <3>1. TreeInv /\ path.ext \in Supported /\ byte # 0
            BY <1>5
        <3> QED
            BY ONLY <1>0, <2>1, <3>1, AmongImports
    <2> DEFINE L == LastOf(nodes, i)
               d == nodes[i].depth
               other == Behind(L, <<Gap(NewLine, d), ImportNode(spec, d)>>)
    <2>3. new = other
        BY <1>1, <2>2
    <2>4. L \in 1..Len(nodes) /\ L = LastOf(nodes, i) /\ d \in Nat /\ d = nodes[i].depth
        BY <2>2
    <2> HIDE DEF L, d, new
    <2>5. L + 2 \in Imports(other) /\ TextOf(other, L + 2) = spec
        BY <1>0, <2>2, <2>4, BehindIsImport
    <2> HIDE DEF other, t
    <2>6. \E k \in Imports(new) : NormalizedBlock(TextOf(new, k)) = spec
        BY <1>0, <2>3, <2>5
    <2> QED
        BY <1>1, <2>6 DEF AlreadyPresent
<1> QED
    BY <1>3, <1>4, <1>5

EnsuredInv == TreeInv /\ ImportIsEnsured

LEMMA EnsuredKept ==
    ASSUME EnsuredInv, [SyntaxNext]_syntaxVars
    PROVE  EnsuredInv'
<1>0. TreeInv /\ TreeInv'
    BY TreeKept DEF EnsuredInv
<1>1. CASE UNCHANGED syntaxVars
    BY <1>0, <1>1 DEF EnsuredInv, ImportIsEnsured, AlreadyPresent, Imports, Breaks, syntaxVars, lang
<1>2. CASE last'.tool # "import" \/ last'.outcome # "written"
    BY <1>0, <1>2 DEF EnsuredInv, ImportIsEnsured
<1>3. ASSUME NEW t, NEW asked, NEW why, Refused(t, asked, why), why # "written"
      PROVE  EnsuredInv'
    BY <1>2, <1>3 DEF Refused, Call
<1>4. CASE SyntaxNext /\ path.ext \in Supported
    <2>1. CASE \E s \in Asked, r \in Given : RenameSymbol(s, r)
        <3>1. last'.tool = "rename"
            BY <2>1 DEF RenameSymbol, Refused, Call
        <3> QED
            BY <3>1, <1>2
    <2>2. CASE \E s \in Asked, r \in Given : PatchSymbol(s, r)
        <3>1. last'.tool = "patch"
            BY <2>2 DEF PatchSymbol, Refused, Call
        <3> QED
            BY <3>1, <1>2
    <2>3. CASE \E spec \in Specs : EnsureImport(spec)
        <3>1. PICK spec \in Specs : EnsureImport(spec)
            BY <2>3
        <3>2. CASE \E asked, why : Refused("import", asked, why) /\ why # "written"
            BY <3>2, <1>3
        <3>3. CASE \E imports, byte, ran : Ensured(imports, byte, ran, spec)
            <4>1. PICK imports, byte, ran : Ensured(imports, byte, ran, spec)
                BY <3>3
            <4>2. last'.asked.spec = spec /\ last'.asked.ran = ran
                BY <4>1 DEF Ensured
            <4>3. ~ran /\ Breaks(spec) = {} /\ (Breaks(text') # {} \/ "Import" \in DOMAIN lang.items)
                    => AlreadyPresent(text, nodes, Imports(nodes), spec)'
                BY <1>0, <1>4, <4>1, WrittenIsEnsured
            <4>4. lang' = lang /\ Breaks(text)' = Breaks(text')
                BY <4>1 DEF Ensured, lang, Breaks
            <4> QED
                BY <1>0, <4>2, <4>3, <4>4 DEF EnsuredInv, ImportIsEnsured, AlreadyPresent, Imports
        <3> QED
            BY <3>1, <3>2, <3>3, ImportCases
    <2> QED
        BY <1>4, <2>1, <2>2, <2>3 DEF SyntaxNext
<1>5. CASE SyntaxNext /\ path.ext \notin Supported
    <2>1. \E t : Refused(t, [by |-> <<>>], "UnsupportedLanguage")
        BY <1>5 DEF SyntaxNext, Unsupported
    <2> QED
        BY <2>1, <1>3
<1> QED
    BY <1>1, <1>4, <1>5

(* Wherever ensure_import puts an import of one line, a second call finds it, *)
(* as an item or as a line, whatever the line ends of the file, unless it ran *)
(* into what follows a header, or the file is one line (it has carriage      *)
(* returns only) of a language without import items.                        *)
THEOREM ImportsAreEnsured == SyntaxSpec => []ImportIsEnsured
<1>1. SyntaxInit => EnsuredInv
    <2>1. SyntaxInit => last.tool = "none"
        BY DEF SyntaxInit
    <2>2. SyntaxInit => ImportIsEnsured
        BY <2>1 DEF ImportIsEnsured
    <2> QED
        BY <2>2, TreeInitially DEF EnsuredInv
<1>2. EnsuredInv /\ [SyntaxNext]_syntaxVars => EnsuredInv'
    BY EnsuredKept
<1>3. EnsuredInv => ImportIsEnsured
    BY DEF EnsuredInv
<1> QED
    BY <1>1, <1>2, <1>3, PTL DEF SyntaxSpec

-----------------------------------------------------------------------------
(* Both ways to edit a file                                                 *)

(* A step of the one way leaves the variables of the other alone.           *)
LEMMA BothWaysToEdit ==
    /\ EditInit => SyntaxInit /\ LineInit
    /\ [EditNext]_editVars => [SyntaxNext]_syntaxVars /\ [LineNext]_lineVars
    BY DEF EditInit, EditNext, BySyntax, ByLines, editVars

(* In any sequence of edits by the tree or by lines, each tool's edits land   *)
(* where they were meant to: the text is that of the tree, an import of one  *)
(* line that was written is found as ImportIsEnsured says, and a batch has   *)
(* done what it was asked for.                                              *)
THEOREM EditsLand == EditSpec => [](TextIsTree /\ ImportIsEnsured /\ BatchIsFromOriginal)
<1>1. EditSpec => SyntaxSpec /\ LineSpec
    BY BothWaysToEdit, PTL DEF EditSpec, SyntaxSpec, LineSpec
<1> QED
    BY <1>1, TextFollowsTree, ImportsAreEnsured, BatchFromOriginal, PTL

=============================================================================
