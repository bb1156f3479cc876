------------------------------ MODULE FileEdits -----------------------------
(***************************************************************************)
(* The two ways nerd edits the content of a file it has read: by the syntax *)
(* tree and by lines.  What ties a content to the disk is in FilePatching.   *)
(* Lines are edited here in the files no parser is for, where they are the   *)
(* only way; patch_file takes no notice of the language.                    *)
(***************************************************************************)
EXTENDS SyntaxEdits, LineEdits

editVars == <<syntaxVars, lineVars>>

EditInit == SyntaxInit /\ LineInit /\ (path.ext \in Supported => file = <<>>)

BySyntax == updates = <<>> /\ SyntaxNext /\ UNCHANGED lineVars
ByLines == path.ext \notin Supported /\ edits = 0 /\ LineNext /\ UNCHANGED syntaxVars

EditNext == BySyntax \/ ByLines

EditSpec == EditInit /\ [][EditNext]_editVars
=============================================================================
