---------------------------- MODULE SaveEditorProps ----------------------------
(* What SaveEditor guarantees, and what it does not. *)
EXTENDS SaveEditor

\* What a file has on the card; what an editor holds for its slots.
ContentOn(d, f) == FlattenSeq([n \in 1 .. Len(Chain[f]) |-> d[Chain[f][n]]])
Content(f) == ContentOn(disk, f)
Held(e) == [data[e] EXCEPT ![slot[e]] = form[e]]

WriteEnds == task.kind = "write" /\ task' = NoTask

\* Only a save writes to the card, only to blocks of its own file, and never
\* while the card is read-only or to a lost file.
OnlySavedFileWritten ==
    [][\A b \in DOMAIN disk : disk'[b] # disk[b] =>
          /\ task.kind = "write" /\ ~readOnly
          /\ TaskFile \notin LostFiles /\ b \in ToSet(Chain[TaskFile])]_vars

\* Switching between slots loses nothing of what was typed in any of them.
SwitchKeepsEdits ==
    [][\A e \in Editors :
          task = NoTask /\ slot'[e] # slot[e] /\ file'[e] # NoFile => Held(e)' = Held(e)]_vars

\* What a save of a file of one block leaves on the card is what the editor
\* holds, the slot being edited included, behind the header it had.
OneBlockSaved ==
    [][WriteEnds /\ Len(Chain[TaskFile]) = 1 =>
          /\ SlotsIn(ContentOn(disk', TaskFile)) = Held(task.ed)
          /\ ContentOn(disk', TaskFile)[1] = Content(TaskFile)[1]]_vars

-----------------------------------------------------------------------------
(* Claims of the code that do not hold. *)

\* File::write(): "Write data to the file."
SavedFileIsEdited == [][WriteEnds => ContentOn(disk', TaskFile) = task.buf]_vars

\* SAEditor::reload(): "Reload the save data."
ReloadShowsFile ==
    [][task.kind = "reload" /\ task' = NoTask =>
          \A e \in Editors : e = task.ed => Held(e)' = SlotsIn(Content(TaskFile))]_vars

\* The window on writing: it "can result in the corruption of files that have
\* not been recovered", so not of those that are listed.
ListedFilesIntact ==
    [][\A f \in Files \ LostFiles :
          ContentOn(disk', f) # Content(f) => task.kind = "write" /\ f = TaskFile]_vars
=============================================================================
