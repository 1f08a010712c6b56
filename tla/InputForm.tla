------------------------------ MODULE InputForm ------------------------------
(***************************************************************************)
(* The form in which a user composes the input of a workflow               *)
(* (components/workflow/multimodal-input.tsx, components/inputs/): tabs    *)
(* that attach files in different ways to one list, the list, and a        *)
(* submission that may come back to be edited.  The list is kept by kind   *)
(* of file, in the order in which they came: the order between the kinds,  *)
(* the previews, the messages and the look of a drag are left out.         *)
(***************************************************************************)
EXTENDS Naturals, Sequences, SequencesExt

CONSTANTS
    Modes,       \* config.input.modes: the tabs, the first one is open at the start
    Accepts,     \* config.input.accept, as the kinds of file it stands for
    MaxAttached, \* config.input.maxFiles
    Selections,  \* what a user may choose at once: of each kind, whether each file has a legal size
    Picks        \* bound: times the user chooses something

\* What the form tells files apart by; a recording is an audio file.
FileTypes == {"document", "image", "audio", "other"}

ASSUME InputFormAssumption ==
    /\ Modes \in Seq({"text", "file", "image", "audio"}) /\ Modes # <<>>
    /\ Accepts \subseteq FileTypes /\ MaxAttached \in Nat /\ Picks \in Nat
    /\ Selections \subseteq [FileTypes -> Seq(BOOLEAN)]

VARIABLES
    open,     \* the open tab; "" when the form is not shown
    attached, \* the files of the form, by kind
    wrote,    \* whether its text says something
    handed,   \* the input that was submitted, the form's defaultValues; NoInput at the start
    picks     \* how often the user chose something

formVars == <<open, attached, wrote, handed, picks>>

NoFiles == [kind \in FileTypes |-> <<>>]
NoInput == [files |-> NoFiles, text |-> FALSE]

\* useForm with its defaultValues.
Begins(given) == open' = Modes[1] /\ attached' = given.files /\ wrote' = given.text

FormInit ==
    /\ open = Modes[1] /\ attached = NoFiles /\ wrote = FALSE /\ handed = NoInput /\ picks = 0

-----------------------------------------------------------------------------
(* The user. *)

OpenTab(mode) ==
    /\ open \notin {"", mode} /\ open' = mode /\ UNCHANGED <<attached, wrote, handed, picks>>

\* The text area, and the examples under it.
Write ==
    /\ open = "text" /\ wrote' \in BOOLEAN /\ UNCHANGED <<open, attached, handed, picks>>

\* matchesAccept, over what was chosen or dropped: the rest is refused.  A file is a file of its own,
\* also when it is chosen again.
Matching(chosen, kinds) ==
    [kind \in FileTypes |-> IF kind \in kinds
                            THEN [i \in DOMAIN chosen[kind] |-> [id |-> <<picks, kind, i>>, fits |-> chosen[kind][i]]]
                            ELSE <<>>]

Picking(mode) == open = mode /\ picks < Picks /\ picks' = picks + 1 /\ UNCHANGED <<open, wrote, handed>>

\* addFiles: after the files that are there.
AddFiles(files) == attached' = [kind \in FileTypes |-> attached[kind] \o files[kind]]

PickFiles(chosen) == Picking("file") /\ AddFiles(Matching(chosen, Accepts))

\* AUDIO_ACCEPT; and a recording that the user keeps.
PickAudio(chosen) == Picking("audio") /\ AddFiles(Matching(chosen, {"audio"}))
KeepRecording(fits) ==
    Picking("audio") /\ AddFiles(Matching([NoFiles EXCEPT !["audio"] = <<fits>>], {"audio"}))

\* Mutant of Full: a dropzone that is disabled takes what is dropped on it.
FullIgnored == FALSE

\* Both dropzones of the image tab are disabled while there are as many images as may be.
Full == Len(attached["image"]) >= MaxAttached

\* files.slice(0, n).
Slice(files, n) == SubSeq(files, 1, IF Len(files) < n THEN Len(files) ELSE n)

\* The image tab replaces the images by its own list, cut at the limit; a photo is taken alone.
PickImages(chosen, multiple) ==
    /\ Picking("image") /\ ~Full
    /\ LET images == Matching(chosen, {"image"})["image"]
       IN  attached' = [attached EXCEPT !["image"] =
               Slice(@ \o (IF multiple THEN images ELSE Slice(images, 1)), MaxAttached)]

\* The list of attached files, under every tab: one of them is removed.
Detach(kind, i) ==
    /\ open # "" /\ attached' = [attached EXCEPT ![kind] = RemoveAt(@, i)]
    /\ UNCHANGED <<open, wrote, handed, picks>>

\* handleSubmit: what the schema accepts is submitted and the form goes; what it does not accept stays.
Count == Len(attached["document"]) + Len(attached["image"]) + Len(attached["audio"]) + Len(attached["other"])
SubmitForm ==
    /\ open # "" /\ Count <= MaxAttached /\ (wrote \/ Count > 0)
    /\ \A kind \in FileTypes : \A i \in DOMAIN attached[kind] : attached[kind][i].fits
    /\ handed' = [files |-> attached, text |-> wrote] /\ open' = ""
    /\ attached' = NoFiles /\ wrote' = FALSE /\ UNCHANGED picks

\* "Cancel" or "Edit input": the form is mounted again, with the input.
Edit == open = "" /\ Begins(handed) /\ UNCHANGED <<handed, picks>>

\* A new input after a result.
Anew == open = "" /\ handed' = NoInput /\ Begins(NoInput) /\ UNCHANGED picks

FormNext ==
    \/ (\E i \in DOMAIN Modes : OpenTab(Modes[i])) \/ Write
    \/ \E fits \in BOOLEAN : KeepRecording(fits)
    \/ \E chosen \in Selections :
          \/ PickFiles(chosen) \/ PickAudio(chosen)
          \/ \E multiple \in BOOLEAN : PickImages(chosen, multiple)
    \/ \E kind \in FileTypes : \E i \in DOMAIN attached[kind] : Detach(kind, i)
    \/ SubmitForm \/ Edit \/ Anew

FormSpec == FormInit /\ [][FormNext]_formVars

-----------------------------------------------------------------------------
(* What is claimed. *)

\* The files the user composes the input of: those of the form, or of the submitted input.
AllFiles == UNION {ToSet((IF open = "" THEN handed.files ELSE attached)[kind]) : kind \in FileTypes}

\* What a step may do to them: nothing goes; or one is removed, and nothing is chosen; or a new input begins.
KeepsFiles ==
    \/ AllFiles \subseteq AllFiles'
    \/ picks' = picks /\ \E f \in AllFiles : AllFiles \ {f} \subseteq AllFiles'
    \/ open = "" /\ handed' = NoInput

\* Whatever tab adds files, limits what it adds, or is closed, and however often the input is
\* submitted and taken back to be edited: the files attached before are still there, all of them, or all but
\* the one that the user removed, or the user began anew.
FilesStay == [][KeepsFiles]_formVars
==============================================================================
