------------------------------- MODULE Prop -------------------------------
(***************************************************************************)
(* The store of parameters (utils/prop/src/prop.c, prop_manager.c) as      *)
(* hal/src/sys_param.c uses it: the parameters are read from a text file   *)
(* when the unit starts, kept in a tree, and written to two files, each    *)
(* with its MD5 in the last line, whenever one of them changes.            *)
(*                                                                         *)
(* A tree is a function from the names that are set to their values; the   *)
(* names are those that steer the boot, in the order of the file, which is *)
(* the alphabet's.  A file is what the next reading finds in it.  Where    *)
(* writing broke off in the MD5 line, it is spoilt; where it broke off     *)
(* before, it looks like a file that never had a digest, and the lines at  *)
(* its end are missing.  A line broken off in the middle counts as         *)
(* missing: what is left of it is an empty value or no event's number.     *)
(*                                                                         *)
(* saveAllToFile and the reading are lists of operations on the files, of  *)
(* which each may be the last before a loss of power.                      *)
(***************************************************************************)
EXTENDS Integers, Sequences, SequencesExt, Functions

CONSTANT MaxMishaps  \* bound: failing writes, losses of power, failing starts of the modem

ASSUME PropAssumption == MaxMishaps \in Nat

VARIABLES
  tree,        \* the parameters in RAM
  files,       \* the main file and the backup
  todo,        \* operations of the saving or reading under way
  owner,       \* the task that saves and holds the mutex, or "none"
  mishaps,     \* used up of the bound
  agreed       \* history: both files held the tree when the last saving ended

propVars == <<tree, files, todo, owner, mishaps, agreed>>

Names == <<"era_restart", "restart_reason", "tr_cnt">>
Defaults == [era_restart |-> 0, restart_reason |-> "DEFAULT", tr_cnt |-> 0]

Absent == [form |-> "absent"]
Spoilt == [form |-> "spoilt"]
Whole(v) == [form |-> "whole", kept |-> v]
Cut(v) == [form |-> "cut", kept |-> v]

\* What writing v leaves behind when it breaks off.
FirstNames(k) == {Names[i] : i \in 1..k}
Remains(v) ==
  {Spoilt} \cup {Cut(Restrict(v, FirstNames(k) \cap DOMAIN v)) : k \in 0..Len(Names)}

DeleteFile(f) == [op |-> "unlink", file |-> f]

\* Of a writing that fails, skip is the number of operations that are given up with it.
WriteTo(f, v, skip) == [op |-> "write", file |-> f, text |-> v, skip |-> skip]

\* saveAllToFile: the backup is left alone when the main file could not be written.
SaveAll(v) ==
  <<DeleteFile("main"), WriteTo("main", v, 2), DeleteFile("backup"), WriteTo("backup", v, 0)>>

\* checkBackupFile: a backup without a digest gets one and keeps its own contents; one
\* that is spoilt or missing is written from the main file, which holds v (twice).
CheckBackup(v) ==
  CASE files.backup.form = "whole" -> <<>>
    [] files.backup.form = "cut" -> <<DeleteFile("backup"), WriteTo("backup", files.backup.kept, 0)>>
    [] OTHER -> <<DeleteFile("backup"), WriteTo("backup", v, 0), WriteTo("backup", v, 0)>>

\* readAllFromFile, and readAll, for which a missing main file is nothing to read:
\* the parameters found and the operations that follow.  When nothing could be read
\* init_sys_params saves the empty tree.
NothingRead == [found |-> <<>>, then |-> SaveAll(<<>>)]

ReadAll ==
  CASE files.main.form = "whole" ->
         [found |-> files.main.kept, then |-> CheckBackup(files.main.kept)]
    [] files.main.form = "cut" ->
         [found |-> files.main.kept,
          then |-> <<WriteTo("main", files.main.kept, 0)>> \o CheckBackup(files.main.kept)]
    [] files.main.form = "spoilt" /\ files.backup.form = "whole" ->
         [found |-> files.backup.kept, then |-> SaveAll(files.backup.kept)]
    [] OTHER -> NothingRead

----------------------------------------------------------------------------
PropInit ==
  /\ tree = Defaults
  /\ files \in {[main |-> Whole(Defaults), backup |-> Whole(Defaults)],
               [main |-> Absent, backup |-> Absent]}
  /\ todo = <<>> /\ owner = "none" /\ mishaps = 0 /\ agreed = FALSE

Mishap == mishaps < MaxMishaps /\ mishaps' = mishaps + 1

\* set_int_par of task t: the value changes in RAM and everything is saved, under the
\* mutex of the parameters.
ParamsFree == owner = "none"

Save(t, v) ==
  /\ ParamsFree
  /\ tree' = v
  /\ todo' = SaveAll(v) /\ owner' = t
  /\ UNCHANGED <<files, mishaps, agreed>>

SetParam(t, name, value) == Save(t, [tree EXCEPT ![name] = value])

\* init_sys_params: the parameters are read, those that are missing or were not read get
\* their defaults and are saved once more.
WithDefaults(v) ==
  [n \in DOMAIN Defaults |-> IF n \in DOMAIN v THEN v[n] ELSE Defaults[n]]

InitSysParams ==
  /\ tree' = WithDefaults(ReadAll.found)
  /\ todo' = ReadAll.then \o
       (IF DOMAIN ReadAll.found = DOMAIN Defaults THEN <<>> ELSE SaveAll(tree'))
  /\ owner' = "main"
  /\ UNCHANGED <<files, mishaps, agreed>>

\* The next operation is done.  m2mb_fs_unlink of a missing file changes nothing.
FileOperation ==
  /\ todo # <<>>
  /\ files' = [files EXCEPT ![Head(todo).file] =
                IF Head(todo).op = "unlink" THEN Absent ELSE Whole(Head(todo).text)]
  /\ todo' = Tail(todo)
  /\ UNCHANGED <<tree, owner, mishaps, agreed>>

\* writeToFile fails: the file cannot be opened or takes only a part.  The caller goes
\* on with the new value all the same.  Only of a unit that runs.
WriteFails ==
  /\ todo # <<>> /\ Head(todo).op = "write" /\ owner # "main"
  /\ Mishap
  /\ \E r \in Remains(Head(todo).text) \cup {files[Head(todo).file]} :
       files' = [files EXCEPT ![Head(todo).file] = r]
  /\ todo' = SubSeq(todo, Head(todo).skip + 2, Len(todo))
  /\ UNCHANGED <<tree, owner, agreed>>

\* The mutex is given back.
Saved ==
  /\ owner # "none" /\ todo = <<>>
  /\ owner' = "none"
  /\ agreed' = (files = [main |-> Whole(tree), backup |-> Whole(tree)])
  /\ UNCHANGED <<tree, files, todo, mishaps>>

PropNext == FileOperation \/ WriteFails \/ Saved

\* The unit loses its RAM, perhaps in the middle of a writing.
LosesRam ==
  /\ \/ UNCHANGED files
     \/ /\ todo # <<>> /\ Head(todo).op = "write"
        /\ \E r \in Remains(Head(todo).text) : files' = [files EXCEPT ![Head(todo).file] = r]
  /\ todo' = <<>> /\ owner' = "none" /\ tree' = Defaults /\ agreed' = FALSE

\* What the next reading can rely on after the step: a whole main file, or one that is
\* spoilt beside a backup that agreed with it before the saving that was broken off.
Readable == files'.main.form = "whole" \/ (files'.main.form = "spoilt" /\ agreed)
===========================================================================
