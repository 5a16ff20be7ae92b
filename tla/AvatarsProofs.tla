---------------------------- MODULE AvatarsProofs ----------------------------
(***************************************************************************)
(* The pictures of a user for any pictures, any requests in flight and a   *)
(* stop at any step; and, with AccountsProofs, the types of both parts.    *)
(***************************************************************************)
EXTENDS MCAccounts, AccountsProofs

Fetching == {"upload", "refresh", "login", "select"}
TaskRow == [pc : {"waiting", "stored", "saved", "ready", "committed"},
            kind : Fetching \cup Plain \cup {"forget", "animal"},
            variant : Variants, saw : Variants \cup {"animal"}, old : Files \cup {Nothing},
            new : Files \cup {Nothing}, drop : SUBSET Files]
ImageRow == [file : Files \cup {Nothing}, url : BOOLEAN, row : BOOLEAN]

Tables ==
    /\ source \in Variants \cup {"animal", Nothing}
    /\ image \in [Variants -> ImageRow]
    /\ disk \in [Files -> {"absent", "fresh", "old"}]
    /\ task \in [Workers -> TaskRow \cup {Nothing}]
    /\ doomed \in SUBSET Files
    /\ crossed \in BOOLEAN

\* What each handler is at, and which picture it is about.
TaskFit(w) ==
    LET t == task[w] IN
    t # Nothing =>
       /\ t.pc = "waiting" => t.kind \in Fetching
       /\ t.pc = "stored" => t.kind \notin Plain
       /\ t.kind = "upload" => t.variant = "upload" /\ (t.pc = "stored" => t.new # Nothing)
       /\ t.kind \in {"refresh", "login"} => t.variant = "oidc"
       /\ t.kind \in {"forget", "animal"} => t.new = Nothing
       /\ t.kind = "forget" => t.variant = "oidc"
       /\ t.kind = "select" /\ t.variant = "upload" => t.pc # "waiting" /\ t.new = Nothing
TasksFit == \A w \in Workers : TaskFit(w)

\* An upload's row has a file.
UploadHasFile == image["upload"].row => image["upload"].file # Nothing

\* Unless a request removed what another took up: the files of the rows are there;
\* those of requests in flight are new, and so are those that a row has got since
\* the cleaner began.
FileFit(f) ==
    /\ f \in Named => disk[f] # "absent"
    /\ f \in Stored \cup (Named \cap doomed) => disk[f] = "fresh"
FilesFit == ~crossed => \A f \in Files : FileFit(f)

ShownHasRow == ~crossed /\ source \in Variants => image[source].file # Nothing

AvatarsInv == Tables /\ TasksFit /\ UploadHasFile /\ FilesFit /\ ShownHasRow

-----------------------------------------------------------------------------
(* The requests.                                                           *)

LEMMA TaskFields ==
    ASSUME Tables, NEW w \in Workers, task[w] # Nothing
    PROVE  /\ task[w] \in TaskRow
           /\ task[w].pc \in {"waiting", "stored", "saved", "ready", "committed"}
           /\ task[w].kind \in Fetching \cup Plain \cup {"forget", "animal"}
           /\ task[w].variant \in Variants /\ task[w].saw \in Variants \cup {"animal"}
           /\ task[w].old \in Files \cup {Nothing} /\ task[w].new \in Files \cup {Nothing}
           /\ task[w].drop \in SUBSET Files
BY DEF Tables, TaskRow

LEMMA ImageFields ==
    ASSUME Tables, NEW v \in Variants
    PROVE  /\ image[v] \in ImageRow /\ image[v].file \in Files \cup {Nothing}
           /\ image[v].url \in BOOLEAN /\ image[v].row \in BOOLEAN
BY DEF Tables, ImageRow

LEMMA SetTask ==
    ASSUME Tables, NEW w \in Workers, NEW t \in TaskRow \cup {Nothing}, task' = [task EXCEPT ![w] = t]
    PROVE  /\ task' \in [Workers -> TaskRow \cup {Nothing}] /\ task'[w] = t
           /\ \A x \in Workers \ {w} : task'[x] = task[x]
BY DEF Tables

\* A request that is ended or has stored nothing new leaves the stored files.
LEMMA StoredShrinks ==
    ASSUME NEW w \in Workers, \A x \in Workers \ {w} : task'[x] = task[x],
           \/ task'[w] = Nothing \/ task'[w].new = Nothing
           \/ task[w] # Nothing /\ task'[w].new = task[w].new
    PROVE  Stored' \subseteq Stored
BY DEF Stored, Active

LEMMA TasksFitButOne ==
    ASSUME TasksFit, NEW w \in Workers, \A x \in Workers \ {w} : task'[x] = task[x], TaskFit(w)'
    PROVE  TasksFit'
BY DEF TasksFit, TaskFit

\* Nothing but the tasks changes, and no file is stored.
LEMMA FilesAsTheyWere ==
    ASSUME AvatarsInv, UNCHANGED <<source, image, disk, doomed, crossed>>, Stored' \subseteq Stored
    PROVE  UploadHasFile' /\ FilesFit' /\ ShownHasRow'
<1>1. Named' = Named
  BY DEF Named
<1>2. ASSUME ~crossed', NEW f \in Files PROVE FileFit(f)'
  <2>1. FileFit(f)
    BY <1>2 DEF AvatarsInv, FilesFit
  <2> QED
    BY <1>1, <2>1 DEF FileFit
<1> QED
  BY <1>2 DEF AvatarsInv, UploadHasFile, FilesFit, ShownHasRow

-----------------------------------------------------------------------------
(* The steps.                                                              *)

\* What a request is when it is accepted.
Starts(what, v, pc) ==
    /\ what \in Fetching \cup Plain \cup {"forget", "animal"} /\ v \in Variants
    /\ pc \in {"waiting", "stored", "ready"}
    /\ pc = "waiting" => what \in Fetching
    /\ pc = "stored" => what \notin Plain \cup {"upload"}
    /\ what = "upload" => v = "upload"
    /\ what \in {"refresh", "login", "forget"} => v = "oidc"
    /\ what = "select" /\ v = "upload" => pc # "waiting"
Accepts(w) == \E what, v, pc : Accept(w, what, v, pc) /\ Starts(what, v, pc)

LEMMA Acceptances ==
    ASSUME NEW w \in Workers,
           \/ BeginUpload(w) \/ BeginRefresh(w) \/ BeginLogin(w) \/ BeginLink(w) \/ BeginPlain(w)
           \/ \E v \in Variants \cup {"animal"} : BeginSelect(w, v)
    PROVE  Accepts(w)
<1> USE DEF Starts, Accepts, Fetching, Plain, Variants
<1>1. BeginUpload(w) => Accepts(w)
  BY DEF BeginUpload
<1>2. BeginRefresh(w) => Accepts(w)
  BY DEF BeginRefresh
<1>3. BeginLogin(w) => Accepts(w)
  <2>1. ASSUME NEW pc \in {"waiting", "stored"}, Accept(w, "login", "oidc", pc) PROVE Accepts(w)
    BY <2>1
  <2>2. Accept(w, "forget", "oidc", "stored") => Accepts(w)
    OBVIOUS
  <2> HIDE DEF Accepts
  <2> QED
    BY <2>1, <2>2 DEF BeginLogin
<1>4. BeginLink(w) => Accepts(w)
  BY DEF BeginLink
<1>5. BeginPlain(w) => Accepts(w)
  BY DEF BeginPlain
<1>6. ASSUME NEW v \in Variants \cup {"animal"}, BeginSelect(w, v) PROVE Accepts(w)
  BY <1>6 DEF BeginSelect
<1> HIDE DEF Accepts
<1> QED
  BY <1>1, <1>2, <1>3, <1>4, <1>5, <1>6

LEMMA AcceptStep ==
    ASSUME AvatarsInv, NEW w \in Workers, Accepts(w)
    PROVE  AvatarsInv'
<1>1. PICK what, v, pc : Accept(w, what, v, pc) /\ Starts(what, v, pc)
  BY DEF Accepts
<1> DEFINE t == [pc |-> pc, kind |-> what, variant |-> v, saw |-> source,
                 old |-> image[v].file, new |-> Nothing, drop |-> {}]
<1>2. /\ task[w] = Nothing /\ source # Nothing /\ task' = [task EXCEPT ![w] = t]
      /\ UNCHANGED <<source, image, linked, disk, doomed, crossed>>
  BY <1>1 DEF Accept, Gone
<1>3. t \in TaskRow
  <2>1. image[v].file \in Files \cup {Nothing} /\ source \in Variants \cup {"animal"}
    BY <1>1, <1>2, ImageFields DEF Starts, AvatarsInv, Tables
  <2> QED
    BY <1>1, <2>1 DEF Starts, TaskRow
<1>4. t.new = Nothing /\ t.kind = what /\ t.variant = v /\ t.pc = pc
  OBVIOUS
<1> HIDE DEF t
<1>5. /\ task' \in [Workers -> TaskRow \cup {Nothing}] /\ task'[w] = t
      /\ \A x \in Workers \ {w} : task'[x] = task[x]
  BY <1>2, <1>3, SetTask DEF AvatarsInv
<1>6. Stored' \subseteq Stored
  BY <1>4, <1>5, StoredShrinks
<1>7. TasksFit'
  <2>1. TaskFit(w)'
    BY <1>1, <1>4, <1>5 DEF TaskFit, Starts, Fetching, Plain
  <2> QED
    BY <1>5, <2>1, TasksFitButOne DEF AvatarsInv
<1>8. Tables'
  BY <1>2, <1>5 DEF AvatarsInv, Tables
<1> QED
  BY <1>2, <1>6, <1>7, <1>8, FilesAsTheyWere DEF AvatarsInv

LEMMA WriteStep ==
    ASSUME AvatarsInv, NEW w \in Workers, NEW p \in Pictures, Write(w, p)
    PROVE  AvatarsInv'
<1> DEFINE f == <<task[w].variant, p>>
           t == [task[w] EXCEPT !.pc = "stored", !.new = f]
<1>1. /\ task[w] # Nothing /\ task[w].pc = "waiting"
      /\ disk' = [disk EXCEPT ![f] = "fresh"] /\ task' = [task EXCEPT ![w] = t]
      /\ UNCHANGED <<source, image, doomed, crossed>>
  BY DEF Write, At
<1>2. task[w] \in TaskRow /\ f \in Files
  BY <1>1, TaskFields DEF AvatarsInv, Files
<1>3. t \in TaskRow /\ t.new = f /\ t.kind = task[w].kind /\ t.variant = task[w].variant /\ t.pc = "stored"
  BY <1>2 DEF TaskRow
<1> HIDE DEF t
<1>4. /\ task' \in [Workers -> TaskRow \cup {Nothing}] /\ task'[w] = t
      /\ \A x \in Workers \ {w} : task'[x] = task[x]
  BY <1>1, <1>3, SetTask DEF AvatarsInv
<1> HIDE DEF f
<1>5. disk' \in [Files -> {"absent", "fresh", "old"}] /\ disk'[f] = "fresh"
      /\ \A g \in Files \ {f} : disk'[g] = disk[g]
  BY <1>1, <1>2 DEF AvatarsInv, Tables
<1>6. Tables'
  BY <1>1, <1>4, <1>5 DEF AvatarsInv, Tables
<1>7. TasksFit'
  <2>1. TaskFit(w)
    BY DEF AvatarsInv, TasksFit
  <2>2. f # Nothing
    BY <1>2, NothingAssumption
  <2>3. TaskFit(w)'
    BY <1>1, <1>3, <1>4, <2>1, <2>2 DEF TaskFit, Fetching, Plain
  <2> QED
    BY <1>4, <2>3, TasksFitButOne DEF AvatarsInv
<1>8. Stored' \subseteq Stored \cup {f} /\ Named' = Named
  BY <1>1, <1>3, <1>4 DEF Stored, Active, Named
<1>9. ASSUME ~crossed', NEW g \in Files PROVE FileFit(g)'
  <2>1. FileFit(g)
    BY <1>1, <1>9 DEF AvatarsInv, FilesFit
  <2> QED
    BY <1>1, <1>5, <1>8, <2>1 DEF FileFit
<1> QED
  BY <1>1, <1>6, <1>7, <1>9 DEF AvatarsInv, UploadHasFile, FilesFit, ShownHasRow

LEMMA FailStep ==
    ASSUME AvatarsInv, NEW w \in Workers, Fail(w)
    PROVE  AvatarsInv'
<1> DEFINE t == [task[w] EXCEPT !.pc = "stored"]
<1>1. /\ task[w] # Nothing /\ task[w].kind = "login" /\ task' = [task EXCEPT ![w] = t]
      /\ UNCHANGED <<source, image, disk, doomed, crossed>>
  BY DEF Fail, At
<1>2. /\ t \in TaskRow /\ t.new = task[w].new /\ t.kind = "login" /\ t.variant = task[w].variant
      /\ t.pc = "stored"
  BY <1>1, TaskFields DEF AvatarsInv, TaskRow
<1> HIDE DEF t
<1>3. /\ task' \in [Workers -> TaskRow \cup {Nothing}] /\ task'[w] = t
      /\ \A x \in Workers \ {w} : task'[x] = task[x]
  BY <1>1, <1>2, SetTask DEF AvatarsInv
<1>4. Stored' \subseteq Stored
  BY <1>1, <1>2, <1>3, StoredShrinks
<1>5. TasksFit'
  <2>1. TaskFit(w)
    BY DEF AvatarsInv, TasksFit
  <2>2. TaskFit(w)'
    BY <1>1, <1>2, <1>3, <2>1 DEF TaskFit, Plain
  <2> QED
    BY <1>3, <2>2, TasksFitButOne DEF AvatarsInv
<1>6. Tables'
  BY <1>1, <1>3 DEF AvatarsInv, Tables
<1> QED
  BY <1>1, <1>4, <1>5, <1>6, FilesAsTheyWere DEF AvatarsInv

LEMMA AbortTaskStep ==
    ASSUME AvatarsInv, NEW w \in Workers, AbortTask(w)
    PROVE  AvatarsInv'
<1>1. task' = [task EXCEPT ![w] = Nothing] /\ UNCHANGED <<source, image, disk, doomed, crossed>>
  BY DEF AbortTask
<1>2. /\ task' \in [Workers -> TaskRow \cup {Nothing}] /\ task'[w] = Nothing
      /\ \A x \in Workers \ {w} : task'[x] = task[x]
  BY <1>1, SetTask DEF AvatarsInv
<1>3. Stored' \subseteq Stored
  BY <1>2, StoredShrinks
<1>4. TasksFit'
  BY <1>2, TasksFitButOne DEF AvatarsInv, TaskFit
<1>5. Tables'
  BY <1>1, <1>2 DEF AvatarsInv, Tables
<1> QED
  BY <1>1, <1>3, <1>4, <1>5, FilesAsTheyWere DEF AvatarsInv

LEMMA CommittedTask ==
    ASSUME AvatarsInv, NEW w \in Workers, task[w] # Nothing, NEW drop \in SUBSET Files, Committed(w, drop)
    PROVE  /\ task' \in [Workers -> TaskRow \cup {Nothing}] /\ TasksFit' /\ Stored' \subseteq Stored
<1> DEFINE t == [task[w] EXCEPT !.pc = "committed", !.drop = drop]
           new == IF drop = {} THEN Nothing ELSE t
<1>1. t \in TaskRow /\ t.new = task[w].new /\ t.kind = task[w].kind /\ t.variant = task[w].variant
      /\ t.pc = "committed"
  BY TaskFields DEF AvatarsInv, TaskRow
<1>2. task' = [task EXCEPT ![w] = new]
  BY DEF Committed
<1> HIDE DEF t
<1>3. new \in TaskRow \cup {Nothing} /\ (new = Nothing \/ new = t)
  BY <1>1
<1> HIDE DEF new
<1>4. /\ task' \in [Workers -> TaskRow \cup {Nothing}] /\ task'[w] = new
      /\ \A x \in Workers \ {w} : task'[x] = task[x]
  BY <1>2, <1>3, SetTask DEF AvatarsInv
<1>5. Stored' \subseteq Stored
  BY <1>1, <1>3, <1>4, StoredShrinks
<1>6. TaskFit(w)'
  <2>1. TaskFit(w)
    BY DEF AvatarsInv, TasksFit
  <2> QED
    BY <1>1, <1>3, <1>4, <2>1 DEF TaskFit
<1> QED
  BY <1>4, <1>5, <1>6, TasksFitButOne DEF AvatarsInv

\* The row that a request leaves has its picture, or what the row had.
LEMMA RowLeft ==
    ASSUME AvatarsInv, NEW w \in Workers, At(w, "stored")
    PROVE  LET t == task[w] IN
           /\ Row(t) \in ImageRow
           /\ Row(t).file \in {image[t.variant].file, t.new}
           /\ image[t.variant].file # Nothing => Row(t).file # Nothing
           /\ t.variant = "upload" /\ Row(t).row => Row(t).file # Nothing
           /\ t.kind = "upload" => Row(t).file # Nothing
<1> DEFINE t == task[w]
           now == image[t.variant]
<1>0. /\ t # Nothing /\ t.pc = "stored" /\ t.variant \in Variants /\ t.new \in Files \cup {Nothing} /\ TaskFit(w)
      /\ t.kind \in Fetching \cup Plain \cup {"forget", "animal"}
      /\ now \in ImageRow /\ now.file \in Files \cup {Nothing} /\ now.row \in BOOLEAN
  BY TaskFields, ImageFields DEF At, AvatarsInv, TasksFit
<1>1. t.variant = "upload" /\ now.row => now.file # Nothing
  BY DEF AvatarsInv, UploadHasFile
<1>2. CASE t.kind \in {"select", "animal"} /\ t.new = Nothing
  BY <1>0, <1>1, <1>2 DEF Row
<1>3. CASE t.kind = "forget"
  <2>1. Row(t) = [now EXCEPT !.url = FALSE]
    BY <1>3 DEF Row
  <2> QED
    BY <1>0, <1>1, <1>3, <2>1 DEF ImageRow
<1>4. CASE ~(t.kind \in {"select", "animal"} /\ t.new = Nothing) /\ t.kind # "forget"
  <2> DEFINE file == IF t.new = Nothing \/ (t.new = t.old /\ now.row) THEN now.file ELSE t.new
  <2>1. Row(t) = [file |-> file, url |-> t.variant = "oidc", row |-> TRUE]
    BY <1>4 DEF Row
  <2>2. t.variant = "upload" => t.new # Nothing
    BY <1>0, <1>4 DEF TaskFit, Fetching, Plain
  <2>3. Row(t) \in ImageRow
    BY <1>0, <2>1 DEF ImageRow
  <2>4. Row(t).file = file
    BY <2>1
  <2> HIDE DEF Row
  <2>5. t.kind = "upload" => t.variant = "upload"
    BY <1>0 DEF TaskFit
  <2>6. t.variant = "upload" => file # Nothing
    BY <1>1, <2>2
  <2> QED
    BY <1>0, <1>1, <2>3, <2>4, <2>5, <2>6
<1> QED
  BY <1>2, <1>3, <1>4

\* Nothing else is named than before.
LEMMA FewerNames ==
    ASSUME AvatarsInv, UNCHANGED <<disk, doomed>>, Stored' \subseteq Stored, Named' \subseteq Named,
           crossed => crossed'
    PROVE  FilesFit'
<1> SUFFICES ASSUME ~crossed', NEW f \in Files PROVE FileFit(f)'
  BY DEF FilesFit
<1>1. FileFit(f)
  BY DEF AvatarsInv, FilesFit
<1> QED
  BY <1>1 DEF FileFit

\* A request writes its row: what is named was named or stored, so its file is new.
LEMMA RowWritten ==
    ASSUME AvatarsInv, NEW w \in Workers, At(w, "stored"),
           image' = [image EXCEPT ![task[w].variant] = Row(task[w])],
           UNCHANGED <<disk, doomed>>, Stored' \subseteq Stored, crossed => crossed'
    PROVE  /\ image' \in [Variants -> ImageRow] /\ UploadHasFile' /\ FilesFit'
           /\ image'[task[w].variant] = Row(task[w])
           /\ \A u \in Variants : image[u].file # Nothing => image'[u].file # Nothing
<1> DEFINE t == task[w]
           v == t.variant
<1>1. t # Nothing /\ v \in Variants /\ t.new \in Files \cup {Nothing}
  BY TaskFields DEF AvatarsInv, At
<1>2. /\ Row(t) \in ImageRow
      /\ Row(t).file \in {image[v].file, t.new}
      /\ image[v].file # Nothing => Row(t).file # Nothing
      /\ v = "upload" /\ Row(t).row => Row(t).file # Nothing
  BY RowLeft
<1>3. /\ image' \in [Variants -> ImageRow] /\ image'[v] = Row(t)
      /\ \A u \in Variants \ {v} : image'[u] = image[u]
  BY <1>1, <1>2 DEF AvatarsInv, Tables
<1>4. UploadHasFile'
  BY <1>2, <1>3 DEF AvatarsInv, UploadHasFile, Variants
<1>5. ASSUME ~crossed', NEW f \in Files PROVE FileFit(f)'
  <2>1. ~crossed /\ FileFit(f)
    BY <1>5 DEF AvatarsInv, FilesFit
  <2>2. t.new # Nothing => t.new \in Stored
    BY <1>1 DEF Stored, Active
  <2>3. Named' \subseteq Named \cup Stored
    BY <1>1, <1>2, <1>3, <2>2 DEF Named
  <2> QED
    BY <2>1, <2>3 DEF FileFit
<1>6. \A u \in Variants : image[u].file # Nothing => image'[u].file # Nothing
  BY <1>2, <1>3
<1> QED
  BY <1>3, <1>4, <1>5, <1>6 DEF FilesFit

\* The row by itself, before the user's: the file of the shown picture is not lost.
LEMMA SaveRowStep ==
    ASSUME AvatarsInv, NEW w \in Workers, SaveRow(w)
    PROVE  AvatarsInv'
<1> DEFINE t == task[w]
           saved == [t EXCEPT !.pc = "saved"]
<1>1. /\ At(w, "stored") /\ t # Nothing
      /\ image' = [image EXCEPT ![t.variant] = Row(t)]
      /\ Committed(w, Replaced(t)) \/ task' = [task EXCEPT ![w] = saved]
      /\ UNCHANGED <<source, disk, doomed, crossed>>
  BY DEF SaveRow, At
<1>2. t.old \in Files \cup {Nothing} /\ TaskFit(w)
  BY <1>1, TaskFields DEF AvatarsInv, TasksFit
<1>3. task' \in [Workers -> TaskRow \cup {Nothing}] /\ TasksFit' /\ Stored' \subseteq Stored
  <2>1. CASE Committed(w, Replaced(t))
    <3>1. Replaced(t) \in SUBSET Files
      BY <1>2 DEF Replaced
    <3> QED
      BY <1>1, <2>1, <3>1, CommittedTask
  <2>2. CASE task' = [task EXCEPT ![w] = saved]
    <3>1. /\ saved \in TaskRow /\ saved.new = t.new /\ saved.kind = t.kind /\ saved.variant = t.variant
          /\ saved.pc = "saved"
      BY <1>1, TaskFields DEF AvatarsInv, TaskRow
    <3> HIDE DEF saved
    <3>2. /\ task' \in [Workers -> TaskRow \cup {Nothing}] /\ task'[w] = saved
          /\ \A x \in Workers \ {w} : task'[x] = task[x]
      BY <2>2, <3>1, SetTask DEF AvatarsInv
    <3>3. Stored' \subseteq Stored
      BY <1>1, <3>1, <3>2, StoredShrinks
    <3>4. TaskFit(w)'
      BY <1>1, <1>2, <3>1, <3>2 DEF TaskFit, At
    <3> QED
      BY <3>2, <3>3, <3>4, TasksFitButOne DEF AvatarsInv
  <2> QED
    BY <1>1, <2>1, <2>2
<1>4. /\ image' \in [Variants -> ImageRow] /\ UploadHasFile' /\ FilesFit'
      /\ \A u \in Variants : image[u].file # Nothing => image'[u].file # Nothing
  BY <1>1, <1>3, RowWritten
<1>5. ShownHasRow'
  BY <1>1, <1>4 DEF AvatarsInv, ShownHasRow
<1> QED
  BY <1>1, <1>3, <1>4, <1>5 DEF AvatarsInv, Tables

\* The user's row, with the picture's or after it: who shows the picture of a row that
\* has lost its file meanwhile is marked.
LEMMA CommitStep ==
    ASSUME AvatarsInv, NEW w \in Workers, Commit(w)
    PROVE  AvatarsInv'
<1> DEFINE t == task[w]
           v == t.variant
           row == IF t.pc = "saved" THEN image[v] ELSE Row(t)
<1>1. /\ At(w, "saved") \/ At(w, "stored")
      /\ image' = [image EXCEPT ![v] = row] /\ source' = Shows(t, Choice(t))
      /\ Committed(w, Replaced(t))
      /\ crossed' = (crossed \/ (t.kind \in {"upload", "select"} /\ row.file = Nothing))
      /\ UNCHANGED <<disk, doomed>>
  BY DEF Commit, At
<1>2. /\ t # Nothing /\ v \in Variants /\ t.old \in Files \cup {Nothing}
      /\ t.saw \in Variants \cup {"animal"} /\ TaskFit(w)
  BY <1>1, TaskFields DEF AvatarsInv, TasksFit, At
<1>3. Replaced(t) \in SUBSET Files
  BY <1>2 DEF Replaced
<1>4. task' \in [Workers -> TaskRow \cup {Nothing}] /\ TasksFit' /\ Stored' \subseteq Stored
  BY <1>1, <1>2, <1>3, CommittedTask
<1>5. /\ image' \in [Variants -> ImageRow] /\ UploadHasFile' /\ FilesFit' /\ image'[v] = row
      /\ \A u \in Variants : image[u].file # Nothing => image'[u].file # Nothing
  <2>1. CASE At(w, "saved")
    <3>1. row = image[v]
      BY <2>1 DEF At
    <3>2. image' = image
      BY <1>1, <1>2, <3>1 DEF AvatarsInv, Tables
    <3>3. Named' = Named
      BY <3>2 DEF Named
    <3>4. FilesFit'
      BY <1>1, <1>4, <3>3, FewerNames
    <3> QED
      BY <3>1, <3>2, <3>4 DEF AvatarsInv, Tables, UploadHasFile
  <2>2. CASE At(w, "stored")
    <3>1. row = Row(t)
      BY <2>2 DEF At
    <3> QED
      BY <1>1, <1>4, <2>2, <3>1, RowWritten
  <2> QED
    BY <1>1, <2>1, <2>2
<1> HIDE DEF row
<1>6. \/ source' = source
      \/ t.kind = "upload" /\ source' = "upload" /\ v = "upload"
      \/ t.kind = "select" /\ source' = v
      \/ source' = "animal"
  BY <1>1, <1>2 DEF Shows, Choice, TaskFit
<1>7. Tables'
  BY <1>1, <1>2, <1>4, <1>5, <1>6 DEF AvatarsInv, Tables
<1>8. ShownHasRow'
  <2> SUFFICES ASSUME ~crossed', source' \in Variants PROVE image'[source'].file # Nothing
    BY DEF ShownHasRow
  <2>1. ~crossed /\ (t.kind \in {"upload", "select"} => row.file # Nothing)
    BY <1>1
  <2>2. CASE source' = source
    BY <1>5, <2>1, <2>2 DEF AvatarsInv, ShownHasRow
  <2>3. CASE source' = "animal"
    BY <2>3 DEF Variants
  <2> QED
    BY <1>5, <1>6, <2>1, <2>2, <2>3
<1> QED
  BY <1>4, <1>5, <1>7, <1>8 DEF AvatarsInv

LEMMA NoRowTyped == NoRow \in ImageRow /\ NoRow.file = Nothing /\ ~NoRow.row
BY DEF NoRow, ImageRow

LEMMA CommitRemovalStep ==
    ASSUME AvatarsInv, NEW w \in Workers, CommitRemoval(w)
    PROVE  AvatarsInv'
<1> DEFINE t == task[w]
           v == t.variant
           choice == IF t.saw = v THEN Fallback(v) ELSE t.saw
<1>1. /\ At(w, "ready") /\ t # Nothing /\ source # Nothing
      /\ image' = [image EXCEPT ![v] = NoRow] /\ source' = Shows(t, choice)
      /\ Committed(w, {image[v].file} \ {Nothing})
      /\ crossed' = (crossed \/ (source = v /\ t.saw # v))
      /\ UNCHANGED <<disk, doomed>>
  BY DEF CommitRemoval, At, Gone
<1>2. v \in Variants /\ t.saw \in Variants \cup {"animal"}
  BY <1>1, TaskFields DEF AvatarsInv
<1>3. {image[v].file} \ {Nothing} \in SUBSET Files
  BY <1>2, ImageFields DEF AvatarsInv
<1>4. task' \in [Workers -> TaskRow \cup {Nothing}] /\ TasksFit' /\ Stored' \subseteq Stored
  BY <1>1, <1>3, CommittedTask
<1>5. /\ image' \in [Variants -> ImageRow] /\ image'[v] = NoRow
      /\ \A u \in Variants \ {v} : image'[u] = image[u]
  BY <1>1, <1>2, NoRowTyped DEF AvatarsInv, Tables
<1>6. Another(v) \in Variants \ {v}
  <2>1. \E u \in Variants : u # v
    BY <1>2 DEF Variants
  <2> QED
    BY <2>1 DEF Another
<1>7. Fallback(v) = "animal" \/ (Fallback(v) = Another(v) /\ image[Another(v)].file # Nothing)
  BY DEF Fallback, Has
<1>8. Tables'
  <2>1. source' \in Variants \cup {"animal"}
    BY <1>1, <1>2, <1>6, <1>7 DEF Shows, AvatarsInv, Tables
  <2> QED
    BY <1>1, <1>4, <1>5, <2>1 DEF AvatarsInv, Tables
<1>9. UploadHasFile'
  BY <1>5, NoRowTyped DEF AvatarsInv, UploadHasFile, Variants
<1>10. ShownHasRow'
  <2> SUFFICES ASSUME ~crossed', source' \in Variants PROVE image'[source'].file # Nothing
    BY DEF ShownHasRow
  <2>1. CASE t.saw = v
    <3>1. "animal" # v
      BY <1>2 DEF Variants
    <3>2. source' = Fallback(v)
      BY <1>1, <1>6, <1>7, <2>1, <3>1 DEF Shows
    <3>3. source' # "animal"
      BY DEF Variants
    <3> QED
      BY <1>5, <1>6, <1>7, <3>2, <3>3
  <2>2. CASE t.saw # v
    <3>1. source' = source /\ source # v /\ ~crossed
      BY <1>1, <2>2 DEF Shows
    <3> QED
      BY <1>5, <3>1 DEF AvatarsInv, ShownHasRow
  <2> QED
    BY <2>1, <2>2
<1>11. Named' \subseteq Named
  BY <1>2, <1>5, NoRowTyped DEF Named
<1> QED
  BY <1>1, <1>4, <1>8, <1>9, <1>10, <1>11, FewerNames DEF AvatarsInv

LEMMA CommitEraseStep ==
    ASSUME AvatarsInv, NEW w \in Workers, CommitErase(w)
    PROVE  AvatarsInv'
<1>1. /\ task[w] # Nothing
      /\ image' = [v \in Variants |-> NoRow] /\ source' = Nothing
      /\ Committed(w, {image[v].file : v \in Variants} \ {Nothing})
      /\ UNCHANGED <<disk, doomed, crossed>>
  BY DEF CommitErase, At
<1>2. {image[v].file : v \in Variants} \ {Nothing} \in SUBSET Files
  BY ImageFields DEF AvatarsInv
<1>3. task' \in [Workers -> TaskRow \cup {Nothing}] /\ TasksFit' /\ Stored' \subseteq Stored
  BY <1>1, <1>2, CommittedTask
<1>4. Tables'
  BY <1>1, <1>3, NoRowTyped DEF AvatarsInv, Tables
<1>5. UploadHasFile' /\ ShownHasRow'
  BY <1>1, NoRowTyped, NothingAssumption DEF UploadHasFile, ShownHasRow, Variants
<1>6. Named' \subseteq Named
  BY <1>1, NoRowTyped DEF Named
<1> QED
  BY <1>1, <1>3, <1>4, <1>5, <1>6, FewerNames DEF AvatarsInv

LEMMA UnlinkStep ==
    ASSUME AvatarsInv, NEW w \in Workers, NEW f \in Files, Unlink(w, f)
    PROVE  AvatarsInv'
<1> DEFINE t == [task[w] EXCEPT !.drop = task[w].drop \ {f}]
           new == IF task[w].drop = {f} THEN Nothing ELSE t
<1>1. /\ task[w] # Nothing /\ disk' = [disk EXCEPT ![f] = "absent"]
      /\ task' = [task EXCEPT ![w] = new]
      /\ crossed' = (crossed \/ f \in Named \cup Stored)
      /\ UNCHANGED <<source, image, doomed>>
  BY DEF Unlink, At
<1>2. t \in TaskRow /\ t.new = task[w].new /\ t.kind = task[w].kind /\ t.variant = task[w].variant
      /\ t.pc = task[w].pc
  BY <1>1, TaskFields DEF AvatarsInv, TaskRow
<1> HIDE DEF t
<1>3. new \in TaskRow \cup {Nothing} /\ (new = Nothing \/ new = t)
  BY <1>2
<1> HIDE DEF new
<1>4. /\ task' \in [Workers -> TaskRow \cup {Nothing}] /\ task'[w] = new
      /\ \A x \in Workers \ {w} : task'[x] = task[x]
  BY <1>1, <1>3, SetTask DEF AvatarsInv
<1>5. Stored' \subseteq Stored
  BY <1>1, <1>2, <1>3, <1>4, StoredShrinks
<1>6. TasksFit'
  <2>1. TaskFit(w)
    BY DEF AvatarsInv, TasksFit
  <2>2. TaskFit(w)'
    BY <1>1, <1>2, <1>3, <1>4, <2>1 DEF TaskFit
  <2> QED
    BY <1>4, <2>2, TasksFitButOne DEF AvatarsInv
<1>7. Tables'
  BY <1>1, <1>4 DEF AvatarsInv, Tables
<1>8. Named' = Named
  BY <1>1 DEF Named
<1>9. ASSUME ~crossed', NEW g \in Files PROVE FileFit(g)'
  <2>1. ~crossed /\ f \notin Named \cup Stored /\ FileFit(g)
    BY <1>1, <1>9 DEF AvatarsInv, FilesFit
  <2>2. g # f => disk'[g] = disk[g]
    BY <1>1 DEF AvatarsInv, Tables
  <2> QED
    BY <1>1, <1>5, <1>8, <2>1, <2>2 DEF FileFit
<1> QED
  BY <1>1, <1>6, <1>7, <1>9 DEF AvatarsInv, UploadHasFile, FilesFit, ShownHasRow

\* The cleaner has nothing to do with what is named when it begins, and nothing
\* grows old before it is through.
LEMMA CleanerStep ==
    ASSUME AvatarsInv, BeginClean \/ \E f \in Files : CleanFile(f) \/ Age(f)
    PROVE  AvatarsInv'
<1>1. UNCHANGED <<source, image, task, crossed>>
  BY DEF BeginClean, CleanFile, Age
<1>2. Named' = Named /\ Stored' = Stored /\ TasksFit' /\ UploadHasFile' /\ ShownHasRow'
  BY <1>1 DEF Named, Stored, Active, TasksFit, TaskFit, UploadHasFile, ShownHasRow, AvatarsInv
<1>3. CASE BeginClean
  <2>1. doomed' = Files \ Named /\ disk' = disk
    BY <1>3 DEF BeginClean
  <2>2. Tables'
    BY <1>1, <2>1 DEF AvatarsInv, Tables
  <2>3. ASSUME ~crossed', NEW g \in Files PROVE FileFit(g)'
    <3>1. FileFit(g)
      BY <1>1, <2>3 DEF AvatarsInv, FilesFit
    <3> QED
      BY <1>2, <2>1, <3>1 DEF FileFit
  <2> QED
    BY <1>2, <2>2, <2>3 DEF AvatarsInv, FilesFit
<1>4. ASSUME NEW f \in Files, CleanFile(f) PROVE AvatarsInv'
  <2>1. /\ f \in doomed /\ doomed' = doomed \ {f}
        /\ disk' = [disk EXCEPT ![f] = IF disk[f] = "old" THEN "absent" ELSE disk[f]]
    BY <1>4 DEF CleanFile
  <2>2. /\ disk' \in [Files -> {"absent", "fresh", "old"}]
        /\ disk'[f] = IF disk[f] = "old" THEN "absent" ELSE disk[f]
        /\ \A g \in Files \ {f} : disk'[g] = disk[g]
    BY <2>1 DEF AvatarsInv, Tables
  <2>3. Tables'
    BY <1>1, <2>1, <2>2 DEF AvatarsInv, Tables
  <2>4. ASSUME ~crossed', NEW g \in Files PROVE FileFit(g)'
    <3>1. FileFit(g)
      BY <1>1, <2>4 DEF AvatarsInv, FilesFit
    <3> QED
      BY <1>2, <2>1, <2>2, <3>1 DEF FileFit
  <2> QED
    BY <1>2, <2>3, <2>4 DEF AvatarsInv, FilesFit
<1>5. ASSUME NEW f \in Files, Age(f) PROVE AvatarsInv'
  <2>1. f \notin Stored /\ doomed = {} /\ doomed' = doomed /\ disk' = [disk EXCEPT ![f] = "old"]
    BY <1>5 DEF Age
  <2>2. /\ disk' \in [Files -> {"absent", "fresh", "old"}] /\ disk'[f] = "old"
        /\ \A g \in Files \ {f} : disk'[g] = disk[g]
    BY <2>1 DEF AvatarsInv, Tables
  <2>3. Tables'
    BY <1>1, <2>1, <2>2 DEF AvatarsInv, Tables
  <2>4. ASSUME ~crossed', NEW g \in Files PROVE FileFit(g)'
    <3>1. FileFit(g)
      BY <1>1, <2>4 DEF AvatarsInv, FilesFit
    <3> QED
      BY <1>2, <2>1, <2>2, <3>1 DEF FileFit
  <2> QED
    BY <1>2, <2>3, <2>4 DEF AvatarsInv, FilesFit
<1> QED
  BY <1>3, <1>4, <1>5

-----------------------------------------------------------------------------
(* The theorems.                                                           *)

LEMMA InitAvatarsInv == ASSUME InitAvatars PROVE AvatarsInv
<1> USE DEF InitAvatars
<1>1. Tables
  BY NoRowTyped DEF Tables
<1>2. TasksFit /\ Stored = {} /\ Named = {}
  BY NoRowTyped DEF TasksFit, TaskFit, Stored, Active, Named
<1>3. UploadHasFile /\ ShownHasRow
  BY NoRowTyped DEF UploadHasFile, ShownHasRow, Variants
<1> QED
  BY <1>1, <1>2, <1>3 DEF AvatarsInv, FilesFit, FileFit

LEMMA AvatarsInvStep == ASSUME AvatarsInv, [AvatarsNext]_avatarVars PROVE AvatarsInv'
<1>1. CASE UNCHANGED avatarVars
  <2>1. UNCHANGED <<source, image, disk, task, doomed, crossed>>
    BY <1>1 DEF avatarVars
  <2>2. Named' = Named /\ Stored' = Stored
    BY <2>1 DEF Named, Stored, Active
  <2> QED
    BY <2>1, <2>2 DEF AvatarsInv, Tables, TasksFit, TaskFit, UploadHasFile, FilesFit, FileFit, ShownHasRow
<1>2. ASSUME NEW w \in Workers,
             \/ BeginUpload(w) \/ BeginRefresh(w) \/ BeginLogin(w) \/ BeginLink(w) \/ BeginPlain(w)
             \/ \E v \in Variants \cup {"animal"} : BeginSelect(w, v)
      PROVE  AvatarsInv'
  BY <1>2, Acceptances, AcceptStep
<1> QED
  BY <1>1, <1>2, WriteStep, FailStep, AbortTaskStep, SaveRowStep, CommitStep, CommitRemovalStep, CommitEraseStep,
     UnlinkStep, CleanerStep DEF AvatarsNext

LEMMA InvImpliesSelected == ASSUME AvatarsInv PROVE SelectedHasFile
<1> SUFFICES ASSUME source \in Variants, ~crossed PROVE Has(source)
  BY DEF SelectedHasFile
<1>1. image[source].file # Nothing /\ image[source].file \in Files
  BY ImageFields DEF AvatarsInv, ShownHasRow
<1>2. image[source].file \in Named
  BY <1>1 DEF Named
<1> QED
  BY <1>1, <1>2 DEF AvatarsInv, FilesFit, FileFit, Has

\* Whatever was uploaded, removed, replaced, fetched, cleaned up or cut short: the
\* picture that a user shows is on the disk.  Exempt is what follows when a row was
\* removed between an upload's or a selection's look at it, or its saving of it, and
\* its commit; when a removal met another source than it had read; and when a file was
\* unlinked that a row or a request had taken up since.
THEOREM SelectedHasFileAlways == AvatarsSpec => []SelectedHasFile
<1>1. InitAvatars => AvatarsInv
  BY InitAvatarsInv
<1>2. AvatarsInv /\ [AvatarsNext]_avatarVars => AvatarsInv'
  BY AvatarsInvStep
<1>3. AvatarsInv => SelectedHasFile
  BY InvImpliesSelected
<1> QED
  BY <1>1, <1>2, <1>3, PTL DEF AvatarsSpec

\* The tables of the accounts and of the pictures have their types in every behaviour
\* that is about one or the other.
THEOREM AllTypesCorrect == Spec => []TypeOK
<1>1. MCInit => AccountsInv /\ AvatarsInv
  BY InitAccountsInv, InitAvatarsInv DEF MCInit
<1>2. AccountsInv /\ AvatarsInv /\ [MCNext]_allVars => AccountsInv' /\ AvatarsInv'
  <2> SUFFICES ASSUME AccountsInv, AvatarsInv, [MCNext]_allVars PROVE AccountsInv' /\ AvatarsInv'
    OBVIOUS
  <2>1. [AccountsNext]_vars /\ [AvatarsNext]_avatarVars
    BY DEF MCNext, allVars
  <2> QED
    BY <2>1, AccountsInvStep, AvatarsInvStep
<1>3. AccountsInv /\ AvatarsInv => TypeOK
  BY InvImpliesTypes, ImageFields DEF TypeOK, AvatarsTypes, AvatarsInv, Tables
<1> QED
  BY <1>1, <1>2, <1>3, PTL DEF Spec
=============================================================================
