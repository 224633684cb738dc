---------------------------- MODULE UploadsProofs -----------------------------
(***************************************************************************)
(* Proofs about uploaded pictures, for any rows, files and number of        *)
(* overlapping uploads: if nobody edits a row that an upload works on, the  *)
(* picture a row names is on the disk, wherever the process dies and        *)
(* whichever save fails.  The files that edits name by hand, and those they *)
(* take the place of, are left out throughout.                              *)
(*                                                                         *)
(* The argument is about who mentions a file.  The file of an upload that   *)
(* has not saved its row is named by nobody else; a row's file is named by  *)
(* no other row; and the file an upload is about to remove was its row's    *)
(* once, will be again never, and is no other row's.                        *)
(*                                                                         *)
(* Uploads that follow one another lose no file and leave none behind: what *)
(* is on the disk is what the rows name, and what the one call in flight is *)
(* about to name or to remove, but for what a handler that died or a call   *)
(* that was refused is to blame for.                                        *)
(***************************************************************************)
EXTENDS UploadsProps, TLAPS

Row == [file : Files \cup {NULL}]

PCs == {"idle", "find", "undo", "reload", "write", "insert", "remove first",
        "remove"}

Call == [pc : PCs, slot : Slots \cup {NULL}, file : Files \cup {NULL},
         previous : Files \cup {NULL}, copy : Row \cup {NULL},
         dirty : SUBSET {"file"}]

\* An upload whose row does not name its file yet.
Pending(call) ==
    /\ call.file # NULL
    /\ call.pc \in {"find", "undo", "reload", "write", "insert", "remove first"}

\* What a call knows of the rows and the disk, but for the files of edits by
\* hand.
Good(table, files, hand, call) ==
    /\ call \in Call
    /\ call.pc # "idle" => call.slot \in Slots
    /\ call.pc \in {"find", "undo", "insert", "remove first", "remove"} =>
           call.file # NULL
    /\ call.pc \in {"reload", "write", "insert", "remove first"} =>
           /\ call.copy \in Row
           /\ call.file # NULL => call.copy.file = call.file
           /\ call.file = NULL =>
                  \/ call.copy.file = table[call.slot].file
                  \/ {call.copy.file, table[call.slot].file} \subseteq hand \cup {NULL}
    /\ call.pc = "write" /\ call.file # NULL => call.dirty = {"file"}
    /\ Pending(call) => table[call.slot].file # call.file
    /\ Pending(call) /\ call.file \notin hand =>
           /\ call.file \in files
           /\ call.file # call.previous
           /\ \A s \in Slots : table[s].file # call.file
    /\ call.previous \notin hand \cup {NULL} =>
           \A s \in Slots : s # call.slot => table[s].file # call.previous
    /\ call.pc = "remove" /\ call.previous \notin hand \cup {NULL} =>
           table[call.slot].file # call.previous
    /\ call.pc = "remove first" => call.slot \in Documents

\* Nobody mentions the file of another's pending upload.
Apart(hand, b, c) ==
    Pending(b) => b.file # c.file /\ (b.file \notin hand => b.file # c.previous)

\* No two rows name one file.
RowsApart ==
    \A s, t \in Slots :
        s # t /\ rows[s].file \notin byHand \cup {NULL} => rows[s].file # rows[t].file

\* The inductive invariant.
Kept ==
    /\ rows \in [Slots -> Row]
    /\ DOMAIN calls = Calls
    /\ RowsApart
    /\ PictureExists
    /\ \A c \in Calls : Good(rows, disk, byHand, calls[c])
    /\ \A b, c \in Calls : b # c => Apart(byHand, calls[b], calls[c])

\* A call that has ended mentions nothing.
LEMMA IdleIsGood ==
    ASSUME UploadsAssumption, NEW table, NEW files, NEW hand
    PROVE  /\ Good(table, files, hand, Idle) /\ ~Pending(Idle)
           /\ Idle.file = NULL /\ Idle.previous = NULL
BY DEF Good, Idle, Call, PCs, Pending

\* What is known stays known when edits name more files by hand.
LEMMA HandsGrow ==
    ASSUME NEW table, NEW files, NEW hand, NEW more, hand \subseteq more, NEW b, NEW c
    PROVE  /\ Good(table, files, hand, b) => Good(table, files, more, b)
           /\ Apart(hand, b, c) => Apart(more, b, c)
<1>1. ASSUME Good(table, files, hand, b) PROVE Good(table, files, more, b)
    BY <1>1 DEF Good
<1>. QED BY <1>1 DEF Apart

\* A call moves on alone, and mentions what it did, or its row's file.
LEMMA CallMoves ==
    ASSUME UploadsAssumption, Kept, NEW c \in Calls, NEW call, Become(c, call),
           Good(rows, disk, byHand', call),
           Pending(call) => Pending(calls[c]),
           call.file \in {NULL, calls[c].file},
           \/ call.previous \in {NULL, calls[c].previous}
           \/ \E s \in Slots : call.previous = rows[s].file,
           byHand \subseteq byHand',
           UNCHANGED <<rows, disk>>
    PROVE  Kept'
<1>1. /\ DOMAIN calls' = Calls /\ calls'[c] = call
      /\ \A b \in Calls : b # c => calls'[b] = calls[b]
    BY DEF Kept, Become
<1>2. \A b \in Calls : Good(rows, disk, byHand', calls'[b])
    BY <1>1, HandsGrow DEF Kept
<1>3. ASSUME NEW b \in Calls, b # c
      PROVE  Apart(byHand', call, calls[b]) /\ Apart(byHand', calls[b], call)
    <2>1. Apart(byHand', calls[c], calls[b]) /\ Apart(byHand', calls[b], calls[c])
        BY <1>3, HandsGrow DEF Kept
    <2>2. /\ Pending(calls[b]) => calls[b].file # NULL
          /\ Pending(calls[b]) /\ calls[b].file \notin byHand' =>
                \A s \in Slots : rows[s].file # calls[b].file
        BY DEF Kept, Good, Pending
    <2>3. Pending(call) => call.file = calls[c].file
        BY DEF Pending
    <2>4. Apart(byHand', call, calls[b])
        BY <2>1, <2>3 DEF Apart
    <2>5. Apart(byHand', calls[b], call)
        BY <2>1, <2>2 DEF Apart
    <2>. QED BY <2>4, <2>5
<1>4. \A a, b \in Calls : a # b => Apart(byHand', calls'[a], calls'[b])
    BY <1>1, <1>3, HandsGrow DEF Kept
<1>5. RowsApart' /\ PictureExists'
    BY DEF Kept, RowsApart, PictureExists
<1>. QED BY <1>1, <1>2, <1>4, <1>5 DEF Kept

\* A file that no picture names and no upload waits to name may go.
LEMMA FileGoes ==
    ASSUME UploadsAssumption, Kept, NEW c \in Calls, NEW call, Become(c, call),
           NEW gone, disk' = disk \ {gone},
           Good(rows, disk', byHand, call),
           Pending(call) => Pending(calls[c]),
           call.file \in {NULL, calls[c].file},
           call.previous \in {NULL, calls[c].previous},
           \A s \in Pictures :
               rows[s].file \notin byHand \cup {NULL} => rows[s].file # gone,
           \A b \in Calls : b # c /\ Pending(calls[b]) /\ calls[b].file \notin byHand
                                => calls[b].file # gone,
           UNCHANGED <<rows, byHand>>
    PROVE  Kept'
<1>1. /\ DOMAIN calls' = Calls /\ calls'[c] = call
      /\ \A b \in Calls : b # c => calls'[b] = calls[b]
    BY DEF Kept, Become
<1>2. \A b \in Calls : Good(rows, disk', byHand, calls'[b])
    <2>. SUFFICES ASSUME NEW b \in Calls, b # c
                  PROVE  Good(rows, disk', byHand, calls[b])
        BY <1>1
    <2>1. Good(rows, disk, byHand, calls[b])
        BY DEF Kept
    <2>. QED BY <2>1 DEF Good
<1>3. ASSUME NEW b \in Calls, b # c
      PROVE  Apart(byHand, call, calls[b]) /\ Apart(byHand, calls[b], call)
    <2>1. Apart(byHand, calls[c], calls[b]) /\ Apart(byHand, calls[b], calls[c])
        BY <1>3 DEF Kept
    <2>2. Pending(calls[b]) => calls[b].file # NULL
        BY DEF Pending
    <2>3. Pending(call) => call.file = calls[c].file
        BY DEF Pending
    <2>4. Apart(byHand, call, calls[b])
        BY <2>1, <2>3 DEF Apart
    <2>5. Apart(byHand, calls[b], call)
        BY <2>1, <2>2 DEF Apart
    <2>. QED BY <2>4, <2>5
<1>4. \A a, b \in Calls : a # b => Apart(byHand, calls'[a], calls'[b])
    BY <1>1, <1>3 DEF Kept
<1>5. PictureExists'
    BY DEF Kept, PictureExists
<1>. QED BY <1>1, <1>2, <1>4, <1>5 DEF Kept, RowsApart

\* A row gets the file of the upload that waited for it, or of an edit by hand,
\* and nobody edits a row that another works on.
LEMMA RowChanges ==
    ASSUME UploadsAssumption, Kept, EditsAlone, NEW c \in Calls, NEW call,
           Become(c, call),
           NEW s \in Slots, calls[c].slot = s,
           NEW f \in Files \cup {NULL}, rows' = [rows EXCEPT ![s] = [file |-> f]],
           \/ Pending(calls[c]) /\ f = calls[c].file
           \/ /\ calls[c].pc # "idle" /\ calls[c].file = NULL
              /\ {f, rows[s].file} \subseteq byHand \cup {NULL},
           \/ call = Idle
           \/ Pending(calls[c]) /\ call = [calls[c] EXCEPT !.pc = "remove"],
           UNCHANGED <<disk, byHand>>
    PROVE  Kept'
<1>1. /\ DOMAIN calls' = Calls /\ calls'[c] = call
      /\ \A b \in Calls : b # c => calls'[b] = calls[b]
    BY DEF Kept, Become
<1>2. /\ Good(rows, disk, byHand, calls[c]) /\ calls[c] \in Call
      /\ f \notin byHand \cup {NULL} =>
            /\ Pending(calls[c]) /\ f = calls[c].file
            /\ f \in disk /\ f # calls[c].previous
            /\ \A t \in Slots : rows[t].file # f
    <2>1. Good(rows, disk, byHand, calls[c])
        BY DEF Kept
    <2>2. f \notin byHand \cup {NULL} => Pending(calls[c]) /\ f = calls[c].file
        OBVIOUS
    <2>. QED BY <2>1, <2>2 DEF Good
<1>3. /\ rows' \in [Slots -> Row] /\ rows'[s].file = f
      /\ \A t \in Slots : t # s => rows'[t] = rows[t]
    BY DEF Kept, Row
<1>4. RowsApart'
    BY <1>2, <1>3 DEF Kept, RowsApart
<1>5. PictureExists'
    BY <1>2, <1>3 DEF Kept, PictureExists, Slots
<1>6. Good(rows', disk, byHand, call)
    <2>1. CASE call = Idle
        BY <2>1, IdleIsGood
    <2>2. CASE Pending(calls[c]) /\ call = [calls[c] EXCEPT !.pc = "remove"]
        <3>1. /\ call \in Call /\ call.pc = "remove" /\ call.slot = s
              /\ call.previous = calls[c].previous /\ call.file = calls[c].file
            BY <1>2, <2>2 DEF Call, PCs
        <3>2. calls[c].file # NULL /\ f = calls[c].file
            BY <2>2 DEF Pending
        <3>3. calls[c].previous \notin byHand \cup {NULL} =>
                  \A t \in Slots : rows'[t].file # calls[c].previous
            BY <1>2, <1>3, <2>2 DEF Good
        <3>. QED BY <1>2, <1>3, <3>1, <3>2, <3>3 DEF Good, Pending
    <2>. QED BY <2>1, <2>2
<1>7. ASSUME NEW b \in Calls, b # c PROVE Good(rows', disk, byHand, calls[b])
    <2>1. Good(rows, disk, byHand, calls[b])
        BY DEF Kept
    <2>2. Apart(byHand, calls[c], calls[b]) /\ Apart(byHand, calls[b], calls[c])
        BY <1>7 DEF Kept
    <2>3. f \notin byHand \cup {NULL} => f \notin {calls[b].file, calls[b].previous}
        BY <1>2, <2>2 DEF Apart
    <2>4. /\ calls[b].pc # "idle" /\ calls[b].file = NULL => calls[b].slot # s
          /\ calls[c].pc # "idle" /\ calls[c].file = NULL => calls[b].slot # s
        BY <1>7 DEF EditsAlone, At
    <2>5. /\ calls[b].slot \in Slots /\ calls[b].file = NULL
          /\ calls[b].pc \in {"reload", "write", "insert", "remove first"}
          => rows'[calls[b].slot].file = rows[calls[b].slot].file
        BY <1>3, <2>4
    <2>6. \A t \in Slots : rows'[t].file \in {f, rows[t].file}
        BY <1>3
    <2>7. Pending(calls[b]) => rows'[calls[b].slot].file # calls[b].file
        <3>1. CASE calls[b].slot = s /\ Pending(calls[b])
            <4>1. Pending(calls[c]) /\ f = calls[c].file
                BY <2>4, <3>1
            <4>. QED BY <1>3, <2>2, <3>1, <4>1 DEF Apart
        <3>2. CASE calls[b].slot # s /\ Pending(calls[b])
            <4>1. calls[b].slot \in Slots
                BY <2>1, <3>2 DEF Good, Pending
            <4>. QED BY <1>3, <2>1, <3>2, <4>1 DEF Good
        <3>. QED BY <3>1, <3>2
    <2>8. Pending(calls[b]) /\ calls[b].file \notin byHand =>
              \A t \in Slots : rows'[t].file # calls[b].file
        BY <2>1, <2>3, <2>6 DEF Good, Pending
    <2>9. calls[b].previous \notin byHand \cup {NULL} =>
              /\ \A t \in Slots : t # calls[b].slot => rows'[t].file # calls[b].previous
              /\ calls[b].pc = "remove" =>
                    rows'[calls[b].slot].file # calls[b].previous
        BY <2>1, <2>3, <2>6 DEF Good
    <2>. QED BY <2>1, <2>5, <2>7, <2>8, <2>9 DEF Good
<1>8. \A b \in Calls : Good(rows', disk', byHand', calls'[b])
    BY <1>1, <1>6, <1>7
<1>9. /\ ~Pending(call) /\ call.file \in {NULL, calls[c].file}
      /\ call.previous \in {NULL, calls[c].previous}
    BY <1>2, IdleIsGood DEF Pending, Call
<1>10. \A a, b \in Calls : a # b => Apart(byHand', calls'[a], calls'[b])
    <2>. SUFFICES ASSUME NEW a \in Calls, a # c PROVE Apart(byHand, calls[a], call)
        BY <1>1, <1>9 DEF Kept, Apart
    <2>1. Apart(byHand, calls[a], calls[c])
        BY DEF Kept
    <2>. QED BY <1>9, <2>1 DEF Apart, Pending
<1>. QED BY <1>1, <1>3, <1>4, <1>5, <1>8, <1>10 DEF Kept

(***************************************************************************)
(* One lemma per action.                                                    *)
(***************************************************************************)

\* The request's file is stored under a name that nobody mentions.
LEMMA UploadKeeps ==
    ASSUME UploadsAssumption, Kept, NEW c \in Calls, NEW s \in Slots,
           NEW f \in Files, Upload(c, s, f)
    PROVE  Kept'
<1>. DEFINE call == [Idle EXCEPT !.pc = "find", !.slot = s, !.file = f]
<1>1. /\ Become(c, call) /\ disk' = disk \cup {f} /\ UNCHANGED <<rows, byHand>>
      /\ f \in Fresh
    BY DEF Upload
<1>2. Idle \in Call /\ f # NULL
    BY IdleIsGood DEF Good, UploadsAssumption
<1>3. /\ call \in Call /\ call.pc = "find" /\ call.slot = s /\ call.file = f
      /\ call.previous = NULL
    BY <1>2 DEF Call, PCs, Idle
<1>. HIDE DEF call
<1>4. \A t \in Slots : rows[t].file # f
    BY <1>1, <1>2 DEF Fresh, Named
<1>5. \A b \in Calls : f \notin {calls[b].file, calls[b].previous}
    BY <1>1, <1>2 DEF Fresh, Carried
<1>6. /\ DOMAIN calls' = Calls /\ calls'[c] = call
      /\ \A b \in Calls : b # c => calls'[b] = calls[b]
    BY <1>1 DEF Kept, Become
<1>7. Good(rows, disk', byHand, call)
    BY <1>1, <1>2, <1>3, <1>4 DEF Good
<1>8. \A b \in Calls : Good(rows, disk', byHand, calls[b])
    BY <1>1 DEF Kept, Good
<1>9. \A a, b \in Calls : a # b => Apart(byHand', calls'[a], calls'[b])
    <2>1. ASSUME NEW b \in Calls PROVE Apart(byHand, call, calls[b])
        BY <1>3, <1>5 DEF Apart
    <2>2. ASSUME NEW b \in Calls PROVE Apart(byHand, calls[b], call)
        BY <1>3, <1>5 DEF Apart, Pending
    <2>. QED BY <1>1, <1>6, <2>1, <2>2 DEF Kept
<1>10. PictureExists'
    BY <1>1 DEF Kept, PictureExists
<1>. QED BY <1>1, <1>6, <1>7, <1>8, <1>9, <1>10 DEF Kept, RowsApart

\* The upload is turned down and its file stays.
LEMMA TurnDownKeeps ==
    ASSUME UploadsAssumption, Kept, NEW c \in Calls, TurnDown(c) PROVE Kept'
BY IdleIsGood, CallMoves DEF TurnDown

\* saveLogo() and the others: there is no row, and the file is taken away.
LEMMA NotFoundKeeps ==
    ASSUME UploadsAssumption, Kept, NEW c \in Calls, NotFound(c) PROVE Kept'
<1>. DEFINE self == calls[c]
            next == [self EXCEPT !.pc = "undo"]
<1>1. /\ Good(rows, disk, byHand, self) /\ self \in Call /\ self.pc = "find"
      /\ Become(c, next) /\ UNCHANGED <<rows, disk, byHand>>
    BY DEF NotFound, At, Kept, Good
<1>2. /\ next \in Call /\ next.pc = "undo" /\ next.slot = self.slot
      /\ next.file = self.file /\ next.previous = self.previous
    BY <1>1 DEF Call, PCs
<1>. HIDE DEF next
<1>3. Good(rows, disk, byHand, next) /\ Pending(self)
    BY <1>1, <1>2 DEF Good, Pending
<1>. QED BY <1>1, <1>2, <1>3, CallMoves

\* A call at its row: it remembers the file there as the previous one.
LEMMA LoadKeeps ==
    ASSUME UploadsAssumption, Kept, NEW c \in Calls,
           LoadPicture(c) \/ LoadDocument(c)
    PROVE  Kept'
<1>. DEFINE self == calls[c]
            previous == rows[self.slot].file
            copy == [file |-> self.file]
            loaded(pc) == [self EXCEPT !.pc = pc, !.previous = previous,
                                       !.copy = copy]
<1>1. /\ Good(rows, disk, byHand, self) /\ self \in Call /\ self.pc = "find"
      /\ self.file # NULL /\ self.slot \in Slots /\ Pending(self)
    BY DEF LoadPicture, LoadDocument, At, Kept, Good, Pending
<1>2. PICK pc \in {"reload", "insert", "remove first"} :
          /\ Become(c, loaded(pc)) /\ UNCHANGED <<rows, disk, byHand>>
          /\ pc = "remove first" => self.slot \in Documents
    BY DEF LoadPicture, LoadDocument
<1>3. previous \in Files \cup {NULL} /\ copy \in Row /\ copy.file = self.file
    BY <1>1 DEF Kept, Row, Call
<1>4. /\ self.file \notin byHand => \A s \in Slots : rows[s].file # self.file
      /\ rows[self.slot].file # self.file
      /\ previous \notin byHand \cup {NULL} =>
            \A s \in Slots : s # self.slot => rows[s].file # previous
    BY <1>1 DEF Kept, RowsApart, Good
<1>. DEFINE next == loaded(pc)
<1>5. /\ Become(c, next)
      /\ previous = rows[self.slot].file
    BY <1>2
<1>. HIDE DEF previous, copy
<1>6. /\ next \in Call /\ next.pc = pc /\ next.slot = self.slot
      /\ next.file = self.file /\ next.previous = previous /\ next.copy = copy
    BY <1>1, <1>3 DEF Call, PCs
<1>. HIDE DEF next
<1>7. Good(rows, disk, byHand, next)
    BY <1>1, <1>2, <1>3, <1>4, <1>5, <1>6 DEF Good, Pending
<1>. QED BY <1>1, <1>2, <1>5, <1>6, <1>7, CallMoves

\* An edit loads the row, and may name another file.
LEMMA EditKeeps ==
    ASSUME UploadsAssumption, Kept, NEW c \in Calls, NEW s \in Pictures,
           NEW file \in Files \cup {NULL}, EditRead(c, s, file)
    PROVE  Kept'
<1>. DEFINE next == [Idle EXCEPT !.pc = "reload", !.slot = s,
                                 !.copy = [file |-> file]]
<1>1. /\ Become(c, next) /\ UNCHANGED <<rows, disk>> /\ s \in Slots
      /\ byHand \subseteq byHand'
      /\ file = rows[s].file \/ {file, rows[s].file} \subseteq byHand' \cup {NULL}
    BY DEF EditRead, Slots
<1>2. [file |-> file] \in Row /\ Idle \in Call
    BY IdleIsGood DEF Good, Row
<1>3. /\ next \in Call /\ next.pc = "reload" /\ next.slot = s
      /\ next.copy = [file |-> file] /\ next.file = NULL /\ next.previous = NULL
    BY <1>1, <1>2 DEF Call, PCs, Idle
<1>. HIDE DEF next
<1>4. Good(rows, disk, byHand', next) /\ ~Pending(next)
    BY <1>1, <1>2, <1>3 DEF Good, Pending
<1>. QED BY <1>1, <1>3, <1>4, CallMoves

\* The replaced picture goes.
LEMMA RemoveKeeps ==
    ASSUME UploadsAssumption, Kept, NEW c \in Calls, RemovePrevious(c)
    PROVE  Kept'
<1>. DEFINE self == calls[c]
<1>1. /\ Good(rows, disk, byHand, self) /\ self.pc = "remove" /\ self.slot \in Slots
      /\ Become(c, Idle) /\ disk' = disk \ {self.previous}
      /\ UNCHANGED <<rows, byHand>>
    BY DEF RemovePrevious, At, Kept, Good
<1>2. \A s \in Pictures :
          rows[s].file \notin byHand \cup {NULL} => rows[s].file # self.previous
    BY <1>1 DEF Good, Slots
<1>3. \A b \in Calls : b # c /\ Pending(calls[b]) /\ calls[b].file \notin byHand
                         => calls[b].file # self.previous
    BY DEF Kept, Apart
<1>. QED BY <1>1, <1>2, <1>3, IdleIsGood, FileGoes

\* The new file goes.
LEMMA UndoKeeps ==
    ASSUME UploadsAssumption, Kept, NEW c \in Calls, Undo(c) PROVE Kept'
<1>. DEFINE self == calls[c]
<1>1. /\ Good(rows, disk, byHand, self) /\ self.pc = "undo" /\ Pending(self)
      /\ Become(c, Idle) /\ disk' = disk \ {self.file}
      /\ UNCHANGED <<rows, byHand>>
    BY DEF Undo, At, Kept, Good, Pending
<1>2. \A s \in Pictures :
          rows[s].file \notin byHand \cup {NULL} => rows[s].file # self.file
    BY <1>1 DEF Good, Slots
<1>3. \A b \in Calls : b # c /\ Pending(calls[b]) /\ calls[b].file \notin byHand
                         => calls[b].file # self.file
    BY DEF Kept, Apart
<1>. QED BY <1>1, <1>2, <1>3, IdleIsGood, FileGoes

\* saveDocument(): the old document goes, which no picture names.
LEMMA RemoveFirstKeeps ==
    ASSUME UploadsAssumption, Kept, NEW c \in Calls, RemoveFirst(c) PROVE Kept'
<1>. DEFINE self == calls[c]
            next == [self EXCEPT !.pc = "reload"]
<1>1. /\ Good(rows, disk, byHand, self) /\ self \in Call /\ self.pc = "remove first"
      /\ self.file # NULL /\ Pending(self)
      /\ Become(c, next) /\ disk' = disk \ {self.previous}
      /\ UNCHANGED <<rows, byHand>>
    BY DEF RemoveFirst, At, Kept, Good, Pending
<1>2. /\ next \in Call /\ next.pc = "reload" /\ next.slot = self.slot
      /\ next.file = self.file /\ next.previous = self.previous
      /\ next.copy = self.copy
    BY <1>1 DEF Call, PCs
<1>. HIDE DEF next
<1>3. Good(rows, disk', byHand, next)
    BY <1>1, <1>2 DEF Good, Pending
<1>4. \A b \in Calls : b # c /\ Pending(calls[b]) /\ calls[b].file \notin byHand
                         => calls[b].file # self.previous
    BY DEF Kept, Apart
<1>5. \A s \in Pictures :
          rows[s].file \notin byHand \cup {NULL} => rows[s].file # self.previous
    <2>. SUFFICES ASSUME NEW s \in Pictures, rows[s].file \notin byHand \cup {NULL},
                         rows[s].file = self.previous
                  PROVE  FALSE
        OBVIOUS
    <2>1. s = self.slot /\ self.slot \in Documents
        BY <1>1 DEF Good, Slots
    <2>. QED BY <2>1, UploadsAssumption DEF UploadsAssumption
<1>. QED BY <1>1, <1>2, <1>3, <1>4, <1>5, FileGoes

\* saveDocument(): the first document of its kind.
LEMMA InsertKeeps ==
    ASSUME UploadsAssumption, Kept, EditsAlone, NEW c \in Calls, Insert(c)
    PROVE  Kept'
<1>1. /\ Good(rows, disk, byHand, calls[c]) /\ calls[c] \in Call
      /\ calls[c].pc = "insert" /\ calls[c].slot \in Slots /\ Pending(calls[c])
      /\ calls[c].copy = [file |-> calls[c].file]
    BY DEF Insert, At, Kept, Good, Pending, Row
<1>2. /\ Become(c, Idle) /\ UNCHANGED <<disk, byHand>>
      /\ calls[c].file \in Files \cup {NULL}
      /\ rows' = [rows EXCEPT ![calls[c].slot] = [file |-> calls[c].file]]
    BY <1>1 DEF Insert, Call
<1>. QED BY <1>1, <1>2, RowChanges

\* save() reads the row again: an upload's file is new to it.
LEMMA SaveReloadKeeps ==
    ASSUME UploadsAssumption, Kept, NEW c \in Calls, SaveReload(c)
    PROVE  Kept'
<1>. DEFINE self == calls[c]
            dirty == DirtyColumns(self.copy, rows[self.slot])
            next == [self EXCEPT !.pc = "write", !.dirty = dirty]
<1>1. /\ Good(rows, disk, byHand, self) /\ self \in Call /\ self.pc = "reload"
      /\ self.copy \in Row /\ self.slot \in Slots /\ rows[self.slot] \in Row
      /\ Become(c, next) /\ UNCHANGED <<rows, disk, byHand>>
    BY DEF SaveReload, At, Kept, Good
<1>2. /\ dirty \in SUBSET {"file"}
      /\ self.copy.file # rows[self.slot].file => dirty = {"file"}
    BY <1>1 DEF DirtyColumns, Row
<1>. HIDE DEF dirty
<1>3. /\ next \in Call /\ next.pc = "write" /\ next.slot = self.slot
      /\ next.file = self.file /\ next.previous = self.previous
      /\ next.copy = self.copy /\ next.dirty = dirty
    BY <1>1, <1>2 DEF Call, PCs
<1>. HIDE DEF next
<1>4. Good(rows, disk, byHand, next) /\ (Pending(next) => Pending(self))
    BY <1>1, <1>2, <1>3 DEF Good, Pending
<1>. QED BY <1>1, <1>3, <1>4, CallMoves

\* save() writes: an edit finds the picture as it was or changes it by hand, an
\* upload puts its own.
LEMMA SaveWriteKeeps ==
    ASSUME UploadsAssumption, Kept, EditsAlone, NEW c \in Calls, SaveWrite(c)
    PROVE  Kept'
<1>. DEFINE self == calls[c]
            next == AfterSave(self)
<1>1. /\ Good(rows, disk, byHand, self) /\ self \in Call /\ self.pc = "write"
      /\ self.copy \in Row /\ self.slot \in Slots /\ rows[self.slot] \in Row
      /\ Become(c, next) /\ UNCHANGED <<disk, byHand>>
      /\ rows' = [rows EXCEPT ![self.slot] =
                      SavedRow(rows[self.slot], self.copy, self.dirty)]
    BY DEF SaveWrite, At, Kept, Good
<1>2. CASE self.file = NULL
    <2>1. PICK saved : saved = SavedRow(rows[self.slot], self.copy, self.dirty)
        OBVIOUS
    <2>2. saved \in {rows[self.slot], self.copy}
        BY <1>1, <2>1 DEF SavedRow, Row
    <2>3. next = Idle
        BY <1>2 DEF AfterSave
    <2>4. CASE saved = rows[self.slot]
        <3>1. UNCHANGED rows
            BY <1>1, <2>1, <2>4 DEF Kept
        <3>. QED BY <1>1, <2>3, <3>1, IdleIsGood, CallMoves
    <2>5. CASE saved # rows[self.slot]
        <3>1. PICK f \in Files \cup {NULL} : saved = [file |-> f] /\ self.copy.file = f
            BY <1>1, <2>2, <2>5 DEF Row
        <3>2. f # rows[self.slot].file
            BY <1>1, <2>5, <3>1 DEF Row
        <3>3. {f, rows[self.slot].file} \subseteq byHand \cup {NULL}
            BY <1>1, <1>2, <3>1, <3>2 DEF Good
        <3>4. rows' = [rows EXCEPT ![self.slot] = [file |-> f]]
            BY <1>1, <2>1, <3>1
        <3>. QED BY <1>1, <1>2, <2>3, <3>3, <3>4, RowChanges
    <2>. QED BY <2>4, <2>5
<1>3. CASE self.file # NULL
    <2>1. Pending(self) /\ self.dirty = {"file"} /\ self.copy.file = self.file
        BY <1>1, <1>3 DEF Good, Pending
    <2>2. SavedRow(rows[self.slot], self.copy, self.dirty) = [file |-> self.file]
        BY <1>1, <2>1 DEF SavedRow, Row
    <2>3. next \in {Idle, [self EXCEPT !.pc = "remove"]}
        BY DEF AfterSave
    <2>4. rows' = [rows EXCEPT ![self.slot] = [file |-> self.file]]
        BY <1>1, <2>2
    <2>5. self.file \in Files \cup {NULL}
        BY <1>1 DEF Call
    <2>. QED BY <1>1, <2>1, <2>3, <2>4, <2>5, RowChanges
<1>. QED BY <1>2, <1>3

\* The database fails: the upload of a picture goes on to take its file away.
LEMMA SaveFailsKeeps ==
    ASSUME UploadsAssumption, Kept, NEW c \in Calls, SaveFails(c)
    PROVE  Kept'
<1>. DEFINE self == calls[c]
            next == [self EXCEPT !.pc = "undo"]
<1>1. /\ Good(rows, disk, byHand, self) /\ self \in Call
      /\ self.pc \in {"reload", "write", "insert"} /\ UNCHANGED <<rows, disk, byHand>>
    BY DEF SaveFails, Kept, Good
<1>2. CASE Become(c, Idle)
    BY <1>1, <1>2, IdleIsGood, CallMoves
<1>3. CASE self.file # NULL /\ Become(c, next)
    <2>1. /\ next \in Call /\ next.pc = "undo" /\ next.slot = self.slot
          /\ next.file = self.file /\ next.previous = self.previous
        BY <1>1 DEF Call, PCs
    <2>2. Become(c, next)
        BY <1>3
    <2>. HIDE DEF next
    <2>3. Good(rows, disk, byHand, next) /\ Pending(self)
        BY <1>1, <1>3, <2>1 DEF Good, Pending
    <2>. QED BY <1>1, <2>1, <2>2, <2>3, CallMoves
<1>. QED BY <1>2, <1>3 DEF SaveFails

\* Files outlive the process.
LEMMA CrashKeeps ==
    ASSUME UploadsAssumption, Kept, Crash PROVE Kept'
<1>1. \A c \in Calls : calls'[c] = Idle
    BY DEF Crash
<1>2. DOMAIN calls' = Calls /\ UNCHANGED <<rows, disk, byHand>>
    BY DEF Crash
<1>3. \A c \in Calls : Good(rows, disk, byHand, calls'[c])
    BY <1>1, IdleIsGood
<1>4. \A b, c \in Calls : Apart(byHand', calls'[b], calls'[c])
    BY <1>1, IdleIsGood DEF Apart
<1>. QED BY <1>2, <1>3, <1>4 DEF Kept, RowsApart, PictureExists

\* At the start nothing is named.
LEMMA KeptInit == ASSUME UploadsAssumption, Init PROVE Kept
<1>1. \A s \in Slots : rows[s].file = NULL
    BY DEF Init
<1>2. \A c \in Calls : calls[c] = Idle
    BY DEF Init
<1>3. rows \in [Slots -> Row] /\ DOMAIN calls = Calls
    BY DEF Init, Row
<1>4. RowsApart /\ PictureExists
    BY <1>1 DEF RowsApart, PictureExists, Slots
<1>5. \A c \in Calls : Good(rows, disk, byHand, calls[c])
    BY <1>2, IdleIsGood
<1>6. \A b, c \in Calls : Apart(byHand, calls[b], calls[c])
    BY <1>2, IdleIsGood DEF Apart
<1>. QED BY <1>3, <1>4, <1>5, <1>6 DEF Kept

\* No step loses a picture.
LEMMA KeptNext ==
    ASSUME UploadsAssumption, Kept, EditsAlone, [Next]_vars PROVE Kept'
<1>1. CASE UNCHANGED vars
    BY <1>1 DEF vars, Kept, RowsApart, PictureExists
<1>2. CASE \E c \in Calls, s \in Slots, f \in Files : Upload(c, s, f)
    BY <1>2, UploadKeeps
<1>3. CASE \E c \in Calls, s \in Pictures, file \in Files \cup {NULL} :
          EditRead(c, s, file)
    BY <1>3, EditKeeps
<1>4. ASSUME NEW c \in Calls,
             \/ TurnDown(c) \/ NotFound(c) \/ LoadPicture(c) \/ LoadDocument(c)
             \/ Insert(c) \/ RemoveFirst(c) \/ SaveReload(c) \/ SaveWrite(c)
             \/ SaveFails(c) \/ RemovePrevious(c) \/ Undo(c)
      PROVE  Kept'
    BY <1>4, TurnDownKeeps, NotFoundKeeps, LoadKeeps, InsertKeeps,
       RemoveFirstKeeps, SaveReloadKeeps, SaveWriteKeeps, SaveFailsKeeps,
       RemoveKeeps, UndoKeeps
<1>5. CASE Crash
    BY <1>5, CrashKeeps
<1>. QED BY <1>1, <1>2, <1>3, <1>4, <1>5 DEF Next

\* However uploads overlap, wherever the process dies and whichever save
\* fails, the picture a row names is on the disk, if edits do not overlap
\* uploads of their row, and unless an edit named it or let go of it by hand
\* (saveLogo(), saveCategoryImage(), saveProductImage(), updateProduct()).
THEOREM PicturesExist ==
    ASSUME UploadsAssumption PROVE Spec /\ []EditsAlone => []PictureExists
<1>1. Init => Kept
    BY KeptInit
<1>2. Kept /\ EditsAlone /\ [Next]_vars => Kept'
    BY KeptNext
<1>3. Kept => PictureExists
    BY DEF Kept
<1>. QED BY <1>1, <1>2, <1>3, PTL DEF Spec

(***************************************************************************)
(* No file is lost, if requests follow one another.  While one is at work   *)
(* it owns a file that no row names, the upload's or the replaced one, and  *)
(* a document's row may name a file that is gone already; both are the      *)
(* file and the previous file of the call, which it takes into account      *)
(* when it ends, or that count as blamed when it dies.                      *)
(***************************************************************************)

\* Requests follow one another.
Alone ==
    \A b, c \in Calls : calls[b].pc # "idle" /\ calls[c].pc # "idle" => b = c

\* The file on the disk that only the call knows.
Extra(call) ==
    IF Pending(call) THEN {call.file}
    ELSE IF call.pc = "remove" THEN {call.previous} ELSE {}

\* The file that is gone while the row still names it.
Gone(call) ==
    IF call.slot \in Documents /\ call.pc \in {"reload", "write"}
    THEN {call.previous} ELSE {}

\* With the call at work, but for the files to blame: a file is on the disk if
\* it is the call's, or a row names it and the call has not removed it.
Tidy(table, files, blame, call) ==
    \A f \in Files \ blame :
        f \in files <=> \/ f \in Extra(call)
                        \/ /\ f \notin Gone(call)
                           /\ \E s \in Slots : table[s].file = f

\* Nobody else changes the row: the previous file is the row's.
Remembers(table, call) ==
    /\ call.pc \in {"reload", "write", "remove first"} =>
           call.previous = IF call.file = NULL THEN NULL
                           ELSE table[call.slot].file
    /\ call.pc = "insert" => call.previous = NULL
    /\ call.pc = "idle" => call.slot = NULL

\* The inductive invariant, with Kept.
Swept ==
    /\ disk \subseteq Files
    /\ \A c \in Calls : Remembers(rows, calls[c])
    /\ \A c \in Calls : calls[c].pc # "idle" => Tidy(rows, disk, Excused, calls[c])
    /\ (\A c \in Calls : calls[c].pc = "idle") => Tidy(rows, disk, Excused, Idle)

\* Requests that follow one another edit alone.
LEMMA AloneEdits ==
    ASSUME UploadsAssumption, Kept, Swept, Alone PROVE EditsAlone
<1>. SUFFICES ASSUME NEW b \in Calls, NEW c \in Calls, b # c, ~At(b, "idle"),
                     calls[b].file = NULL
              PROVE  calls[b].slot # calls[c].slot
    BY DEF EditsAlone
<1>1. calls[b].slot \in Slots
    BY DEF Kept, Good, At
<1>2. calls[c].pc = "idle" /\ calls[c].slot = NULL
    BY DEF Alone, At, Swept, Remembers
<1>. QED BY <1>1, <1>2 DEF UploadsAssumption

\* The only call at work moves on, or ends.
LEMMA OnlyCallMoves ==
    ASSUME Kept, Swept, Alone, NEW c \in Calls, calls[c].pc # "idle",
           NEW call, Become(c, call), call.pc = "idle" => call = Idle,
           disk' \subseteq Files, Remembers(rows', call),
           Tidy(rows', disk', Excused', call)
    PROVE  Swept'
<1>1. /\ calls'[c] = call
      /\ \A b \in Calls : b # c => calls'[b] = calls[b] /\ calls[b].pc = "idle"
    BY DEF Kept, Become, Alone
<1>2. \A b \in Calls : b # c => Remembers(rows', calls'[b])
    BY <1>1 DEF Swept, Remembers
<1>. QED BY <1>1, <1>2 DEF Swept

\* A call begins when nobody is at work.
LEMMA FirstCallMoves ==
    ASSUME Kept, Swept, Alone', NEW c \in Calls, calls[c].pc = "idle",
           NEW call, Become(c, call), call.pc # "idle",
           disk' \subseteq Files, Remembers(rows', call),
           Tidy(rows, disk, Excused, Idle) => Tidy(rows', disk', Excused', call)
    PROVE  Swept'
<1>1. /\ calls'[c] = call
      /\ \A b \in Calls : b # c => calls'[b] = calls[b]
    BY DEF Kept, Become
<1>2. \A b \in Calls : calls[b].pc = "idle"
    BY <1>1 DEF Alone
<1>3. \A b \in Calls : b # c => Remembers(rows', calls'[b])
    BY <1>1, <1>2 DEF Swept, Remembers
<1>4. Tidy(rows', disk', Excused', call)
    BY <1>2 DEF Swept
<1>. QED BY <1>1, <1>2, <1>3, <1>4 DEF Swept

\* A call that has ended owns nothing and removed nothing.
LEMMA IdleOwnsNothing ==
    ASSUME UploadsAssumption
    PROVE  /\ Extra(Idle) = {} /\ Gone(Idle) = {}
           /\ \A table : Remembers(table, Idle)
BY DEF Extra, Gone, Remembers, Pending, Idle

\* The request's file is stored.
LEMMA UploadSweeps ==
    ASSUME UploadsAssumption, Kept, Swept, Alone', NEW c \in Calls,
           NEW s \in Slots, NEW f \in Files, Upload(c, s, f)
    PROVE  Swept'
<1>. DEFINE next == [Idle EXCEPT !.pc = "find", !.slot = s, !.file = f]
<1>1. /\ calls[c].pc = "idle" /\ Become(c, next) /\ UNCHANGED <<rows, blamed, byHand>>
      /\ disk' = disk \cup {f} /\ f # NULL
      /\ next.pc = "find" /\ next.file = f
    BY DEF Upload, At, Idle, UploadsAssumption
<1>. HIDE DEF next
<1>2. Extra(next) = {f} /\ Gone(next) = {} /\ Remembers(rows, next)
    BY <1>1 DEF Extra, Gone, Remembers, Pending
<1>3. Tidy(rows, disk, Excused, Idle) => Tidy(rows, disk', Excused, next)
    BY <1>1, <1>2, IdleOwnsNothing DEF Tidy
<1>. QED BY <1>1, <1>2, <1>3, FirstCallMoves DEF Swept, Excused

\* An edit loads the row; what it names by hand is no upload's.
LEMMA EditSweeps ==
    ASSUME UploadsAssumption, Kept, Swept, Alone', NEW c \in Calls,
           NEW s \in Pictures, NEW file \in Files \cup {NULL}, EditRead(c, s, file)
    PROVE  Swept'
<1>. DEFINE next == [Idle EXCEPT !.pc = "reload", !.slot = s,
                                 !.copy = [file |-> file]]
<1>1. /\ calls[c].pc = "idle" /\ Become(c, next)
      /\ UNCHANGED <<rows, disk, blamed>> /\ Excused \subseteq Excused'
      /\ next.pc = "reload" /\ next.file = NULL /\ next.previous = NULL
      /\ next.slot \notin Documents
    BY DEF EditRead, At, Idle, UploadsAssumption, Excused
<1>. HIDE DEF next
<1>2. Extra(next) = {} /\ Gone(next) = {} /\ Remembers(rows, next)
    BY <1>1 DEF Extra, Gone, Remembers, Pending
<1>3. Tidy(rows, disk, Excused, Idle) => Tidy(rows, disk, Excused', next)
    BY <1>1, <1>2, IdleOwnsNothing DEF Tidy
<1>. QED BY <1>1, <1>2, <1>3, FirstCallMoves DEF Swept

\* A call that ends and takes its file away, or leaves it to blame.
LEMMA EndSweeps ==
    ASSUME UploadsAssumption, Kept, Swept, Alone, NEW c \in Calls,
           TurnDown(c) \/ Undo(c) \/ RemovePrevious(c)
    PROVE  Swept'
<1>. DEFINE self == calls[c]
<1>1. /\ Good(rows, disk, byHand, self) /\ self.pc \in {"find", "undo", "remove"}
      /\ self.file # NULL /\ self.slot \in Slots /\ Become(c, Idle)
      /\ UNCHANGED <<rows, byHand>>
    BY DEF TurnDown, Undo, RemovePrevious, At, Kept, Good
<1>2. Gone(self) = {} /\ Tidy(rows, disk, Excused, self)
    BY <1>1 DEF Gone, Swept
<1>3. Tidy(rows, disk', Excused', Idle)
    <2>1. CASE TurnDown(c)
        <3>1. Extra(self) = {self.file}
            BY <1>1, <2>1 DEF Extra, Pending, TurnDown, At
        <3>2. disk' = disk /\ blamed' = blamed \cup {self.file}
            BY <2>1 DEF TurnDown
        <3>. QED BY <1>1, <1>2, <3>1, <3>2, IdleOwnsNothing DEF Tidy, Excused
    <2>2. CASE Undo(c)
        <3>1. /\ Extra(self) = {self.file}
              /\ self.file \notin byHand => \A s \in Slots : rows[s].file # self.file
            BY <1>1, <2>2 DEF Extra, Pending, Undo, At, Good
        <3>2. disk' = disk \ {self.file} /\ blamed' = blamed
            BY <2>2 DEF Undo
        <3>. QED BY <1>1, <1>2, <3>1, <3>2, IdleOwnsNothing DEF Tidy, Excused
    <2>3. CASE RemovePrevious(c)
        <3>1. Extra(self) = {self.previous}
            BY <1>1, <2>3 DEF Extra, Pending, RemovePrevious, At
        <3>2. self.previous \notin byHand \cup {NULL} =>
                  \A s \in Slots : rows[s].file # self.previous
            BY <1>1, <2>3 DEF RemovePrevious, At, Good
        <3>3. disk' = disk \ {self.previous} /\ blamed' = blamed
            BY <2>3 DEF RemovePrevious
        <3>4. NULL \notin Files
            BY UploadsAssumption DEF UploadsAssumption
        <3>. QED BY <1>1, <1>2, <3>1, <3>2, <3>3, <3>4, IdleOwnsNothing DEF Tidy, Excused
    <2>. QED BY <2>1, <2>2, <2>3
<1>4. disk' \subseteq Files
    BY DEF TurnDown, Undo, RemovePrevious, Swept
<1>5. Idle.pc = "idle"
    BY DEF Idle
<1>. QED BY <1>1, <1>3, <1>4, <1>5, IdleOwnsNothing, OnlyCallMoves

\* The call looks at its row, or finds none.
LEMMA LookSweeps ==
    ASSUME UploadsAssumption, Kept, Swept, Alone, NEW c \in Calls,
           NotFound(c) \/ LoadPicture(c) \/ LoadDocument(c)
    PROVE  Swept'
<1>. DEFINE self == calls[c]
            loaded(pc) == [self EXCEPT !.pc = pc, !.previous = rows[self.slot].file,
                                       !.copy = [file |-> self.file]]
<1>1. /\ Good(rows, disk, byHand, self) /\ self \in Call /\ self.pc = "find"
      /\ self.file # NULL /\ self.slot \in Slots
      /\ UNCHANGED <<rows, disk, blamed, byHand>>
    BY DEF NotFound, LoadPicture, LoadDocument, At, Kept, Good
<1>2. Extra(self) = {self.file} /\ Gone(self) = {} /\ Tidy(rows, disk, Excused, self)
    BY <1>1 DEF Extra, Gone, Pending, Swept
<1>3. ASSUME NEW next, Become(c, next), next.file = self.file,
             next.pc \in {"undo", "reload", "insert", "remove first"},
             next.pc = "reload" => next.slot \notin Documents,
             Remembers(rows, next)
      PROVE  Swept'
    <2>1. Extra(next) = {self.file} /\ Gone(next) = {}
        BY <1>1, <1>3 DEF Extra, Gone, Pending
    <2>2. Tidy(rows, disk, Excused, next)
        BY <1>2, <2>1 DEF Tidy
    <2>. QED BY <1>1, <1>3, <2>2, OnlyCallMoves DEF Swept, Excused
<1>4. CASE NotFound(c)
    <2>. DEFINE next == [self EXCEPT !.pc = "undo"]
    <2>1. Become(c, next) /\ next.file = self.file /\ next.pc = "undo"
        BY <1>1, <1>4 DEF NotFound, Call
    <2>. HIDE DEF next
    <2>2. Remembers(rows, next)
        BY <2>1 DEF Remembers
    <2>. QED BY <2>1, <2>2, <1>3
<1>5. CASE LoadPicture(c) \/ LoadDocument(c)
    <2>1. PICK pc \in {"reload", "insert", "remove first"} :
              /\ Become(c, loaded(pc))
              /\ pc = "reload" => self.slot \notin Documents
              /\ pc = "insert" => rows[self.slot].file = NULL
        BY <1>5, UploadsAssumption DEF LoadPicture, LoadDocument, UploadsAssumption
    <2>. DEFINE next == loaded(pc)
    <2>2. /\ Become(c, next) /\ next.pc = pc /\ next.file = self.file
          /\ next.slot = self.slot /\ next.previous = rows[self.slot].file
        BY <1>1, <2>1 DEF Call
    <2>. HIDE DEF next
    <2>3. Remembers(rows, next)
        BY <1>1, <2>1, <2>2 DEF Remembers
    <2>. QED BY <2>1, <2>2, <2>3, <1>3
<1>. QED BY <1>4, <1>5

\* The old document goes before the row names the new one.
LEMMA RemoveFirstSweeps ==
    ASSUME UploadsAssumption, Kept, Swept, Alone, NEW c \in Calls, RemoveFirst(c)
    PROVE  Swept'
<1>. DEFINE self == calls[c]
            next == [self EXCEPT !.pc = "reload"]
<1>1. /\ Good(rows, disk, byHand, self) /\ self \in Call /\ self.pc = "remove first"
      /\ self.file # NULL /\ self.slot \in Documents /\ Pending(self)
      /\ self.file \notin byHand => self.file # self.previous
      /\ Become(c, next) /\ disk' = disk \ {self.previous}
      /\ UNCHANGED <<rows, blamed, byHand>>
    BY DEF RemoveFirst, At, Kept, Good, Pending
<1>2. /\ next.pc = "reload" /\ next.slot = self.slot /\ next.file = self.file
      /\ next.previous = self.previous
    BY <1>1 DEF Call
<1>. HIDE DEF next
<1>3. /\ Extra(self) = {self.file} /\ Gone(self) = {}
      /\ Extra(next) = {self.file} /\ Gone(next) = {self.previous}
    BY <1>1, <1>2 DEF Extra, Gone, Pending
<1>4. Tidy(rows, disk, Excused, self) /\ Remembers(rows, self) /\ disk' \subseteq Files
    BY <1>1 DEF Swept
<1>5. Tidy(rows, disk', Excused, next)
    BY <1>1, <1>3, <1>4 DEF Tidy, Excused
<1>6. Remembers(rows, next)
    BY <1>1, <1>2, <1>4 DEF Remembers
<1>. QED BY <1>1, <1>2, <1>4, <1>5, <1>6, OnlyCallMoves DEF Excused

\* save() reads the row again.
LEMMA SaveReloadSweeps ==
    ASSUME UploadsAssumption, Kept, Swept, Alone, NEW c \in Calls, SaveReload(c)
    PROVE  Swept'
<1>. DEFINE self == calls[c]
            dirty == DirtyColumns(self.copy, rows[self.slot])
            next == [self EXCEPT !.pc = "write", !.dirty = dirty]
<1>1. /\ self \in Call /\ self.pc = "reload" /\ Become(c, next)
      /\ UNCHANGED <<rows, disk, blamed, byHand>>
    BY DEF SaveReload, At, Kept, Good
<1>. HIDE DEF dirty
<1>2. /\ next.pc = "write" /\ next.slot = self.slot /\ next.file = self.file
      /\ next.previous = self.previous
    BY <1>1 DEF Call
<1>. HIDE DEF next
<1>3. Extra(next) = Extra(self) /\ Gone(next) = Gone(self)
    BY <1>1, <1>2 DEF Extra, Gone, Pending
<1>4. Tidy(rows, disk, Excused, self) /\ Remembers(rows, self)
    BY <1>1 DEF Swept
<1>5. Tidy(rows, disk, Excused, next) /\ Remembers(rows, next)
    BY <1>1, <1>2, <1>3, <1>4 DEF Tidy, Remembers
<1>. QED BY <1>1, <1>2, <1>5, OnlyCallMoves DEF Swept, Excused

\* The row names the file of the upload; what it named before is the call's
\* to remove if it was a picture's, and gone if it was a document's.
LEMMA NamingSweeps ==
    ASSUME UploadsAssumption, Kept, Swept, Alone, NEW c \in Calls,
           Pending(calls[c]), calls[c].slot \in Slots,
           calls[c].previous = rows[calls[c].slot].file,
           NEW call, Become(c, call), call.pc = "idle" => call = Idle,
           Remembers(rows', call),
           rows' = [rows EXCEPT ![calls[c].slot] = [file |-> calls[c].file]],
           Gone(call) = {},
           (Extra(call) \cup Gone(calls[c])) \ {NULL} = {calls[c].previous} \ {NULL},
           Extra(call) \cap Gone(calls[c]) = {},
           UNCHANGED <<disk, blamed, byHand>>
    PROVE  Swept'
<1>. DEFINE self == calls[c]
            s0 == self.slot
<1>1. self.pc # "idle" /\ Extra(self) = {self.file} /\ self.file # NULL
    BY DEF Pending, Extra
<1>2. Tidy(rows, disk, Excused, self) /\ disk' \subseteq Files
    BY <1>1 DEF Swept
<1>3. /\ rows'[s0].file = self.file
      /\ \A s \in Slots : s # s0 => rows'[s].file = rows[s].file
    BY DEF Kept
<1>4. /\ self.file \notin Excused => \A s \in Slots : rows[s].file # self.file
      /\ self.previous \notin Excused \cup {NULL} =>
            \A s \in Slots : s # s0 => rows[s].file # self.previous
    BY <1>1 DEF Kept, Good, Excused
<1>5. self.file \notin Excused => self.file # self.previous
    BY <1>4
<1>6. ASSUME NEW f \in Files \ Excused
      PROVE  f \in disk <=> \/ f \in Extra(call)
                            \/ \E s \in Slots : rows'[s].file = f
    <2>1. f \in disk <=> \/ f = self.file
                         \/ /\ f \notin Gone(self)
                            /\ \E s \in Slots : rows[s].file = f
        BY <1>1, <1>2 DEF Tidy
    <2>2. f # NULL
        BY UploadsAssumption DEF UploadsAssumption
    <2>3. CASE f = self.file
        BY <1>3, <2>1, <2>3
    <2>4. CASE f = self.previous
        <3>1. f # self.file
            BY <1>5, <2>4
        <3>2. (\E s \in Slots : rows[s].file = f) /\ ~\E s \in Slots : rows'[s].file = f
            BY <1>3, <1>4, <2>2, <2>4, <3>1
        <3>3. f \in Extra(call) <=> f \notin Gone(self)
            BY <2>2, <2>4
        <3>. QED BY <2>1, <3>1, <3>2, <3>3
    <2>5. CASE f # self.file /\ f # self.previous
        <3>1. f \notin Extra(call) /\ f \notin Gone(self)
            BY <2>2, <2>5
        <3>2. (\E s \in Slots : rows[s].file = f) <=> \E s \in Slots : rows'[s].file = f
            BY <1>3, <2>5
        <3>. QED BY <2>1, <2>5, <3>1, <3>2
    <2>. QED BY <2>3, <2>4, <2>5
<1>7. Tidy(rows', disk', Excused', call)
    BY <1>6 DEF Tidy, Excused
<1>. QED BY <1>1, <1>2, <1>7, OnlyCallMoves

\* saveDocument(): the first document of its kind.
LEMMA InsertSweeps ==
    ASSUME UploadsAssumption, Kept, Swept, Alone, NEW c \in Calls, Insert(c)
    PROVE  Swept'
<1>. DEFINE self == calls[c]
<1>1. /\ Good(rows, disk, byHand, self) /\ self.pc = "insert" /\ self.slot \in Slots
      /\ Pending(self) /\ self.copy = [file |-> self.file]
    BY DEF Insert, At, Kept, Good, Pending, Row
<1>2. self.previous = NULL /\ rows[self.slot].file = NULL
    BY <1>1 DEF Insert, Swept, Remembers
<1>3. /\ rows' = [rows EXCEPT ![self.slot] = [file |-> self.file]]
      /\ Become(c, Idle) /\ UNCHANGED <<disk, blamed, byHand>>
    BY <1>1 DEF Insert
<1>4. Gone(self) = {}
    BY <1>1 DEF Gone
<1>. QED BY <1>1, <1>2, <1>3, <1>4, IdleOwnsNothing, NamingSweeps

\* save() writes: an edit leaves the file as it is, an upload puts its own.
LEMMA SaveWriteSweeps ==
    ASSUME UploadsAssumption, Kept, Swept, Alone, NEW c \in Calls, SaveWrite(c)
    PROVE  Swept'
<1>. DEFINE self == calls[c]
            next == AfterSave(self)
<1>1. /\ Good(rows, disk, byHand, self) /\ self \in Call /\ self.pc = "write"
      /\ self.copy \in Row /\ self.slot \in Slots /\ rows[self.slot] \in Row
      /\ Become(c, next) /\ UNCHANGED <<disk, blamed, byHand>>
      /\ rows' = [rows EXCEPT ![self.slot] =
                      SavedRow(rows[self.slot], self.copy, self.dirty)]
    BY DEF SaveWrite, At, Kept, Good
<1>2. Remembers(rows, self) /\ Tidy(rows, disk, Excused, self)
    BY <1>1 DEF Swept
<1>3. CASE self.file = NULL
    <2>1. \A f \in Files \ Excused :
              (\E s \in Slots : rows'[s].file = f) <=> \E s \in Slots : rows[s].file = f
        <3>1. PICK saved : saved = SavedRow(rows[self.slot], self.copy, self.dirty)
            OBVIOUS
        <3>2. saved \in {rows[self.slot], self.copy}
            BY <1>1, <3>1 DEF SavedRow, Row
        <3>3. \/ saved.file = rows[self.slot].file
              \/ {saved.file, rows[self.slot].file} \subseteq byHand \cup {NULL}
            BY <1>1, <1>3, <3>2 DEF Good
        <3>4. /\ rows'[self.slot] = saved
              /\ \A s \in Slots : s # self.slot => rows'[s] = rows[s]
            BY <1>1, <3>1 DEF Kept
        <3>5. \A f \in Files \ Excused : f # NULL /\ f \notin byHand
            BY UploadsAssumption DEF UploadsAssumption, Excused
        <3>. QED BY <1>1, <3>3, <3>4, <3>5
    <2>4. next = Idle
        BY <1>3 DEF AfterSave
    <2>5. Extra(self) = {} /\ Gone(self) \subseteq {NULL}
        BY <1>1, <1>2, <1>3 DEF Extra, Gone, Pending, Remembers
    <2>6. NULL \notin Files
        BY UploadsAssumption DEF UploadsAssumption
    <2>7. Tidy(rows', disk', Excused', Idle)
        BY <1>1, <1>2, <2>1, <2>5, <2>6, IdleOwnsNothing DEF Tidy, Excused
    <2>. QED BY <1>1, <2>4, <2>7, IdleOwnsNothing, OnlyCallMoves DEF Swept
<1>4. CASE self.file # NULL
    <2>1. Pending(self) /\ self.dirty = {"file"} /\ self.copy.file = self.file
        BY <1>1, <1>4 DEF Good, Pending
    <2>2. SavedRow(rows[self.slot], self.copy, self.dirty) = [file |-> self.file]
        BY <1>1, <2>1 DEF SavedRow, Row
    <2>3. self.previous = rows[self.slot].file
        BY <1>1, <1>2, <1>4 DEF Remembers
    <2>4. CASE self.slot \in Pictures /\ self.previous # NULL
        <3>1. next = [self EXCEPT !.pc = "remove"]
            BY <1>4, <2>4 DEF AfterSave
        <3>2. next.pc = "remove" /\ next.previous = self.previous
            BY <1>1, <3>1 DEF Call
        <3>. HIDE DEF next
        <3>3. /\ Extra(next) = {self.previous} /\ Gone(next) = {}
              /\ Remembers(rows', next)
            BY <3>2 DEF Extra, Gone, Pending, Remembers
        <3>4. Gone(self) = {}
            BY <2>4, UploadsAssumption DEF Gone, UploadsAssumption
        <3>. QED BY <1>1, <2>1, <2>2, <2>3, <3>2, <3>3, <3>4, NamingSweeps
    <2>5. CASE ~(self.slot \in Pictures /\ self.previous # NULL)
        <3>1. next = Idle
            BY <2>5 DEF AfterSave
        <3>2. Gone(self) \ {NULL} = {self.previous} \ {NULL}
            BY <1>1, <2>5 DEF Gone, Slots
        <3>. QED BY <1>1, <2>1, <2>2, <2>3, <3>1, <3>2, IdleOwnsNothing, NamingSweeps
    <2>. QED BY <2>4, <2>5
<1>. QED BY <1>3, <1>4

\* The database fails: a picture's file will be taken away, a document's and
\* the one before are to blame.
LEMMA SaveFailsSweeps ==
    ASSUME UploadsAssumption, Kept, Swept, Alone, NEW c \in Calls, SaveFails(c)
    PROVE  Swept'
<1>. DEFINE self == calls[c]
            next == [self EXCEPT !.pc = "undo"]
<1>1. /\ Good(rows, disk, byHand, self) /\ self \in Call /\ self.slot \in Slots
      /\ self.pc \in {"reload", "write", "insert"} /\ UNCHANGED <<rows, disk, byHand>>
    BY DEF SaveFails, Kept, Good
<1>2. Remembers(rows, self) /\ Tidy(rows, disk, Excused, self) /\ disk' \subseteq Files
    BY <1>1 DEF Swept
<1>3. NULL \notin Files
    BY UploadsAssumption DEF UploadsAssumption
<1>4. CASE self.slot \in Pictures /\ self.file = NULL
    <2>1. Become(c, Idle) /\ blamed' = blamed
        BY <1>4 DEF SaveFails
    <2>2. Extra(self) = {} /\ Gone(self) = {}
        BY <1>1, <1>4, UploadsAssumption DEF Extra, Gone, Pending, UploadsAssumption
    <2>3. Tidy(rows, disk, Excused, Idle)
        BY <1>2, <2>2, IdleOwnsNothing DEF Tidy
    <2>. QED BY <1>1, <1>2, <2>1, <2>3, IdleOwnsNothing, OnlyCallMoves DEF Excused
<1>5. CASE self.slot \in Pictures /\ self.file # NULL
    <2>1. Become(c, next) /\ blamed' = blamed
        BY <1>5 DEF SaveFails
    <2>2. /\ next.pc = "undo" /\ next.slot = self.slot /\ next.file = self.file
          /\ next.previous = self.previous
        BY <1>1 DEF Call
    <2>. HIDE DEF next
    <2>3. /\ Extra(self) = {self.file} /\ Extra(next) = {self.file}
          /\ Gone(self) = {} /\ Gone(next) = {}
        BY <1>1, <1>5, <2>2, UploadsAssumption
        DEF Extra, Gone, Pending, UploadsAssumption
    <2>4. Tidy(rows, disk, Excused, next) /\ Remembers(rows, next)
        BY <1>2, <2>2, <2>3 DEF Tidy, Remembers
    <2>. QED BY <1>1, <1>2, <2>1, <2>2, <2>4, OnlyCallMoves DEF Excused
<1>6. CASE self.slot \notin Pictures
    <2>1. Become(c, Idle) /\ blamed' = blamed \cup Carried(self)
        BY <1>6 DEF SaveFails
    <2>2. Extra(self) \cup Gone(self) \subseteq Carried(self) \cup {NULL}
        BY <1>1 DEF Extra, Gone, Carried, Pending
    <2>3. Tidy(rows, disk, Excused', Idle)
        BY <1>1, <1>2, <1>3, <2>1, <2>2, IdleOwnsNothing DEF Tidy, Excused
    <2>. QED BY <1>1, <1>2, <2>1, <2>3, IdleOwnsNothing, OnlyCallMoves
<1>. QED BY <1>4, <1>5, <1>6

\* The process dies, and the files of the call are to blame.
LEMMA CrashSweeps ==
    ASSUME UploadsAssumption, Swept, Crash PROVE Swept'
<1>1. /\ \A c \in Calls : calls'[c] = Idle
      /\ UNCHANGED <<rows, disk, byHand>>
      /\ blamed' = blamed \cup UNION {Carried(calls[c]) : c \in Calls}
    BY DEF Crash
<1>2. Tidy(rows, disk, Excused', Idle)
    <2>1. CASE \A c \in Calls : calls[c].pc = "idle"
        BY <1>1, <2>1 DEF Swept, Tidy, Excused
    <2>2. ASSUME NEW c \in Calls, calls[c].pc # "idle"
          PROVE  Tidy(rows, disk, Excused', Idle)
        <3>1. Tidy(rows, disk, Excused, calls[c])
            BY <2>2 DEF Swept
        <3>2. Carried(calls[c]) \subseteq blamed'
            BY <1>1
        <3>3. Extra(calls[c]) \cup Gone(calls[c])
                  \subseteq Carried(calls[c]) \cup {NULL}
            BY DEF Extra, Gone, Carried
        <3>4. blamed \subseteq blamed' /\ NULL \notin Files
            BY <1>1, UploadsAssumption DEF UploadsAssumption
        <3>. QED BY <1>1, <3>1, <3>2, <3>3, <3>4, IdleOwnsNothing DEF Tidy, Excused
    <2>. QED BY <2>1, <2>2
<1>. QED BY <1>1, <1>2, IdleOwnsNothing DEF Swept, Idle

\* At the start there are no files.
LEMMA SweptInit == ASSUME UploadsAssumption, Init PROVE Swept
<1>1. \A c \in Calls : calls[c] = Idle
    BY DEF Init
<1>2. Tidy(rows, disk, Excused, Idle)
    BY UploadsAssumption, IdleOwnsNothing DEF Init, Tidy, UploadsAssumption
<1>. QED BY <1>1, <1>2, IdleOwnsNothing DEF Swept, Init, Idle

\* Every request leaves the rows and the disk as they fit together.
LEMMA SweptNext ==
    ASSUME UploadsAssumption, Kept, Swept, Alone, Alone', [Next]_vars
    PROVE  Swept'
<1>1. CASE UNCHANGED vars
    BY <1>1 DEF vars, Swept, Excused
<1>2. CASE \E c \in Calls, s \in Slots, f \in Files : Upload(c, s, f)
    BY <1>2, UploadSweeps
<1>3. CASE \E c \in Calls, s \in Pictures, file \in Files \cup {NULL} :
          EditRead(c, s, file)
    BY <1>3, EditSweeps
<1>4. ASSUME NEW c \in Calls,
             \/ TurnDown(c) \/ NotFound(c) \/ LoadPicture(c) \/ LoadDocument(c)
             \/ Insert(c) \/ RemoveFirst(c) \/ SaveReload(c) \/ SaveWrite(c)
             \/ SaveFails(c) \/ RemovePrevious(c) \/ Undo(c)
      PROVE  Swept'
    BY <1>4, EndSweeps, LookSweeps, InsertSweeps, RemoveFirstSweeps,
       SaveReloadSweeps, SaveWriteSweeps, SaveFailsSweeps
<1>5. CASE Crash
    BY <1>5, CrashSweeps
<1>. QED BY <1>1, <1>2, <1>3, <1>4, <1>5 DEF Next

\* Once nobody works, the rows and the disk fit together.
LEMMA SweptIsClean ==
    ASSUME UploadsAssumption, Kept, Swept PROVE NoFileIsLost
<1>. SUFFICES ASSUME \A c \in Calls : At(c, "idle")
              PROVE  disk \ Excused = Named \ Excused
    BY DEF NoFileIsLost
<1>1. Tidy(rows, disk, Excused, Idle) /\ disk \subseteq Files
    BY DEF Swept, At
<1>2. Named \subseteq Files
    BY DEF Named, Kept, Row
<1>3. \A f \in Files : f \in Named <=> \E s \in Slots : rows[s].file = f
    BY UploadsAssumption DEF Named, UploadsAssumption
<1>. QED BY <1>1, <1>2, <1>3, IdleOwnsNothing DEF Tidy

\* If requests follow one another: once nobody works, the disk holds exactly
\* the files that rows name, but for those of uploads that were turned down,
\* died, or could not save their document, and those of edits by hand (the
\* catalog's uploads and saveDocument()).
THEOREM NothingIsLost ==
    ASSUME UploadsAssumption PROVE Spec /\ []Alone => []NoFileIsLost
<1>1. Init => Kept /\ Swept
    BY KeptInit, SweptInit
<1>2. Kept /\ Swept /\ Alone /\ Alone' /\ [Next]_vars => Kept' /\ Swept'
    BY AloneEdits, KeptNext, SweptNext
<1>3. Kept /\ Swept => NoFileIsLost
    BY SweptIsClean
<1>. QED BY <1>1, <1>2, <1>3, PTL DEF Spec

=============================================================================
