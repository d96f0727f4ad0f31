------------------------------ MODULE FileReading ------------------------------
(***************************************************************************)
(* Reading a file: downloads and versions, shared and public documents,    *)
(* preview sessions with their bytes, models, parts and conversions, and   *)
(* the checks that these requests, the collections and the saves of the    *)
(* editors begin with.  Every check and every call of the storage is an    *)
(* await of its own, and the file, its place, its reader's account and its *)
(* storage change between them.                                            *)
(*                                                                         *)
(* The versions of the one file are numbered as they come; a size is all   *)
(* that is left of their bytes.                                            *)
(***************************************************************************)
EXTENDS Integers, Sequences, FiniteSets

CONSTANTS Readers,       \* requests at a time
          Sizes,         \* bytes of each version
          MaxVersion,    \* bound: versions
          WholeFile,     \* no Range header
          RangeHeaders,  \* other headers: first and last byte, either may be Absent
          Scenes         \* files to start with, and what happens to them

Absent == -1
Versions == 1..MaxVersion

ASSUME ReadConstants ==
  /\ MaxVersion \in Nat \ {0} /\ Sizes \in [Versions -> Nat]
  /\ RangeHeaders \subseteq [first : Nat \cup {Absent}, last : Nat \cup {Absent}]
  /\ WholeFile \notin RangeHeaders

VARIABLES
  subject,  \* the file and its reader, as the database and Drive have them
  reading,  \* the requests under way
  page,     \* the reader's tab: its session and what it shows
  temps     \* directories of conversions

readVars == <<subject, reading, page, temps>>

-----------------------------------------------------------------------------
(* Who may read what.                                                      *)

Rights == {"live", "account", "editor", "link", "source", "listed"}
Formats == {"direct", "text", "document", "sheets", "slides", "office", "export"}
Passes == {"none", "local", "direct", "export", "office", "model"}
FileReads == {"download", "history", "shared", "public", "local"}
SourceReads == {"content", "export", "office", "model", "part", "reload"}
ReadKinds == FileReads \cup SourceReads \cup {"open", "list", "mark", "save"}
Happenings == {"trash", "account", "link", "source", "replace", "migrate", "unmark"}

\* current, the version File.currentVersionId names: the last one on the volume;
\* session, one that the reader's tab has been given before.
Subject == [live : BOOLEAN, account : {"admin", "viewer", "none"}, link : BOOLEAN, up : BOOLEAN,
            listed : BOOLEAN, backing : {"local", "drive"}, version : Versions,
            current : {0} \cup Versions, format : Formats,
            session : Passes \ {"local"}, kinds : SUBSET ReadKinds, events : SUBSET Happenings, left : Nat,
            asks : Nat]

ASSUME ScenesFit ==
  \A s \in Scenes : s \in Subject /\ s.current <= s.version
                    /\ (s.backing = "local" => s.current = s.version)

\* What the checks of the code find at a moment.
RightsOf(s) ==
  {right \in Rights :
     CASE right = "live" -> s.live
       [] right = "account" -> s.account # "none"
       [] right = "editor" -> s.account = "admin"
       [] right = "link" -> s.link
       [] right = "source" -> s.backing = "drive" /\ s.up
       [] right = "listed" -> s.listed}

\* The checks of the content routes of a preview session: DrivePreviewService.verify.
SessionChecks == <<{"account"}, {"live"}, {"account"}, {"live", "source"}>>

\* What each read of the database has to find, in turn, before a file is downloaded;
FileChecks == <<{"live"}, {"live"}, {"account"}, {"live"}>>
\* before a shared document is, by one who signed in or by anybody with the link;
SharedChecks == <<{"live"}, {"live"}, {"live"}, {"account"}, {"live"}>>
PublicChecks == <<{"live", "link"}, {"live"}, {"live"}>>
\* before a session of PreviewService sends a version of the volume;
VolumeChecks == <<{"account"}, {"live"}, {"account"}, {"live"}, {"live"}>>
\* before a node shows up in the favorites or in the recent ones, or is put there;
ListChecks == <<{"listed"}, {"live"}, {"live"}, {"account"}>>
MarkChecks == <<{"live"}, {"live"}, {"account"}>>
\* before a session is created, or an editor's save goes to the coordinator.
CreateChecks == <<{"live"}>>
SaveChecks == <<{"live"}, {"editor"}, {"live", "source"}>>

Checks(kind) ==
  CASE kind \in {"download", "history"} -> FileChecks
    [] kind = "shared" -> SharedChecks
    [] kind = "public" -> PublicChecks
    [] kind = "local" -> VolumeChecks
    [] kind \in SourceReads -> SessionChecks
    [] kind = "open" -> CreateChecks
    [] kind = "list" -> ListChecks
    [] kind = "mark" -> MarkChecks
    [] kind = "save" -> SaveChecks

\* Mutant: who found the file may open it.
TrustingChecks(backing) == <<{"live"}, IF backing = "drive" THEN {"live", "source"} ELSE {"live"}>>

\* What is left to check once the workspace knows where the file is.
OpenChecks(backing) ==
  <<{"live"}, {"account"}, IF backing = "drive" THEN {"live", "source"} ELSE {"live"}>>

-----------------------------------------------------------------------------
(* Byte ranges.                                                            *)

Satisfiable(header, size) ==
  /\ size > 0
  /\ IF header.first = Absent THEN header.last # Absent /\ header.last > 0
     ELSE header.first < size /\ (header.last # Absent => header.last >= header.first)

\* Mutant: a last byte is taken as it is asked for.
UnboundedRange(header, size) ==
  IF header.first = Absent
  THEN [start |-> IF header.last > size THEN 0 ELSE size - header.last, end |-> size - 1]
  ELSE [start |-> header.first, end |-> IF header.last = Absent THEN size - 1 ELSE header.last]

ParseSingleByteRange(header, size) ==
  IF header.first = Absent
  THEN [start |-> IF header.last > size THEN 0 ELSE size - header.last, end |-> size - 1]
  ELSE [start |-> header.first,
        end |-> IF header.last = Absent \/ header.last > size - 1 THEN size - 1 ELSE header.last]

\* The bytes that a header means.
AskedBytes(header, size) ==
  IF header = WholeFile THEN 0 .. size - 1
  ELSE {i \in 0 .. size - 1 :
          IF header.first = Absent THEN i >= size - header.last
          ELSE i >= header.first /\ (header.last # Absent => i <= header.last)}

\* The bytes that an answer announces for a file of this size.
AnnouncedBytes(header, size) ==
  IF header = WholeFile THEN 0 .. size - 1
  ELSE LET range == ParseSingleByteRange(header, size) IN range.start .. range.end

\* Drive sends what it has of a range.
SentBytes(header, size, has) ==
  IF header = WholeFile THEN 0 .. has - 1 ELSE {i \in AnnouncedBytes(header, size) : i < has}
DriveHas(header, size, has) ==
  header # WholeFile => ParseSingleByteRange(header, size).start < has

-----------------------------------------------------------------------------
(* Requests.                                                               *)

\* asked, the version that is asked for, 0 for the current one; side, where it is
\* listed; sized and got, the versions whose size and bytes were read; via, where
\* the file was when that was read; gone, the reader does not wait any more; label,
\* the revision that a save expects, or the one that comes with a part: after a
\* reload, whose model was read from first, or after the save of a spreadsheet.
\* History: held, the rights there were since it came, of version since; turn, what
\* the tab showed then.
ReadRequest ==
  [kind : ReadKinds, pc : {"idle", "check", "open", "copy", "convert", "send"},
   left : Seq(SUBSET Rights), held : SUBSET Rights, header : RangeHeaders \cup {WholeFile},
   asked : {0} \cup Versions, side : {"local", "drive"}, via : {"none", "local", "drive"},
   since : Versions, sized : {0} \cup Versions, got : {0} \cup Versions, plan : Passes,
   gone : BOOLEAN, no : Nat, load : Nat, label : {0} \cup Versions, first : {0} \cup Versions,
   turn : Nat]
\* pass, the session; vid, the version of a local one; load, the viewer's component;
\* label, the revision of the model that is shown; seen, the versions that it and its
\* parts were read from.  History, since it was last shown anew: base, the label it
\* had then; own, versions its own saves have made; mixed, an answer that had been
\* asked for before has come.
TabPage == [pass : Passes, vid : {0} \cup Versions, label : {0} \cup Versions,
            seen : SUBSET Versions, load : Nat, base : {0} \cup Versions, own : SUBSET Versions,
            turn : Nat, mixed : BOOLEAN]
Temps == [there : SUBSET Nat, abandoned : SUBSET Nat]

ReadTypeOK ==
  /\ subject \in Subject /\ page \in TabPage /\ temps \in Temps
  /\ reading \in [Readers -> ReadRequest]

NoRequest ==
  [kind |-> "download", pc |-> "idle", left |-> <<>>, held |-> {}, header |-> WholeFile,
   asked |-> 0, side |-> "local", via |-> "none", since |-> 1, sized |-> 0, got |-> 0,
   plan |-> "none", gone |-> FALSE, no |-> 0, load |-> 0, label |-> 0, first |-> 0, turn |-> 0]

\* The routes a session is good for.
Uses(pass) ==
  CASE pass = "local" -> {"local"}
    [] pass = "direct" -> {"content"}
    [] pass \in {"export", "office"} -> {pass}
    [] pass = "model" -> {"content", "model", "part", "reload"}
    [] OTHER -> {}

\* createPresentationEditorState, createSpreadsheetEditorState, and what a tab has
\* before them: whatever was shown is replaced.
ShowAnew(label, seen) ==
  [page EXCEPT !.label = label, !.seen = seen, !.base = label, !.own = {}, !.turn = @ + 1,
     !.mixed = FALSE]

\* A request for the file as it is comes from the tab as it is.
NewRead(kind, no, load) ==
  [NoRequest EXCEPT !.kind = kind, !.pc = "check", !.left = Checks(kind), !.held = RightsOf(subject),
     !.side = subject.backing, !.since = subject.version, !.no = no, !.load = load,
     !.turn = page.turn]

\* A request comes.  Parts are asked for by an editor that has its model, and so is
\* the model to be put in the place of the one it has (a reload); asking for the
\* model otherwise begins with a new component.  A save expects the label there is.
Ask(r, kind, header, asked) ==
  LET load == IF kind = "model" THEN page.load + 1 ELSE page.load
  IN /\ reading[r].pc = "idle" /\ subject.asks > 0 /\ kind \in subject.kinds
     /\ kind \in SourceReads \cup {"local"} => kind \in Uses(page.pass)
     /\ kind \in {"part", "reload"} => page.label # 0
     /\ kind = "reload" => subject.format \in {"sheets", "slides"}
     /\ header # WholeFile => kind \in FileReads \cup {"content"}
     /\ asked \in CASE kind = "history" -> 1 .. subject.version
                    [] kind = "local" -> {page.vid}
                    [] OTHER -> {0}
     /\ reading' = [reading EXCEPT ![r] =
          [NewRead(kind, subject.asks, load) EXCEPT !.header = header, !.asked = asked,
             !.side = IF kind = "local" THEN "local" ELSE @,
             !.label = IF kind = "save" THEN page.label ELSE 0]]
     /\ page' = IF kind = "model" THEN [ShowAnew(0, {}) EXCEPT !.load = load] ELSE page
     /\ subject' = [subject EXCEPT !.asks = @ - 1]
     /\ UNCHANGED temps

Checking(r) == reading[r].pc = "check" /\ reading[r].left # <<>>
Checked(r) == reading[r].pc = "check" /\ reading[r].left = <<>>

\* A read of the database finds what it has to.  The last one of FileReadService
\* also finds where the file is and, if kept locally, its current version; the first
\* one of a session's creation chooses the service that goes on, which finds the
\* current version of the volume whether or not the file is still there.
PassCheck(r) ==
  LET q == reading[r]
      chooses == q.kind = "open" /\ q.via = "none"
      last == Len(q.left) = 1 /\ q.kind # "open"
      finds == Len(q.left) = 1 /\ IF q.kind = "open" THEN q.via = "local"
                                  ELSE q.kind \in FileReads /\ subject.backing = "local"
  IN /\ Checking(r) /\ Head(q.left) \subseteq RightsOf(subject)
     /\ reading' = [reading EXCEPT
          ![r].left = IF chooses THEN OpenChecks(subject.backing) ELSE Tail(@),
          ![r].via = IF chooses \/ last THEN subject.backing ELSE @,
          ![r].got = IF q.asked # 0 THEN q.asked
                     ELSE IF finds THEN subject.current ELSE @]
     /\ UNCHANGED <<subject, page, temps>>

\* A request that ends with an error.
Refuse(r) ==
  /\ Checking(r) /\ ~(Head(reading[r].left) \subseteq RightsOf(subject))
  /\ reading' = [reading EXCEPT ![r] = NoRequest]
  /\ UNCHANGED <<subject, page, temps>>

\* The answer begins, if there is still someone to answer.
Begun(q) == IF q.gone THEN NoRequest ELSE [q EXCEPT !.pc = "send"]
Begin(r, q) == reading' = [reading EXCEPT ![r] = Begun(q)]

\* Requests under way see what is new from now on.
Meet(all, s) ==
  [r \in Readers |-> IF all[r].pc = "idle" THEN all[r]
                     ELSE [all[r] EXCEPT !.held = @ \cup RightsOf(s)]]

\* FileReadService, from a version that never changes: on the volume, or kept by Drive.
\* An id of the other kind is not found.
ReadVersion(r) ==
  LET q == reading[r]
  IN /\ Checked(r) /\ q.kind \in FileReads /\ q.got # 0 /\ (q.asked # 0 => q.side = q.via)
     /\ q.header # WholeFile => Satisfiable(q.header, Sizes[q.got])
     /\ Begin(r, [q EXCEPT !.sized = q.got])
     /\ UNCHANGED <<subject, page, temps>>

\* stat: FileReadService always, the content of a session for a range, a model for its label.
StatObject(r) ==
  LET q == reading[r]
  IN /\ Checked(r)
     /\ \/ q.kind \in FileReads /\ q.via = "drive" /\ q.asked = 0
        \/ q.kind = "content" /\ q.header # WholeFile
        \/ q.kind \in {"model", "part", "reload"}
     /\ q.header # WholeFile => Satisfiable(q.header, Sizes[subject.version])
     /\ reading' = [reading EXCEPT ![r].pc = "open", ![r].sized = subject.version]
     /\ UNCHANGED <<subject, page, temps>>

\* openRead, exportFile: the bytes there are now.
OpenObject(r) ==
  LET q == reading[r]
  IN /\ \/ q.pc = "open"
        \/ Checked(r) /\ (q.kind = "export" \/ (q.kind = "content" /\ q.header = WholeFile))
        \/ Checked(r) /\ q.kind = "part"  \* openAsset
     /\ q.pc = "open" => DriveHas(q.header, Sizes[q.sized], Sizes[subject.version])
     /\ Begin(r, [q EXCEPT !.got = subject.version])
     /\ UNCHANGED <<subject, page, temps>>

-----------------------------------------------------------------------------
(* Conversions: convertOfficePreview.                                      *)

MakeDirectory(r) ==
  /\ Checked(r) /\ reading[r].kind = "office"
  /\ reading' = [reading EXCEPT ![r].pc = "copy"]
  /\ temps' = [temps EXCEPT !.there = @ \cup {reading[r].no}]
  /\ UNCHANGED <<subject, page>>

CopySource(r) ==
  /\ reading[r].pc = "copy"
  /\ reading' = [reading EXCEPT ![r].pc = "convert", ![r].got = subject.version]
  /\ UNCHANGED <<subject, page, temps>>

\* The directory goes with the answer.  If the reader has left before the answer
\* waits for its end, nothing removes it.
Convert(r) ==
  /\ reading[r].pc = "convert"
  /\ Begin(r, reading[r])
  /\ temps' = IF reading[r].gone THEN [temps EXCEPT !.abandoned = @ \cup {reading[r].no}] ELSE temps
  /\ UNCHANGED <<subject, page>>

-----------------------------------------------------------------------------
(* Other answers, and how requests end.                                    *)

\* What a session offers: an office file that cannot be parsed is converted, another
\* one can only be downloaded; from the volume only what the browser shows itself.
Plans(format, via) ==
  IF via = "local" THEN {IF format \in {"direct", "text"} THEN "local" ELSE "none"}
  ELSE CASE format = "document" -> {"model", "office"}
         [] format \in {"sheets", "slides", "text"} -> {"model", "direct"}
         [] OTHER -> {format}

PlanSession(r, plan) ==
  /\ Checked(r) /\ reading[r].kind = "open" /\ plan \in Plans(subject.format, reading[r].via)
  /\ Begin(r, [reading[r] EXCEPT !.plan = plan])
  /\ UNCHANGED <<subject, page, temps>>

\* Mutant: the coordinator does not compare.
AnyRevision(q) == q.label # 0

\* The coordinator writes over the version that a save expects, and no other.
ExpectedRevision(q) == q.label = subject.version

\* A list is shown; a save goes on to the coordinator, which refuses it.
AnswerAtOnce(r) ==
  /\ Checked(r)
  /\ reading[r].kind = "list" \/ (reading[r].kind = "save" /\ ~ExpectedRevision(reading[r]))
  /\ Begin(r, reading[r])
  /\ UNCHANGED <<subject, page, temps>>

\* The file as it is after a replacement of its content.
Replaced ==
  [subject EXCEPT !.version = @ + 1,
     !.current = IF subject.backing = "local" THEN subject.version + 1 ELSE @]

\* The coordinator makes a version; the answer has the model of that version.
SaveThrough(r) ==
  /\ Checked(r) /\ reading[r].kind = "save" /\ ExpectedRevision(reading[r])
  /\ subject.version < MaxVersion
  /\ subject' = Replaced
  /\ reading' = Meet([reading EXCEPT ![r] = Begun([@ EXCEPT !.sized = subject'.version])], subject')
  /\ UNCHANGED <<page, temps>>

\* addFavorite, recordRecent
MarkFile(r) ==
  /\ Checked(r) /\ reading[r].kind = "mark"
  /\ subject' = [subject EXCEPT !.listed = TRUE]
  /\ reading' = Meet([reading EXCEPT ![r] = Begun(@)], subject')
  /\ UNCHANGED <<page, temps>>

\* Not found, not satisfiable, or not there: an error, with the directory removed.
ReadFails(r) ==
  /\ Checked(r) \/ reading[r].pc \in {"open", "copy", "convert"}
  /\ reading' = [reading EXCEPT ![r] = NoRequest]
  /\ temps' = IF reading[r].kind = "office" THEN [temps EXCEPT !.there = @ \ {reading[r].no}] ELSE temps
  /\ UNCHANGED <<subject, page>>

\* A reload has the model and asks for the part to be shown; a spreadsheet has the
\* answer to its save and asks for its sheet once more.
Completes(r) ==
  LET q == reading[r]
  IN /\ q.pc = "send"
     /\ \/ q.kind = "reload"
        \/ q.kind = "save" /\ q.sized # 0 /\ subject.format = "sheets"
     /\ reading' = [reading EXCEPT ![r] =
          [NewRead("part", q.no, q.load) EXCEPT !.turn = q.turn, !.label = q.sized, !.first = q.got]]
     /\ UNCHANGED <<subject, page, temps>>

\* What the tab makes of an answer.  One to a component that is gone is dropped; in
\* the one there is, a part goes to whatever is shown when it comes, and so does the
\* label of a save.
PageAfter(q) ==
  LET kept == [page EXCEPT !.mixed = @ \/ q.turn # page.turn]
  IN CASE q.kind = "open" ->
            [ShowAnew(0, {}) EXCEPT !.pass = q.plan, !.load = @ + 1,
               !.vid = IF q.plan = "local" THEN q.got ELSE 0]
       [] q.kind # "open" /\ q.load # page.load -> page
       [] q.kind = "model" /\ q.load = page.load -> ShowAnew(q.sized, {q.got})
       [] q.kind = "part" /\ q.load = page.load ->
            IF q.label = 0 THEN [kept EXCEPT !.seen = @ \cup {q.got}]
            ELSE IF q.first # 0 THEN ShowAnew(q.label, {q.first, q.got})
            ELSE [kept EXCEPT !.seen = @ \cup {q.got}, !.label = q.label, !.own = @ \cup {q.label}]
       [] q.kind = "save" /\ q.sized # 0 /\ q.load = page.load ->
            [kept EXCEPT !.label = q.sized, !.own = @ \cup {q.sized}]
       [] OTHER -> page

\* The reader has the whole answer.
Deliver(r) ==
  LET q == reading[r]
  IN /\ q.pc = "send" /\ q.kind # "reload"
     /\ page' = PageAfter(q)
     /\ reading' = [reading EXCEPT ![r] = NoRequest]
     /\ temps' = IF q.kind = "office" THEN [temps EXCEPT !.there = @ \ {q.no}] ELSE temps
     /\ UNCHANGED subject

\* The reader leaves; before the answer begins the code does not notice.
LeaveRead(r) ==
  LET q == reading[r]
  IN /\ q.pc # "idle" /\ ~q.gone
     /\ reading' = [reading EXCEPT ![r] = IF q.pc = "send" THEN NoRequest ELSE [q EXCEPT !.gone = TRUE]]
     /\ temps' = IF q.pc = "send" /\ q.kind = "office" THEN [temps EXCEPT !.there = @ \ {q.no}] ELSE temps
     /\ UNCHANGED <<subject, page>>

-----------------------------------------------------------------------------
(* What happens to the file meanwhile.                                     *)

Happens(event, to) ==
  /\ event \in subject.events /\ subject.left > 0
  /\ subject' = [to EXCEPT !.left = @ - 1]
  /\ reading' = Meet(reading, to)
  /\ UNCHANGED <<page, temps>>

SubjectChanges ==
  \/ Happens("trash", [subject EXCEPT !.live = ~@])
  \/ \E account \in {"admin", "viewer", "none"} \ {subject.account} :
       Happens("account", [subject EXCEPT !.account = account])
  \/ Happens("link", [subject EXCEPT !.link = ~@])
  \/ subject.backing = "drive" /\ Happens("source", [subject EXCEPT !.up = ~@])
  \/ subject.version < MaxVersion /\ Happens("replace", Replaced)
  \/ subject.backing = "local" /\ Happens("migrate", [subject EXCEPT !.backing = "drive"])
  \/ subject.listed /\ Happens("unmark", [subject EXCEPT !.listed = FALSE])

ReadInit ==
  /\ subject \in Scenes
  /\ reading = [r \in Readers |-> NoRequest]
  /\ page = [pass |-> subject.session, vid |-> 0, label |-> 0, seen |-> {}, load |-> 0, base |-> 0,
             own |-> {}, turn |-> 0, mixed |-> FALSE]
  /\ temps = [there |-> {}, abandoned |-> {}]

ReadNext ==
  \/ SubjectChanges
  \/ \E r \in Readers :
       \/ PassCheck(r) \/ Refuse(r) \/ ReadVersion(r) \/ StatObject(r) \/ OpenObject(r)
       \/ MakeDirectory(r) \/ CopySource(r) \/ Convert(r)
       \/ AnswerAtOnce(r) \/ SaveThrough(r) \/ MarkFile(r) \/ ReadFails(r)
       \/ Completes(r) \/ Deliver(r) \/ LeaveRead(r)
       \/ \E plan \in Passes : PlanSession(r, plan)
       \/ \E kind \in ReadKinds, header \in RangeHeaders \cup {WholeFile},
             asked \in {0} \cup Versions : Ask(r, kind, header, asked)

ReadSpec == ReadInit /\ [][ReadNext]_readVars

-----------------------------------------------------------------------------
(* Properties.                                                             *)

Needs(kind) ==
  CASE kind = "public" -> {"live", "link"}
    [] kind \in SourceReads -> {"live", "account", "source"}
    [] kind = "list" -> {"live", "account", "listed"}
    [] kind = "save" -> {"live", "editor", "source"}
    [] OTHER -> {"live", "account"}

\* No request is answered on rights that were withdrawn before it came: whatever
\* session it shows, each right it needs was there at some moment since.
ServedWasAllowed ==
  \A r \in Readers : reading[r].pc = "send" => Needs(reading[r].kind) \subseteq reading[r].held

\* Bytes are of the version that was asked for, or of one that was current at some
\* moment since; and what is announced and what is sent are those that the header
\* means, unless another version came between their size and them.
BytesAreAsked ==
  \A r \in Readers :
    LET q == reading[r]
    IN q.pc = "send" /\ q.got # 0 =>
         /\ IF q.asked # 0 THEN q.got = q.asked ELSE q.got \in q.since .. subject.version
         /\ q.sized = q.got =>
              /\ SentBytes(q.header, Sizes[q.sized], Sizes[q.got]) = AskedBytes(q.header, Sizes[q.got])
              /\ AnnouncedBytes(q.header, Sizes[q.sized]) = AskedBytes(q.header, Sizes[q.got])

\* A save sends the label back.  If it is still current then, all that the tab
\* shows was read from the current version, or from one that only the tab's own saves
\* have followed, in whatever order the answers came.  Not so of a presentation or a
\* spreadsheet that was reloaded in place while an answer was awaited, which then
\* came: it is shown under the label of the reload.
LabelVouches ==
  ~page.mixed /\ page.label = subject.version =>
    \A v \in page.seen : v + 1 .. page.label \subseteq page.own

\* A directory belongs to a conversion that is under way or being sent, but for
\* those whose readers left before.
DirectoriesGo ==
  temps.there \ temps.abandoned \subseteq
    {reading[r].no : r \in {s \in Readers : reading[s].kind = "office"
                              /\ reading[s].pc \in {"copy", "convert", "send"}}}

\* What a reader is given is what they may see, asked for, and can save over.
ReadsAreSound == ServedWasAllowed /\ BytesAreAsked /\ LabelVouches /\ DirectoriesGo

=============================================================================
