------------------------------- MODULE PiiScan -------------------------------
(* validate_no_pii and the gate of outgoing evidence.  A call scans its      *)
(* paths one after the other: it lists a tree directory by directory, then   *)
(* checks, opens and reads file by file, under a deadline, a cap on files,   *)
(* on bytes and on findings, while other processes change the files.         *)
(* The call passes when every scan was clean and complete.                   *)
(* A file is [kind, text, rest, to]: kind "text", "binary", "special" (no    *)
(* regular file), "link" (to another name) or "none"; its hits within the    *)
(* cap on bytes and beyond it, None when it ends before.  An image is text   *)
(* that needs tesseract.                                                     *)
(* A definition named ...Slip is the next one with a plausible mistake.      *)
EXTENDS PiiText

CONSTANTS
    Tree,              \* the names in the root, then those in each directory below
    Images,            \* names an image goes by
    Root, Outside,     \* the tree as a path; a file that is not in it
    FileSystems,       \* the files there may be at the start
    Changes,           \* what a file may become
    Calls,             \* [paths, types, cap, byGate]
    Questions,         \* texts whose findings are asked for alone
    DefaultFiles, MostFiles, MaxFindings,
    MaxChanges, MaxFaults

Names == UNION {ToSet(Tree[d]) : d \in DOMAIN Tree}
Known == Names \cup {Outside}
Below == 2..Len(Tree)

\* What a file may ever be, what may be read of it, and why it may be passed over.
Entries == {fs[f] : fs \in FileSystems, f \in Known} \cup Changes
Contents == {file.text : file \in Entries}
Reasons == {"symlink_escape", "unreadable_directory", "not_regular_file", "ocr_unavailable",
            "ocr_failed", "unreadable", "binary", "scan_failed"}

ASSUME ScanAssumption ==
    /\ Tree \in Seq(Seq(Names)) \ {<<>>} /\ Root \notin Known
    /\ None \notin Reasons \cup [Known -> Entries]
    /\ FileSystems \subseteq [Known -> Entries]
    /\ \A file \in Entries : file.kind = "link" => file.to \in Known
    /\ \A c \in Calls :
         c.paths \in Seq(Known \cup {Root}) \ {<<>>} /\ (c.cap = None \/ c.cap \in Int)
    /\ {DefaultFiles, MostFiles} \subseteq Nat /\ MaxFindings \in Nat \ {0}

\* What is asked of the files' texts, whatever the limit: the detectors find
\* something in each that holds a value they accept.
ASSUME DetectorsAssumption ==
    \A t \in Contents, c \in Calls, n \in 1..(MaxFindings + 1) :
        LET found == RunDetectors(t, c.types, n)
        IN  /\ found \in Seq(t)
            /\ found = <<>> => \A h \in t : ~(h.ok /\ h.type \in c.types)

VARIABLES
    files,
    dirs,      \* the directories below the root: "open", "closed" (unreadable), "linked"
    ocr,       \* tesseract is installed
    call,
    asked,
    touched,   \* ghost: the names that changed since the call began
    read,      \* ghost: the texts the scan has read, in their order
    changes, faults

vars == <<files, dirs, ocr, call, asked, touched, read, changes, faults>>

NoScan == [ todo |-> {}, list |-> <<>>, path |-> None, late |-> FALSE, truncated |-> FALSE,
            skipped |-> <<>>, findings |-> <<>> ]

Idle == [ pc |-> "idle", paths |-> <<>>, all |-> {}, types |-> {}, max |-> 0, byGate |-> FALSE,
          ok |-> TRUE, scan |-> NoScan ]

Init ==
    /\ files = None /\ dirs = None /\ ocr = None
    /\ call = Idle /\ asked = None
    /\ touched = {} /\ read = <<>>
    /\ changes = 0 /\ faults = 0

Go(next) == call' = next
Scan(next) == call' = [call EXCEPT !.scan = next]
Resolved(name) == IF files[name].kind = "link" THEN files[name].to ELSE name
IsFile(name) == files[name].kind \in {"text", "binary"}

-----------------------------------------------------------------------------
\* The evidence there is.
Collected ==
    /\ files = None /\ asked = None
    /\ files' \in FileSystems
    /\ dirs' \in [Below -> {"open", "closed", "linked"}]
    /\ ocr' \in BOOLEAN
    /\ UNCHANGED <<call, asked, touched, read, changes, faults>>

\* The findings of one text, for every text.
Ask ==
    /\ files = None /\ asked = None
    /\ \E t \in Questions : asked' = t
    /\ UNCHANGED <<files, dirs, ocr, call, touched, read, changes, faults>>

\* The gate takes the configured cap, but no more than a scan accepts; what a
\* caller asks for itself is refused instead.
FileCap(c) ==
    LET cap == IF c.byGate /\ c.cap # None
               THEN IF c.cap > 0 THEN Min({c.cap, MostFiles}) ELSE None
               ELSE c.cap
    IN  IF cap = None THEN DefaultFiles ELSE cap

Refused(c) == ~c.byGate /\ c.cap # None /\ ~(c.cap \in 1..MostFiles)

Start(c) ==
    /\ call.pc = "idle" /\ files # None
    /\ Go([ Idle EXCEPT !.pc = IF Refused(c) THEN "answered" ELSE "target", !.ok = ~Refused(c),
              !.paths = c.paths, !.all = ToSet(c.paths), !.types = c.types,
              !.max = FileCap(c), !.byGate = c.byGate ])
    /\ touched' = {} /\ read' = <<>>
    /\ UNCHANGED <<files, dirs, ocr, asked, changes, faults>>

\* The next path fails the call and is left.
Failed == [ call EXCEPT !.ok = FALSE, !.scan = NoScan, !.paths = Tail(call.paths),
                        !.pc = IF Len(call.paths) = 1 THEN "answered" ELSE "target" ]

\* What is there is a directory or a regular file, by its real path.
Target ==
    LET path == Head(call.paths)
        real == Resolved(path)
    IN  /\ call.pc = "target"
        /\ Go(IF path = Root
              THEN [call EXCEPT !.pc = "walk",
                      !.scan = [NoScan EXCEPT !.path = Root, !.todo = DOMAIN Tree]]
              ELSE IF ~IsFile(real) THEN Failed
              ELSE [call EXCEPT !.pc = "collect", !.scan = [NoScan EXCEPT !.path = real]])
        /\ UNCHANGED <<files, dirs, ocr, asked, touched, read, changes, faults>>

Skip(scan, what, reason) ==
    [scan EXCEPT !.skipped = Append(scan.skipped, <<what, reason>>)]

\* A file that is gone by now is walked like a directory, which fails.
Collect ==
    /\ call.pc = "collect"
    /\ Go([call EXCEPT !.pc = "file",
             !.scan = IF IsFile(call.scan.path)
                      THEN [call.scan EXCEPT !.list = <<call.scan.path>>]
                      ELSE Skip(call.scan, call.scan.path, "unreadable_directory")])
    /\ UNCHANGED <<files, dirs, ocr, asked, touched, read, changes, faults>>

\* The names of a directory that are there, in its order.
Listed(d) ==
    LET there == {i \in DOMAIN Tree[d] : files[Tree[d][i]].kind # "none"}
        Place(k) == CHOOSE i \in there : Cardinality({j \in there : j <= i}) = k
    IN  [k \in 1..Cardinality(there) |-> Tree[d][Place(k)]]

\* An unreadable directory is no reason to stop the walk.
WalkedSlip(d) ==
    LET scan == [call.scan EXCEPT !.todo = call.scan.todo \ {d}]
        linked == {e \in Below : dirs[e] = "linked"}
        seen == IF d # 1 THEN scan
                ELSE [scan EXCEPT !.todo = scan.todo \ linked,
                        !.skipped = scan.skipped
                            \o [i \in 1..Cardinality(linked) |-> <<Root, "symlink_escape">>]]
        room == call.max - Len(scan.list)
    IN  IF d # 1 /\ dirs[d] = "closed" THEN scan
        ELSE IF scan.late THEN [scan EXCEPT !.truncated = TRUE, !.todo = {}]
        ELSE IF Len(Listed(d)) > room
             THEN [seen EXCEPT !.list = scan.list \o Cut(Listed(d), room),
                               !.truncated = TRUE, !.todo = {}]
        ELSE [seen EXCEPT !.list = scan.list \o Listed(d)]

\* One directory: linked ones below are passed over, an unreadable one is
\* noted; past the deadline or at the cap on files the walk stops.
Walked(d) ==
    LET scan == [call.scan EXCEPT !.todo = call.scan.todo \ {d}]
        linked == {e \in Below : dirs[e] = "linked"}
        seen == IF d # 1 THEN scan
                ELSE [scan EXCEPT !.todo = scan.todo \ linked,
                        !.skipped = scan.skipped
                            \o [i \in 1..Cardinality(linked) |-> <<Root, "symlink_escape">>]]
        room == call.max - Len(scan.list)
    IN  IF d # 1 /\ dirs[d] = "closed" THEN Skip(scan, Root, "unreadable_directory")
        ELSE IF scan.late THEN [scan EXCEPT !.truncated = TRUE, !.todo = {}]
        ELSE IF Len(Listed(d)) > room
             THEN [seen EXCEPT !.list = scan.list \o Cut(Listed(d), room),
                               !.truncated = TRUE, !.todo = {}]
        ELSE [seen EXCEPT !.list = scan.list \o Listed(d)]

WalkDir ==
    /\ call.pc = "walk"
    /\ IF call.scan.todo = {} THEN Go([call EXCEPT !.pc = "file"])
       ELSE Scan(Walked(Min(call.scan.todo)))
    /\ UNCHANGED <<files, dirs, ocr, asked, touched, read, changes, faults>>

-----------------------------------------------------------------------------
(* One file.                                                                 *)

Rest == [call.scan EXCEPT !.list = Tail(call.scan.list)]
NextFile(scan) == [call EXCEPT !.pc = "file", !.scan = scan]
Passed(name, reason) == NextFile(Skip(Rest, name, reason))

\* In a tree a link that leads out of it is passed over; the real path is what
\* will be opened.
CheckFile ==
    LET scan == call.scan
        name == Head(scan.list)
        real == IF scan.path = Root THEN Resolved(name) ELSE name
    IN  /\ call.pc = "file"
        /\ Go(IF scan.list = <<>> THEN [call EXCEPT !.pc = "verdict"]
              ELSE IF scan.late
              THEN [call EXCEPT !.pc = "verdict", !.scan = [scan EXCEPT !.truncated = TRUE]]
              ELSE IF scan.path = Root /\ real \notin Names THEN Passed(name, "symlink_escape")
              ELSE IF ~IsFile(Resolved(real)) THEN Passed(name, "not_regular_file")
              ELSE [call EXCEPT !.pc = "read",
                                !.scan = [scan EXCEPT !.list = <<real>> \o Tail(scan.list)]])
        /\ UNCHANGED <<files, dirs, ocr, asked, touched, read, changes, faults>>

\* As many as there is room for.
FindingsForFileSlip(text, budget) ==
    LET found == RunDetectors(text, call.types, budget)
    IN  [rows |-> Cut(found, budget), capped |-> Len(found) > budget]

\* At most the findings there is room for, and whether there were more.
FindingsForFile(text, budget) ==
    LET found == RunDetectors(text, call.types, budget + 1)
    IN  [rows |-> Cut(found, budget), capped |-> Len(found) > budget]

\* Why a file cannot be read, None when it can.
Unread(real) ==
    IF real \in Images /\ ~ocr THEN "ocr_unavailable"
    ELSE IF ~IsFile(real) THEN IF real \in Images THEN "ocr_failed" ELSE "unreadable"
    ELSE IF files[real].kind = "binary" THEN IF real \in Images THEN "ocr_failed" ELSE "binary"
    ELSE None

\* What is there now is opened, no link followed.
ReadFile ==
    LET scan == call.scan
        real == Head(scan.list)
        file == files[real]
        got == FindingsForFile(file.text, MaxFindings - Len(scan.findings))
        cut == file.rest # None /\ real \notin Images
        rows == [i \in DOMAIN got.rows |-> <<real, got.rows[i]>>]
        done == [Rest EXCEPT !.findings = scan.findings \o rows,
                             !.truncated = scan.truncated \/ cut \/ got.capped]
    IN  /\ call.pc = "read"
        /\ Go(IF Unread(real) # None THEN Passed(real, Unread(real))
              ELSE IF got.capped THEN [call EXCEPT !.pc = "verdict", !.scan = done]
              ELSE NextFile(done))
        /\ read' = IF Unread(real) = None THEN Append(read, <<real, file.text>>) ELSE read
        /\ UNCHANGED <<files, dirs, ocr, asked, touched, changes, faults>>

\* Masking the name, tesseract or a detector fails: the file alone is lost.
FileFails ==
    /\ call.pc = "read" /\ faults < MaxFaults
    /\ faults' = faults + 1
    /\ LET real == Head(call.scan.list)
           cut == call.scan.truncated \/ files[real].rest # None
       IN  Go(NextFile(Skip([Rest EXCEPT !.truncated = cut], real, "scan_failed")))
    /\ UNCHANGED <<files, dirs, ocr, asked, touched, read, changes>>

-----------------------------------------------------------------------------
Clean(scan) == scan.findings = <<>>
Complete(scan) == ~scan.truncated /\ scan.skipped = <<>>

\* The scan's verdict; the gate goes on to the next path.
Verdict ==
    /\ call.pc = "verdict"
    /\ Go([ call EXCEPT !.ok = call.ok /\ Clean(call.scan) /\ Complete(call.scan),
              !.scan = NoScan, !.paths = Tail(call.paths),
              !.pc = IF Len(call.paths) = 1 THEN "answered" ELSE "target" ])
    /\ read' = <<>>
    /\ UNCHANGED <<files, dirs, ocr, asked, touched, changes, faults>>

\* A path that cannot even be resolved fails the gate, which goes on.
ScanRaises ==
    /\ call.pc = "target" /\ faults < MaxFaults
    /\ faults' = faults + 1
    /\ Go(Failed)
    /\ UNCHANGED <<files, dirs, ocr, asked, touched, read, changes>>

TimePasses ==
    /\ call.pc \in {"walk", "file", "read"} /\ ~call.scan.late
    /\ Scan([call.scan EXCEPT !.late = TRUE])
    /\ UNCHANGED <<files, dirs, ocr, asked, touched, read, changes, faults>>

Change ==
    /\ call.pc \notin {"idle", "answered"} /\ changes < MaxChanges
    /\ changes' = changes + 1
    /\ \E f \in Names, to \in Changes :
         /\ to # files[f]
         /\ files' = [files EXCEPT ![f] = to]
         /\ touched' = touched \cup {f}
    /\ UNCHANGED <<dirs, ocr, call, asked, read, faults>>

Done ==
    /\ call.pc = "answered"
    /\ Go(Idle)
    /\ UNCHANGED <<files, dirs, ocr, asked, touched, read, changes, faults>>

Next ==
    \/ Collected \/ Ask \/ (\E c \in Calls : Start(c)) \/ Target \/ Collect \/ WalkDir
    \/ CheckFile \/ ReadFile \/ FileFails \/ Verdict \/ ScanRaises
    \/ TimePasses \/ Change \/ Done

Spec == Init /\ [][Next]_vars

-----------------------------------------------------------------------------
ScanOK(scan) ==
    /\ DOMAIN scan = DOMAIN NoScan /\ {scan.late, scan.truncated} \subseteq BOOLEAN
    /\ scan.todo \subseteq DOMAIN Tree /\ scan.list \in Seq(Known)
    /\ scan.path \in Known \cup {Root, None}
    /\ scan.skipped \in Seq((Known \cup {Root}) \X Reasons)
    /\ scan.findings \in Seq(Known \X UNION Contents) /\ Len(scan.findings) <= MaxFindings

CallOK ==
    /\ DOMAIN call = DOMAIN Idle /\ call.ok \in BOOLEAN /\ call.max \in Int
    /\ call.paths \in Seq(Known \cup {Root}) /\ call.all \subseteq Known \cup {Root}
    /\ call.pc # "idle" => \E c \in Calls : call.types = c.types
    /\ call.pc \notin {"idle", "answered"} => call.paths # <<>>
    /\ call.pc = "collect" => call.scan.path \in Known
    /\ call.pc = "read" => call.scan.list # <<>>

TypeOK ==
    /\ IF files = None THEN call = Idle
       ELSE files \in [Known -> Entries] /\ dirs \in [Below -> {"open", "closed", "linked"}]
    /\ CallOK /\ ScanOK(call.scan)
    /\ touched \subseteq Names

\* What may go out of a file: it was read to its end and holds no value a
\* selected detector accepts, or it is not there, or leads to one in the tree.
Fine(f) ==
    \/ /\ files[f].kind = "text"
       /\ files[f].rest = None \/ f \in Images
       /\ \A h \in files[f].text : ~(h.ok /\ h.type \in call.types)
    \/ files[f].kind = "link" /\ files[f].to \in Names
    \/ files[f].kind = "none"

Vouched(p) ==
    IF p = Root
    THEN /\ \A d \in Below : dirs[d] = "open"
         /\ \A f \in Names \ touched : Fine(f)
    ELSE {p, Resolved(p)} \cap touched = {} => Fine(Resolved(p))

\* A call that passes vouches for its evidence: every file of it that nobody
\* touched meanwhile was read to its end and holds no value a selected
\* detector accepts; nothing was left unread, whichever of the limits, kinds
\* of file, failures or paths came in between (scanner.py: "A gate must not
\* let `clean' read as `safe to attach' when coverage was incomplete").
PassedIsClean ==
    call.pc = "answered" /\ call.ok => \A p \in call.all : Vouched(p)

\* What makes it inductive.  A scan that has passed over nothing so far has read
\* what is behind it: each directory is still to come or was listed, and what was
\* listed is still to come or fine.
Sure(scan) == Clean(scan) /\ Complete(scan)

Covered(d, list) ==
    /\ d = 1 \/ dirs[d] = "open"
    /\ \A f \in ToSet(Tree[d]) \ touched : f \in ToSet(list) \/ Fine(f)

OfTree(pc, scan) ==
    /\ Head(call.paths) = Root /\ pc # "collect"
    /\ 1 \in scan.todo \/ \A d \in Below : dirs[d] # "linked"
    /\ \A d \in DOMAIN Tree : d \in scan.todo \/ Covered(d, scan.list)

OfFile(pc, scan) ==
    /\ Head(call.paths) # Root /\ pc # "walk"
    /\ Head(call.paths) \in touched \/ Resolved(Head(call.paths)) = scan.path
    /\ \/ pc = "collect" \/ scan.path \in touched \cup ToSet(scan.list)
       \/ Fine(scan.path)

Behind(pc, scan) ==
    /\ IF scan.path = Root THEN OfTree(pc, scan) ELSE OfFile(pc, scan)
    /\ pc # "walk" => scan.todo = {}
    /\ pc = "verdict" => scan.list = <<>>

Underway ==
    call.pc \in {"walk", "collect", "file", "read", "verdict"} /\ Sure(call.scan) =>
        Behind(call.pc, call.scan)

\* A call that is well so far vouches for the paths behind it.
ScanInv ==
    /\ TypeOK /\ Underway
    /\ call.pc = "answered" /\ call.ok => call.paths = <<>>
    /\ call.pc # "idle" /\ call.ok => \A p \in call.all : p \in ToSet(call.paths) \/ Vouched(p)

\* What a scan should report: the findings of every text it read, file by file.
Found(i) == RunDetectors(read[i][2], call.types, None)
FoundIn(n) ==
    FlattenSeq([i \in 1..n |-> [j \in DOMAIN Found(i) |-> <<read[i][1], Found(i)[j]>>]])

\* One detector alone has more hits in a text than it is let look for: those that
\* count may be beyond its limit, and those before it may lose to others.
Crowded(i) ==
    LET room == MaxFindings - Len(Cut(FoundIn(i - 1), MaxFindings))
    IN  \E t \in call.types : Len(Find(read[i][2], t, None)) > room + 1

\* One scan's findings are those of all it read, file by file, whichever of the
\* others failed, and what the cap leaves out it says, unless a text is crowded
\* (scanner.py: a failure "keeps the earlier findings"); and crowded or not, no
\* text with findings goes without one, unless the scan says that it is
\* incomplete.  That it always says so when it leaves findings out is CutIsTold.
FindingsKept ==
    call.pc = "verdict" =>
        /\ (\A i \in DOMAIN read : ~Crowded(i)) =>
             /\ call.scan.findings = Cut(FoundIn(Len(read)), MaxFindings)
             /\ Len(FoundIn(Len(read))) > MaxFindings => call.scan.truncated
        /\ \A i \in DOMAIN read : Found(i) # <<>> =>
             call.scan.truncated \/ \E k \in DOMAIN call.scan.findings :
                                      call.scan.findings[k][1] = read[i][1]

\* For any text: the findings are in order and disjoint; a value a detector
\* accepts is not missed for a rejected one around or before it; and a span
\* gives way only to one around it or to a finding of more confidence that it
\* overlaps (detectors.py: "Skipping to m.end() after a failed check hid both").
FindingsAgree ==
    asked # None =>
      LET found == RunDetectors(asked, Types, None)
          all == UNION {ToSet(Find(asked, t, None)) : t \in Types}
          Around(a, b) == a # b /\ Span(a) # Span(b) /\ a.from <= b.from /\ b.to <= a.to
      IN  /\ \A i, j \in DOMAIN found : i < j => found[i].to <= found[j].from
          /\ \A h \in asked : h.ok /\ h.type \notin Maximal =>
               \E g \in all : g.type = h.type /\ Overlaps(g, h)
          /\ \A h \in all :
               \/ h \in ToSet(found)
               \/ \E g \in all : Around(g, h)
               \/ \E g \in ToSet(found) : Overlaps(g, h) /\ Before(g, h)

\* scanner.py: _mask_pii replaces "any raw PII appearing in text".
MaskHidesAll ==
    asked # None => \A h \in Masked(asked) : ~(h.ok /\ h.type \notin Maximal)

\* scanner.py: "at most budget rows plus a capped flag": what is cut off is told.
CutIsTold ==
    asked # None =>
      LET found == RunDetectors(asked, Types, MaxFindings + 1)
          all == RunDetectors(asked, Types, None)
      IN  Len(found) <= MaxFindings => found = all
=============================================================================
