---------------------------- MODULE WorkOrderBody -----------------------------
(***************************************************************************)
(* The tab that edits the body of a work order section by section,         *)
(* src/frontend/components/work-orders/WorkOrderContentTab.tsx: one        *)
(* markdown text, in which a section is the lines after its heading.  Each *)
(* editor reads its section out of the text and writes it back: a text     *)
(* area, a table of versions, and a log of dated entries.                  *)
(* A line is a record: its kind, and what tells it from others of its      *)
(* kind; the cells of a row of the table are x, y and z.                   *)
(***************************************************************************)
EXTENDS Integers, Sequences, FiniteSets, FiniteSetsExt, SequencesExt

CONSTANTS
    InitialBodies,  \* texts the tab is opened with
    Texts,          \* texts that are typed or pasted, sequences of lines
    MaxEntries,     \* bound: entries of the log
    MaxRows,        \* bound: rows of the table
    MaxSteps        \* bound: changes

BodyAssumption == {MaxEntries, MaxRows, MaxSteps} \subseteq Nat

VARIABLES
    body,       \* bodyMarkdown: a sequence of lines
    active,     \* activeSection
    draft,      \* devLogDraft: the kind of message that is typed, "" for none
    editing,    \* devLogEditing
    shown,      \* history: what was last written to each section
    entries,    \* history: the entries that were added and not cleared
    changed,    \* history: the entries that were edited
    headed,     \* history: a section got a heading typed into it, or text before all
    replaced,   \* history: the text was replaced while an entry was edited
    steps       \* changes so far

bodyVars == <<body, active, draft, editing, shown, entries, changed, headed, replaced, steps>>

Sections == {"summary", "versions", "devlog"}     \* one of each type
Kept == Sections \cup {"other"}                   \* and one that the tab does not know
Line(kind, tag) == [kind |-> kind, tag |-> tag, x |-> "", y |-> "", z |-> ""]
Heading(s) == Line("heading", s)
Blank == Line("blank", "")
Entry(n, who) == [Line("item", who) EXCEPT !.x = ToString(n)]
Row(x, y, z) == [Line("row", "") EXCEPT !.x = x, !.y = y, !.z = z]
Template(s) == CASE s = "summary" -> <<Line("item", "template")>>
                 [] s = "versions" -> <<Line("header", "2"), Line("sep", "2"), Row("", "", "")>>
                 [] s = "devlog" -> <<Entry(0, "me")>>

(***************************************************************************)
(* Sections of a text                                                      *)
(***************************************************************************)

(* trim and the loops of readSection: no blank lines at either end *)
Trimmed(ls) ==
    LET full == {i \in DOMAIN ls : ls[i].kind # "blank"}
    IN  IF full = {} THEN << >> ELSE SubSeq(ls, Min(full), Max(full))

Headings(text) == {i \in DOMAIN text : text[i].kind = "heading"}
(* Text before the first heading becomes part of the section that is put before it. *)
Loose(text) == \E i \in DOMAIN text : text[i].kind # "blank" /\ \A j \in Headings(text) : i < j

Start(text, s) == SelectInSeq(text, LAMBDA l : l = Heading(s))

(* Mutant: a section ends where one of those that are known begins. *)
EndAtKnown(text, s) ==
    Min({Len(text) + 1} \cup {i \in DOMAIN text : i > Start(text, s) /\ text[i].kind = "heading"
                                                  /\ text[i].tag \in Sections})

(* The line after the section: the next heading, whichever it is *)
End(text, s) ==
    LET start == Start(text, s)
    IN  Min({Len(text) + 1} \cup {i \in DOMAIN text : i > start /\ text[i].kind = "heading"})

(* readSection *)
Read(text, s) ==
    IF Start(text, s) = 0 THEN << >>
    ELSE Trimmed(SubSeq(text, Start(text, s) + 1, End(text, s) - 1))

(* Mutant: the section is always put before the others. *)
UpsertBefore(text, s, content) ==
    LET lines == IF content = << >> THEN <<Blank>> ELSE content
    IN  <<Heading(s)>> \o lines \o <<Blank>>
            \o IF Trimmed(text) = << >> THEN << >> ELSE Trimmed(text) \o <<Blank>>

(* upsertSection: a section that is not there is put before all the others; an empty
   content is an empty line. *)
Upsert(text, s, content) ==
    LET lines == IF content = << >> THEN <<Blank>> ELSE content
        start == Start(text, s)
    IN  IF start # 0
        THEN SubSeq(text, 1, start) \o lines \o <<Blank>>
                 \o SubSeq(text, End(text, s), Len(text))
        ELSE <<Heading(s)>> \o lines \o <<Blank>>
                 \o IF Trimmed(text) = << >> THEN << >> ELSE Trimmed(text) \o <<Blank>>

(***************************************************************************)
(* The table of versions                                                   *)
(***************************************************************************)

Full(content) == SelectSeq(content, LAMBDA l : l.kind # "blank")

(* parseMarkdownTable: two lines, the second of which has a dash, are a table; what
   follows are rows, whatever they look like. *)
IsTable(content) ==
    LET full == Full(content) IN Len(full) >= 2 /\ full[2].kind \in {"sep", "item"}

RowOf(line) == IF line.kind = "row" THEN line ELSE Row(line.tag, "", "")
Rows(content) ==
    LET full == Full(content) IN [i \in 1..(Len(full) - 2) |-> RowOf(full[i + 2])]
Columns(content) ==
    LET first == Full(content)[1] IN IF first.kind = "header" THEN first.tag ELSE "1"

(* serializeMarkdownTable *)
Table(columns, rows) ==
    <<Line("header", columns), Line("sep", columns)>>
        \o IF columns = "1" THEN [i \in DOMAIN rows |-> Row(rows[i].x, "", "")] ELSE rows

(* splitImageRefIntoComponentAndVersion: a component that is an image with its version *)
Split(row) == IF row.x = "image:1" /\ row.y = "" THEN Row("image", "1", "") ELSE Row(row.x, row.y, "")

(* normalizeVersionsTable: two columns are kept of each row. *)
Normalized(content) ==
    LET rows == Rows(content)
        columns == Columns(content)
    IN  Table(columns, IF columns = "1" THEN rows ELSE [i \in DOMAIN rows |-> Split(rows[i])])

(* The effect that runs once the versions are shown, or have changed: serialized with
   and without the normalization, the table differs. *)
Settled(content) ==
    LET normalized == Normalized(content)
    IN  IF IsTable(content) /\ normalized # Table(Columns(content), Rows(content))
        THEN normalized ELSE content

(* What the table editor shows, one empty row at first *)
Shown(content) ==
    IF IsTable(content) THEN Normalized(content)
    ELSE Table("2", <<Row("", "", "")>>)
WithRows(content, rows) == Table(Columns(Shown(content)), rows)

(* parseKubectlOutputToTable finds a row in every line, so that nothing that is pasted
   is not a table; the first of the rows of a component is kept. *)
Parsed(text) ==
    IF IsTable(text) THEN Normalized(text)
    ELSE LET found == [i \in DOMAIN Full(text) |-> Split(RowOf(Full(text)[i]))]
             first == {i \in DOMAIN found : \A j \in 1..(i - 1) : found[j].x # found[i].x}
         IN  Table("2", [k \in 1..Cardinality(first) |-> found[SetToSortSeq(first, <)[k]]])

(***************************************************************************)
(* The editors                                                             *)
(***************************************************************************)

Init ==
    /\ body \in InitialBodies
    /\ active = "summary"
    /\ draft = "" /\ editing = FALSE
    /\ shown = [s \in Kept |-> Read(body, s)]
    /\ entries = {Read(body, "devlog")[i].x : i \in DOMAIN Read(body, "devlog")}
    /\ changed = {}
    /\ headed = Loose(body) /\ replaced = FALSE
    /\ steps = 0

Step == steps < MaxSteps /\ steps' = steps + 1
Settle(text, s) ==
    LET content == Read(text, s)
        settled == Settled(content)
    IN  IF s = "versions" /\ settled # content THEN Upsert(text, s, settled) ELSE text

(* updateSectionContent, and the effect that follows: New makes the content that is
   written of the one that is there. *)
Write(s, now, New(_)) ==
    /\ Step
    /\ body' = Settle(Upsert(body, s, New(Read(body, s))), now)
    /\ active' = now
    /\ shown' = IF headed THEN shown
                ELSE [t \in Kept |->
                         LET c == IF t = s THEN Trimmed(New(shown[t])) ELSE shown[t]
                         IN  IF t = "versions" /\ now = t THEN Settled(c) ELSE c]

(* The list of sections, and the keys that jump to one *)
Show(s) ==
    /\ s # active /\ active' = s
    /\ body' = Settle(body, s)
    /\ shown' = IF s = "versions" THEN [shown EXCEPT ![s] = Settled(@)] ELSE shown
    /\ UNCHANGED <<draft, editing, entries, changed, headed, replaced, steps>>

(* SmartTextarea, and the area for versions that are not a table: the whole content *)
Type(text) ==
    /\ \/ active = "summary"
       \/ active = "versions" /\ ~IsTable(Read(body, active)) /\ Read(body, active) # << >>
    /\ Write(active, active, LAMBDA old : text)
    /\ headed' = (headed \/ Headings(text) # {})
    /\ UNCHANGED <<draft, editing, entries, changed, replaced>>

(* insertTemplateFor asks nothing before it takes the place of a content. *)
InsertTemplate(s) ==
    /\ Write(s, s, LAMBDA old : Template(s))
    /\ entries' = IF s = "devlog" THEN {"0"} ELSE entries
    /\ UNCHANGED <<draft, editing, changed, headed, replaced>>

(* clearSection, confirmed *)
Clear ==
    /\ Write(active, active, LAMBDA old : << >>)
    /\ entries' = IF active = "devlog" THEN {} ELSE entries
    /\ UNCHANGED <<draft, editing, changed, headed, replaced>>

(* The text is replaced from outside: it is loaded again, imported or restored. *)
Replace(text) ==
    /\ Step
    /\ body' = Settle(text, active)
    /\ shown' = [s \in Kept |-> Read(body', s)]
    /\ entries' = {Read(text, "devlog")[i].x : i \in DOMAIN Read(text, "devlog")}
    /\ headed' = Loose(text)
    /\ replaced' = (replaced \/ editing)
    /\ UNCHANGED <<active, draft, editing, changed>>

(***************************************************************************)
(* Rows of versions                                                        *)
(***************************************************************************)

Tabled == active = "versions" /\ (IsTable(Read(body, active)) \/ Read(body, active) = << >>)
RowIds == IF Tabled THEN DOMAIN Rows(Shown(Read(body, "versions"))) ELSE {}
RowsOnly == UNCHANGED <<draft, editing, entries, changed, headed, replaced>>

(* The key for a new row also takes the place of versions that are not a table. *)
AddRow ==
    /\ active = "versions" /\ Cardinality(RowIds) < MaxRows
    /\ Write(active, active, LAMBDA old : WithRows(old, Append(Rows(Shown(old)), Row("", "", ""))))
    /\ RowsOnly

DeleteRow(i) ==
    /\ Tabled
    /\ Write(active, active, LAMBDA old : WithRows(old, RemoveAt(Rows(Shown(old)), i)))
    /\ RowsOnly

(* A component that is typed or pasted whole is split while there is no version. *)
TypeComponent(i, x) ==
    /\ Tabled
    /\ Write(active, active, LAMBDA old :
             WithRows(old, [Rows(Shown(old)) EXCEPT ![i] = Split([@ EXCEPT !.x = x])]))
    /\ RowsOnly

TypeVersion(i, y) ==
    /\ Tabled
    /\ Write(active, active, LAMBDA old :
             WithRows(old, [Rows(Shown(old)) EXCEPT ![i] = Row(@.x, y, "")]))
    /\ RowsOnly

(* onPaste of the whole table, and Parse to table; Paste & parse is the same. *)
Paste(text) ==
    /\ active = "versions" /\ Full(text) # << >>
    /\ Write(active, active, LAMBDA old : Parsed(text))
    /\ RowsOnly

(***************************************************************************)
(* Entries of the log                                                      *)
(***************************************************************************)

Log == Read(body, "devlog")
Items(content) == {i \in DOMAIN content : content[i].kind = "item"}
LastItem(content) == Max(Items(content))

TypeDraft(m) ==
    /\ active = "devlog" /\ draft # m /\ draft' = m
    /\ UNCHANGED <<body, active, editing, shown, entries, changed, headed, replaced, steps>>

(* The lines of a message: the first one is the entry. *)
Message(n, who, m) ==
    <<Entry(n, who)>> \o IF m = "long" THEN <<Line("text", "more")>> ELSE << >>

(* addDevLogEntry *)
AddEntry(n) ==
    /\ active = "devlog" /\ draft # "" /\ ToString(n) \notin entries
    /\ Write(active, active, LAMBDA old : old \o Message(n, "me", draft))
    /\ entries' = entries \cup {ToString(n)}
    /\ draft' = ""
    /\ UNCHANGED <<editing, changed, headed, replaced>>

(* Edit last entry is there for an entry of one's own that is not old. *)
StartEdit ==
    /\ active = "devlog" /\ ~editing
    /\ Items(Log) # {} /\ Log[LastItem(Log)].tag = "me"
    /\ editing' = TRUE
    /\ UNCHANGED <<body, active, draft, shown, entries, changed, headed, replaced, steps>>

CancelEdit ==
    /\ active = "devlog" /\ editing /\ Items(Log) # {}
    /\ editing' = FALSE
    /\ UNCHANGED <<body, active, draft, shown, entries, changed, headed, replaced, steps>>

(* Mutant: the first entry is edited. *)
WithLastFirst(content, m) ==
    LET i == Min(Items(content))
    IN  SubSeq(content, 1, i - 1) \o Message(0, content[i].tag, m)
            \o SubSeq(content, i + 1, Len(content))

(* updateLastEntry replaces the line of the last entry there is by then. *)
WithLast(content, m) ==
    LET i == LastItem(content)
    IN  SubSeq(content, 1, i - 1)
            \o [Message(0, content[i].tag, m) EXCEPT ![1] = content[i]]
            \o SubSeq(content, i + 1, Len(content))

SaveEdit ==
    /\ active = "devlog" /\ editing /\ Items(Log) # {}
    /\ Write(active, active, LAMBDA old : WithLast(old, draft))
    /\ changed' = IF headed THEN changed ELSE changed \cup {Log[LastItem(Log)].tag}
    /\ editing' = FALSE /\ draft' = ""
    /\ UNCHANGED <<entries, headed, replaced>>

Next ==
    \/ \E s \in Sections : Show(s) \/ InsertTemplate(s)
    \/ \E t \in Texts : Type(t) \/ Paste(t)
    \/ \E t \in InitialBodies : Replace(t)
    \/ Clear \/ AddRow
    \/ \E i \in RowIds : DeleteRow(i) \/ TypeComponent(i, "image:1") \/ TypeVersion(i, "2")
    \/ \E m \in {"short", "long"} : TypeDraft(m)
    \/ \E n \in 1..MaxEntries : AddEntry(n)
    \/ StartEdit \/ CancelEdit \/ SaveEdit

Spec == Init /\ [][Next]_bodyVars

(***************************************************************************)
(* Properties                                                              *)
(***************************************************************************)

(* The types of the variables. *)
TypeOK ==
    /\ active \in Sections /\ draft \in {"", "short", "long"}
    /\ {editing, headed, replaced} \subseteq BOOLEAN
    /\ \A i \in DOMAIN body :
          body[i].kind \in {"heading", "blank", "text", "item", "header", "sep", "row"}

(* The text holds of every section what was last written to it, whatever is written to
   the others and wherever they begin, as long as no heading is typed into one and no
   text comes before the first heading. *)
SectionsApart == ~headed => \A s \in Kept : Read(body, s) = shown[s]

(* An entry that was added stays in the log, in its place, until the section is cleared
   or a template takes its place; the entries of others are not edited, unless the text
   was replaced while one was. *)
EntriesStay ==
    ~headed => /\ entries \subseteq {Log[i].x : i \in DOMAIN Log}
               /\ ~replaced => changed \subseteq {"me"}

(* A section begins at one place. *)
OneHeadingEach ==
    ~headed => \A s \in Sections : Cardinality({i \in DOMAIN body : body[i] = Heading(s)}) <= 1

=============================================================================
