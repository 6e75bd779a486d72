---------------------------- MODULE SectionTable ----------------------------
(***************************************************************************)
(* The header and section directory of src/src/section.cpp: load() reads   *)
(* them first and carves every section out of the file by what they say.   *)
(* The directory is read entry by entry until an entry is refused.         *)
(*                                                                         *)
(* An operator <name>_slip_<what> is <name> with a slip of the programmer  *)
(* in it; no specification uses it (see README.md).                        *)
(***************************************************************************)
EXTENDS Integers, Sequences, FiniteSets

CONSTANTS
    KnownTags,     \* SectionTag::Atom .. Meta
    OtherTags,     \* tags that name no section, Unknown (zero) excepted
    Unknown,       \* SectionTag::Unknown: the tag zero
    MaxU32,        \* bound: the largest offset or length an entry states
    MaxSections    \* limits.max_sections

Tags == KnownTags \cup OtherTags \cup {Unknown}

ASSUME DirectoryAssumption ==
    /\ Unknown \notin KnownTags \cup OtherTags
    /\ KnownTags \cap OtherTags = {}
    /\ MaxU32 \in Nat /\ MaxSections \in Nat

VARIABLES
    file_size,  \* bytes of the file
    left,       \* entries still to read: section_count less those read
    entries,    \* entries_
    refused,    \* the entry the decoder stopped at, if any: << >> or << e >>
    status      \* "closed", "header", "reading", "ok", or decode()'s error

vars == << file_size, left, entries, refused, status >>

Entry == [tag : Tags, offset : 0..MaxU32, length : 0..MaxU32]

Init ==
    /\ file_size = 0
    /\ left = 0
    /\ entries = << >>
    /\ refused = << >>
    /\ status = "closed"

\* load() hands decode() a file.
Open(size) ==
    /\ status = "closed"
    /\ file_size' = size
    /\ status' = "header"
    /\ UNCHANGED << left, entries, refused >>

\* Magic, version and the section count; anything else is an error at once.
ReadHeader(count) ==
    /\ status = "header"
    /\ count <= MaxSections
    /\ status' = "reading"
    /\ left' = count
    /\ UNCHANGED << file_size, entries, refused >>

RejectHeader(code) ==
    /\ \/ /\ status = "header"
          /\ code \in {"BadMagic", "UnsupportedVersion", "LimitExceeded", "Truncated"}
       \/ status = "reading" /\ left > 0 /\ code = "Truncated"
    /\ status' = code
    /\ UNCHANGED << file_size, left, entries, refused >>

OutOfFile_slip_wraps(e) == (e.offset + e.length) % (MaxU32 + 1) > file_size
Repeated_slip_last_only(e) ==
    entries # << >> /\ entries[Len(entries)].tag = e.tag

\* Written without an addition, so that the 32-bit fields cannot wrap.
OutOfFile(e) == e.offset > file_size \/ e.length > file_size - e.offset
Repeated(e) == \E i \in DOMAIN entries : entries[i].tag = e.tag

ReadEntry(e) ==
    /\ status = "reading"
    /\ left > 0
    /\ ~ OutOfFile(e)
    /\ e.tag # Unknown => ~ Repeated(e)
    /\ entries' = Append(entries, e)
    /\ left' = left - 1
    /\ UNCHANGED << file_size, refused, status >>

RejectEntry(e) ==
    /\ status = "reading"
    /\ left > 0
    /\ \/ OutOfFile(e) /\ status' = "BadSectionTable"
       \/ /\ ~ OutOfFile(e) /\ e.tag # Unknown /\ Repeated(e)
          /\ status' = "DuplicateSection"
    /\ refused' = << e >>
    /\ UNCHANGED << file_size, left, entries >>

Finish ==
    /\ status = "reading"
    /\ left = 0
    /\ status' = "ok"
    /\ UNCHANGED << file_size, left, entries, refused >>

Decoded == status \notin {"closed", "header", "reading"}

HeaderCodes == {"BadMagic", "UnsupportedVersion", "LimitExceeded", "Truncated"}

Next ==
    \/ \E size \in Nat : Open(size)
    \/ \E count \in 0 .. MaxSections + 1 : ReadHeader(count)
    \/ \E code \in HeaderCodes : RejectHeader(code)
    \/ \E e \in Entry : ReadEntry(e) \/ RejectEntry(e)
    \/ Finish
    \/ Decoded /\ UNCHANGED vars

Spec == Init /\ [][Next]_vars

-----------------------------------------------------------------------------
\* find(): the first entry with the tag, or nothing (0).
find(tag) ==
    LET hits == {i \in DOMAIN entries : entries[i].tag = tag}
    IN  IF hits = {} THEN 0 ELSE CHOOSE i \in hits : \A j \in hits : i <= j

\* The directory stays within its limit, and an entry is kept as refused
\* exactly when it is the reason decode() stopped.
TypeOK ==
    /\ file_size \in Nat
    /\ entries \in Seq(Entry)
    /\ left \in 0..MaxSections
    /\ Len(entries) + left <= MaxSections
    /\ (refused # << >>) <=> status \in {"BadSectionTable", "DuplicateSection"}

\* The window of every accepted entry lies within the file, so that the window
\* the loader carves out of it later (section_reader) cannot be refused.
WindowsInFile ==
    \A i \in DOMAIN entries : entries[i].offset + entries[i].length <= file_size

\* Which section find() answers with does not depend on the order of the
\* directory: no two entries have the tag of the same section.
FindIsUnambiguous ==
    \A tag \in KnownTags : \A i \in DOMAIN entries :
        entries[i].tag = tag => find(tag) = i
=============================================================================
