---------------------------- MODULE Permissions ----------------------------
(***************************************************************************)
(* Permission keys: generate-permission-golang.js and                      *)
(* generate-permissions-ts.js turn the sheet into a saved index and a file *)
(* of constants, diff-permissions.js compares two saved indexes, and       *)
(* apply-permissions-updates.js renames the constants, with rg or grep and *)
(* sed, in every file of a directory: a consumer's, or by default the      *)
(* project's root, where the saved indexes and the files of constants are. *)
(*                                                                         *)
(* A constant's name is a sequence of words, because sed replaces text     *)
(* inside longer names.  Each process may be interrupted between two of its*)
(* writes, sed may fail on one file, the search may miss files, and a diff *)
(* may be applied again.                                                   *)
(*                                                                         *)
(* A definition whose name holds "__" is a faulty variant of the one it    *)
(* precedes.                                                               *)
(***************************************************************************)
EXTENDS Naturals, Sequences, FiniteSets, SequencesExt

CONSTANTS
    Word, Name,     \* constant names: sequences of words
    KeyID,          \* the UUIDs of the keys
    KnownDuplicates,\* UUIDs that several constants may, and must, share
    Sheets,         \* contents the sheet may have: sequences of rows
    FirstSheets,    \* those it may have at first
    File,           \* the consumer's files, among them perhaps DiffFile
    DiffFile,       \* the file that holds the diff, when it lies in the directory to change
    Uses,           \* what a consumer's file mentions at first: a sequence of ids
    Hidden,         \* the files that rg passes over: hidden, ignored or binary
    Root,           \* whether the directory to change is the project's root
    None,
    Faults,         \* "kill"; "sed", "rg" and "grep" fail
    MaxEdits, MaxRuns, MaxApplies, MaxFailures   \* bounds on edits, generations, applications,
                                                 \* failures and interruptions of these

Lang == {"go", "ts"}
Row  == [name : Name, id : KeyID]

ASSUME ConstantsOK ==
    /\ Name \subseteq Seq(Word) /\ Sheets \subseteq Seq(Row) /\ FirstSheets \subseteq Sheets
    /\ KnownDuplicates \subseteq KeyID
    /\ Uses \in [File \ {DiffFile} -> Seq(KeyID)]
    /\ Hidden \subseteq File /\ Root \in BOOLEAN
    /\ Faults \subseteq {"kill", "sed", "rg", "grep"}
    /\ MaxEdits \in Nat /\ MaxRuns \in Nat /\ MaxApplies \in Nat /\ MaxFailures \in Nat

VARIABLES
    sheet,
    gen,        \* the two generators: where they are, what they have parsed
    history,    \* permissions_history: the saved indexes, each named by the hash of its rows
    keys,       \* the generated files of constants there are: the index each names, its constants
    diff,       \* the output of diff-permissions.js, once it is made: updated
    files,      \* the other files: constants mentioned, with the id each one stands for
    apply,      \* apply-permissions-updates.js
    failures,   \* history: how often a run did not change all it should
    old,        \* the id of the index whose names the consumer's files use at first
    regenerated,\* history: a generator has written since the first of the renames
    edits, runs, applies

generators == <<sheet, gen, regenerated, edits, runs>>
generated  == <<history, keys>>
consumer   == <<diff, files, apply, failures, old, applies>>
vars == <<generators, generated, consumer>>

-----------------------------------------------------------------------------
(* parsePermissions *)

(* The rows whose name has not been seen, by the number of the row. *)
Parsed(rows) ==
    LET first(i) == \A j \in 1 .. i - 1 : rows[j].name # rows[i].name
        kept == {i \in DOMAIN rows : first(i)}
    IN  [i \in kept |-> rows[i]]

NamesOf(items, id) == {items[i].name : i \in {j \in DOMAIN items : items[j].id = id}}

(* parsePermissions throws: a key id that two constants share and that is  *)
(* not known to, or one that is known to and no longer is.                 *)
Refuses(items) ==
    \E id \in KeyID : IF id \in KnownDuplicates
                        THEN Cardinality(NamesOf(items, id)) <= 1
                        ELSE Cardinality(NamesOf(items, id)) > 1

(* What computeIndexId hashes: names and ids, sorted. *)
IndexID(items) == {items[i] : i \in DOMAIN items}

LastOf(items, id) == CHOOSE i \in DOMAIN items :
    /\ items[i].id = id
    /\ \A j \in DOMAIN items : items[j].id = id => j <= i

Updates__ByRow(before, after) ==
    LET shared == {i \in DOMAIN before \cap DOMAIN after : before[i].name # after[i].name}
    IN  {[old |-> before[i].name, new |-> after[i].name] : i \in shared}
(* diffIndexes: maps by id, in which the last constant of an id stays. *)
Updates(before, after) ==
    LET shared == {id \in KeyID : NamesOf(before, id) # {} /\ NamesOf(after, id) # {}}
        update(id) == [old |-> before[LastOf(before, id)].name,
                       new |-> after[LastOf(after, id)].name]
    IN  {update(id) : id \in {i \in shared : update(i).old # update(i).new}}

IndexOf(items) == [id |-> IndexID(items), items |-> items]

-----------------------------------------------------------------------------

Idle == [pc |-> "idle", items |-> <<>>]
NoDiff == [made |-> FALSE, from |-> None, to |-> None, updates |-> {}]
Resting == [pc |-> "idle", todo |-> {}, left |-> {}, rename |-> None]

(* A consumer that uses the constants of a first index, which was saved.   *)
(* A name of a shared id is any of the names it has.                       *)
Init ==
    /\ sheet \in {s \in FirstSheets : ~Refuses(Parsed(s))}
    /\ \A id \in KeyID : NamesOf(Parsed(sheet), id) # {}
    /\ gen = [l \in Lang |-> Idle]
    /\ old = IndexID(Parsed(sheet))
    /\ history = {IndexOf(Parsed(sheet))}
    /\ keys = [l \in {} |-> None]
    /\ diff = NoDiff
    /\ files = [f \in File \ {DiffFile} |->
                  [i \in DOMAIN Uses[f] |->
                     [id |-> Uses[f][i],
                      name |-> Parsed(sheet)[LastOf(Parsed(sheet), Uses[f][i])].name]]]
    /\ apply = Resting
    /\ failures = 0 /\ regenerated = FALSE
    /\ edits = 0 /\ runs = 0 /\ applies = 0

EditSheet(s) ==
    /\ edits < MaxEdits /\ s # sheet
    /\ sheet' = s
    /\ edits' = edits + 1
    /\ UNCHANGED <<gen, regenerated, runs, generated, consumer>>

(* Phase 1 reads the sheet; a sheet that is refused ends it, with nothing  *)
(* written, as does one without permissions.                               *)
Parse(l) ==
    /\ gen[l].pc = "idle" /\ runs < MaxRuns
    /\ ~Refuses(Parsed(sheet)) /\ Parsed(sheet) # <<>>
    /\ gen' = [gen EXCEPT ![l] = [pc |-> "save", items |-> Parsed(sheet)]]
    /\ runs' = runs + 1
    /\ UNCHANGED <<sheet, regenerated, edits, generated, consumer>>

SaveIndex__Unsaved(l) == UNCHANGED history
(* An index with the same id is written over: only features differ. *)
SaveIndex(l) == history' = {h \in history : h.id # IndexID(gen[l].items)} \cup {IndexOf(gen[l].items)}

Save(l) ==
    /\ gen[l].pc = "save"
    /\ SaveIndex(l)
    /\ gen' = [gen EXCEPT ![l].pc = "write"]
    /\ regenerated' = (applies > 0)
    /\ UNCHANGED <<sheet, keys, edits, runs, consumer>>

(* Phase 2 *)
Write(l) ==
    /\ gen[l].pc = "write"
    /\ keys' = [m \in DOMAIN keys \cup {l} |-> IF m = l THEN IndexOf(gen[l].items) ELSE keys[m]]
    /\ gen' = [gen EXCEPT ![l] = Idle]
    /\ regenerated' = (applies > 0)
    /\ UNCHANGED <<sheet, history, edits, runs, consumer>>

KillGenerator(l) ==
    /\ "kill" \in Faults /\ gen[l].pc # "idle"
    /\ gen' = [gen EXCEPT ![l] = Idle]
    /\ UNCHANGED <<sheet, regenerated, edits, runs, generated, consumer>>

-----------------------------------------------------------------------------
(* diff-permissions.js and apply-permissions-updates.js *)

Diff(from, to) ==
    /\ ~diff.made
    /\ from.id = old /\ to.id # old
    /\ diff' = [made |-> TRUE, from |-> from, to |-> to, updates |-> Updates(from.items, to.items)]
    /\ UNCHANGED <<files, apply, failures, old, applies, generated, generators>>

(* readDiff: an entry whose names are equal is passed over. *)
StartApply ==
    /\ diff.made /\ apply.pc = "idle" /\ applies < MaxApplies
    /\ apply' = [apply EXCEPT !.pc = "rename", !.todo = {u \in diff.updates : u.old # u.new}]
    /\ applies' = applies + 1
    /\ UNCHANGED <<diff, files, failures, old, generated, generators>>

Within(part, name) == part \in SubSeqs(name)

Mentions(text, term) == \E i \in DOMAIN text : Within(term, text[i].name)

(* The files of the directory that hold a text: a saved index is a file    *)
(* named by its id.                                                        *)
Containing(term) ==
    {<<"file", f>> : f \in {g \in File \ {DiffFile} : Mentions(files[g], term)}}
    \cup {<<"file", f>> : f \in {g \in File \cap {DiffFile} :
            \E u \in diff.updates : Within(term, u.old) \/ Within(term, u.new)}}
    \cup {<<"keys", l>> : l \in {m \in DOMAIN keys : Root /\ Mentions(keys[m].items, term)}}
    \cup {<<"index", h.id>> : h \in {k \in history : Root /\ Mentions(k.items, term)}}

Seen(term) == Containing(term) \ {<<"file", f>> : f \in Hidden}

(* What rg -l lists, or grep -R -l when rg lists nothing, fails or is not  *)
(* there.                                                                  *)
FilesContaining(term) ==
    (IF Seen(term) = {} THEN {} ELSE {Seen(term)})
    \cup (IF Seen(term) = {} \/ "rg" \in Faults THEN {Containing(term)} ELSE {})

(* The entries are renamed one after the other, each where the ones before *)
(* have left the files.                                                    *)
Rename(u) ==
    /\ apply.pc = "rename" /\ apply.left = {} /\ u \in apply.todo
    /\ \E found \in FilesContaining(u.old) :
          apply' = [apply EXCEPT !.todo = @ \ {u}, !.left = found, !.rename = u]
    /\ UNCHANGED <<diff, files, failures, old, applies, generated, generators>>

(* When grep fails too, even on one file that it cannot read, the entry is *)
(* taken to be in no file, and nothing is said.                            *)
SearchFails(u) ==
    /\ "grep" \in Faults /\ (Seen(u.old) = {} \/ "rg" \in Faults)
    /\ apply.pc = "rename" /\ apply.left = {} /\ u \in apply.todo
    /\ apply' = [apply EXCEPT !.todo = @ \ {u}, !.rename = u]
    /\ failures < MaxFailures /\ failures' = failures + 1
    /\ UNCHANGED <<diff, files, old, applies, generated, generators>>

(* A name holds the words of another at most once. *)
Replaced(name) == ReplaceFirstSubSeq(apply.rename.new, apply.rename.old, name)

Sed__Once(text) ==
    LET hits == {i \in DOMAIN text : Within(apply.rename.old, text[i].name)}
    IN  [i \in DOMAIN text |-> IF \E j \in hits : j < i THEN text[i]
                              ELSE [text[i] EXCEPT !.name = Replaced(@)]]
(* sed -i s/old/new/g; ids are hexadecimal and hold no name. *)
Sed(text) == [i \in DOMAIN text |-> [id |-> text[i].id, name |-> Replaced(text[i].name)]]
SedIndex(index) == [id |-> index.id, items |-> Sed(index.items)]

ApplyWithSed(t) ==
    /\ apply.pc = "rename" /\ t \in apply.left
    /\ apply' = [apply EXCEPT !.left = @ \ {t}]
    /\ \/ /\ t = <<"file", DiffFile>>
          /\ diff' = [diff EXCEPT !.updates =
                        {[old |-> Replaced(u.old), new |-> Replaced(u.new)] : u \in @}]
          /\ UNCHANGED <<files, history, keys>>
       \/ \E f \in File \ {DiffFile} :
             t = <<"file", f>> /\ files' = [files EXCEPT ![f] = Sed(@)]
          /\ UNCHANGED <<diff, history, keys>>
       \/ \E l \in DOMAIN keys :
             t = <<"keys", l>> /\ keys' = [keys EXCEPT ![l] = SedIndex(@)]
          /\ UNCHANGED <<diff, files, history>>
       \/ \E h \in history :
             t = <<"index", h.id>> /\ history' = {IF k.id = h.id THEN SedIndex(k) ELSE k : k \in history}
          /\ UNCHANGED <<diff, files, keys>>
    /\ UNCHANGED <<failures, old, applies, generators>>

(* A failure is a warning, and the next file is tried. *)
SedFails(t) ==
    /\ "sed" \in Faults
    /\ apply.pc = "rename" /\ t \in apply.left
    /\ apply' = [apply EXCEPT !.left = @ \ {t}]
    /\ failures < MaxFailures /\ failures' = failures + 1
    /\ UNCHANGED <<diff, files, old, applies, generated, generators>>

EndApply ==
    /\ apply.pc = "rename" /\ apply.left = {} /\ apply.todo = {}
    /\ apply' = Resting
    /\ UNCHANGED <<diff, files, failures, old, applies, generated, generators>>

KillApply ==
    /\ "kill" \in Faults /\ apply.pc = "rename"
    /\ apply' = Resting
    /\ failures < MaxFailures /\ failures' = failures + 1
    /\ UNCHANGED <<diff, files, old, applies, generated, generators>>

Next ==
    \/ \E s \in Sheets : EditSheet(s)
    \/ \E l \in Lang : Parse(l) \/ Save(l) \/ Write(l) \/ KillGenerator(l)
    \/ \E from, to \in history : Diff(from, to)
    \/ StartApply
    \/ \E u \in apply.todo : Rename(u) \/ SearchFails(u)
    \/ \E t \in apply.left : ApplyWithSed(t) \/ SedFails(t)
    \/ EndApply \/ KillApply

Spec == Init /\ [][Next]_vars

-----------------------------------------------------------------------------

KeyIDs(items) == {items[i].id : i \in DOMAIN items}

(* Whatever is interrupted, and however the two generators overlap, the    *)
(* index that a file of constants names has been saved, with the keys of   *)
(* that file: there is always something to compare it with.  The constants *)
(* of the two are the same as long as no rename is made in the project     *)
(* itself, and after those too once a run of them has ended: sed rewrites  *)
(* both, unless a run was interrupted, a search or a sed has failed, or a  *)
(* generator has written since.                                            *)
IndexBeforeKeys ==
    \A l \in DOMAIN keys :
        \E h \in history :
            /\ h.id = keys[l].id
            /\ KeyIDs(h.items) = KeyIDs(keys[l].items)
            /\ ~Root \/ (apply.pc = "idle" /\ failures = 0 /\ ~regenerated) =>
                  IndexID(h.items) = IndexID(keys[l].items)

(* No name that is replaced is part of another name, or still a name after.*)
Independent ==
    \A u \in Updates(diff.from.items, diff.to.items) :
        /\ \A i \in DOMAIN diff.from.items :
              LET name == diff.from.items[i].name IN Within(u.old, name) => name = u.old
        /\ \A i \in DOMAIN diff.to.items : ~Within(u.old, diff.to.items[i].name)

(* Renames never make a file speak of another permission: with a diff of   *)
(* independent names each mention keeps the id it had, after any number of *)
(* runs, in the middle of one, and after runs in which sed failed.         *)
RenamesKeepIds ==
    diff.made /\ Independent =>
        \A f \in File \ {DiffFile} : \A i \in DOMAIN files[f] :
            files[f][i].name \in NamesOf(diff.from.items, files[f][i].id)
                                 \cup NamesOf(diff.to.items, files[f][i].id)

(* A run in which no search and no sed failed leaves, in the files that rg *)
(* does not pass over, no mention of a name that its diff renames, provided*)
(* that nothing failed in a run before it either.                          *)
RenamesAreComplete ==
    diff.made /\ Independent /\ apply.pc = "idle" /\ applies > 0 /\ failures = 0 =>
        \A u \in Updates(diff.from.items, diff.to.items) : \A f \in File \ (Hidden \cup {DiffFile}) :
            \A i \in DOMAIN files[f] : ~Within(u.old, files[f][i].name)
=============================================================================
