------------------------------ MODULE FileCache ------------------------------
(***************************************************************************)
(* One document in the language server's file cache                        *)
(* (crates/els/file_cache.rs) and in the compiler's virtual file system    *)
(* (crates/erg_common/vfs.rs).                                             *)
(*                                                                         *)
(* A text is the number of the edit that made it, 0 being the first text   *)
(* on disk.  An edit is a range to be replaced, computed by the client     *)
(* from the text it has: applied to any other text it makes a mess; or it  *)
(* is the whole text, without a range, and is not applied.                 *)
(*                                                                         *)
(* The cache of files and the virtual file system are behind a lock each.  *)
(* incremental_update() keeps the first for all it does; update() and      *)
(* load_once() let it go in between, which is where others come in.        *)
(***************************************************************************)
EXTENDS Integers, Sequences

CONSTANTS
  Worker,     \* the threads that use the cache
  NoEntry,    \* the document is not in the cache, or not in the VFS
  MaxEdits    \* bound on the edits

ASSUME MaxEditsAssumption == MaxEdits \in Nat

VARIABLES
  disk,       \* the text on disk
  entry,      \* FileCache::files of the document: [ver, text], or NoEntry
  vfs,        \* VFS.cache of the document: a text, or NoEntry
  at,         \* where each thread is
  code,       \* the text it has in hand
  ver         \* the version it has in hand, NoVersion for None

cacheVars == <<disk, entry, vfs>>
localVars == <<at, code, ver>>

Mess == -1
Text == Mess..MaxEdits
NoVersion == 0

\* What the cache keeps of a document.
Entry == [ver : 1..(MaxEdits + 1), text : Text]

ASSUME NoEntryAssumption == NoEntry \notin Entry \union Text

InitCache ==
  /\ disk = 0
  /\ entry = NoEntry
  /\ vfs = NoEntry
  /\ at = [w \in Worker |-> "idle"]
  /\ code = [w \in Worker |-> 0]
  /\ ver = [w \in Worker |-> NoVersion]

Cached == entry # NoEntry

Goto(w, s) == at' = [at EXCEPT ![w] = s]

\* Mutant: the cache is not asked.
LoadAlways(w) ==
  /\ Goto(w, "read")
  /\ UNCHANGED <<cacheVars, code, ver>>

\* load_once(): nothing to do if the document is in the cache ...
LoadOnce(w) ==
  /\ ~Cached
  /\ Goto(w, "read")
  /\ UNCHANGED <<cacheVars, code, ver>>

\* ... else it is read from disk, under no lock.
ReadDisk(w) ==
  /\ at[w] = "read"
  /\ code' = [code EXCEPT ![w] = disk]
  /\ ver' = [ver EXCEPT ![w] = NoVersion]
  /\ Goto(w, "update")
  /\ UNCHANGED cacheVars

\* update(): is it as old as what is cached?
Outdated(w) == Cached /\ ver[w] # NoVersion /\ ver[w] <= entry.ver

\* update() settles the version under the first lock ...
UpdateBegin(w) ==
  /\ at[w] = "update"
  /\ ~Outdated(w)
  /\ ver' = [ver EXCEPT ![w] = IF @ # NoVersion THEN @ ELSE IF Cached THEN entry.ver ELSE 1]
  /\ Goto(w, "vfs")
  /\ UNCHANGED <<cacheVars, code>>

\* Mutant: the virtual file system is left as it was.
SkipVfs(w) ==
  /\ at[w] = "vfs"
  /\ Goto(w, "insert")
  /\ UNCHANGED <<cacheVars, code, ver>>

\* ... puts the text into the virtual file system ...
UpdateVfs(w) ==
  /\ at[w] = "vfs"
  /\ vfs' = code[w]
  /\ Goto(w, "insert")
  /\ UNCHANGED <<disk, entry, code, ver>>

\* ... and the entry into the cache, under a lock of its own.
UpdateInsert(w, next) ==
  /\ at[w] = "insert"
  /\ entry' = [ver |-> ver[w], text |-> code[w]]
  /\ Goto(w, next)
  /\ UNCHANGED <<disk, vfs, code, ver>>

\* What an edit from one text to another makes of a text: a change without a
\* range is passed over.
Apply(edit, text) ==
  IF ~edit.ranged THEN text ELSE IF text = edit.from THEN edit.to ELSE Mess

\* incremental_update(), if the document is in the cache with an older version.
IncrementalUpdate(edit) ==
  /\ IF Cached /\ entry.ver < edit.ver
       THEN /\ entry' = [ver |-> edit.ver, text |-> Apply(edit, entry.text)]
            /\ vfs' = Apply(edit, entry.text)
       ELSE UNCHANGED <<entry, vfs>>
  /\ UNCHANGED <<disk, code, ver>>
=============================================================================
