--------------------------- MODULE DocumentServer ----------------------------
(***************************************************************************)
(* A document in the language server (crates/els/server.rs and             *)
(* diagnostics.rs): the client edits it, the dispatcher follows, services  *)
(* load it on demand, and a poller checks it when its version has changed. *)
(*                                                                         *)
(* The client (external) opens, edits, saves and closes; each opening      *)
(* starts again at version 1, and an edit is a range or the whole text.    *)
(* didClose is not handled.  The dispatcher takes one notification after   *)
(* the other: didOpen updates the cache and checks, didSave checks unless  *)
(* the AST is the same as before, didChange updates the cache, after       *)
(* patching the analysed module if what was typed suggests it.  Checking   *)
(* clears the module, analyses the text in hand, and registers the result  *)
(* together with an AST of the text that is in the cache by then.  The     *)
(* poller is not running if the client saves after a delay; here it is.    *)
(* The workspace has been checked before.                                  *)
(***************************************************************************)
EXTENDS FileCache

CONSTANTS
  Loader,       \* service threads that read documents on demand
  Dispatcher,
  Poller,
  NoModule,     \* the module is not in the shared cache
  MaxOpens      \* bound on how often the document is opened

ASSUME WorkerAssumption ==
  /\ Worker = Loader \union {Dispatcher, Poller}
  /\ Dispatcher # Poller /\ {Dispatcher, Poller} \intersect Loader = {}
ASSUME MaxOpensAssumption == MaxOpens \in Nat

VARIABLES
  open,         \* is the document open in the client?
  opens,        \* how often it has been
  mine,         \* the client's version and text
  edits,        \* the number of edits so far
  wire,         \* the notifications on their way to the dispatcher
  module,       \* the registered module: the texts of its AST and of its HIR
  stolen,       \* the module quick_check_file() has taken out
  seen,         \* the version in the poller's `file_vers'
  latest,       \* its `latest_ver'
  \* History:
  astray,       \* has the cache been led away from the client since the last
                \* opening?
  early,        \* the loads begun before the last opening was done
  behind        \* has the poller seen a later version first, or has a load put
                \* another version in the place of one since?

clientVars == <<open, opens, mine, edits>>
checkVars == <<module, stolen>>
pollVars == <<seen, latest>>
historyVars == <<astray, early, behind>>
vars == <<cacheVars, localVars, clientVars, wire, checkVars, pollVars, historyVars>>

Init ==
  /\ InitCache
  /\ open = FALSE
  /\ opens = 0
  /\ mine = [ver |-> 0, text |-> 0]
  /\ edits = 0
  /\ wire = <<>>
  /\ module = NoModule
  /\ stolen = NoModule
  /\ seen = NoVersion
  /\ latest = NoVersion
  /\ astray = TRUE
  /\ early = {}
  /\ behind = TRUE

-----------------------------------------------------------------------------
(* The client.                                                             *)

Notify(kind, quick, ranged, to) ==
  wire' = Append(wire, [kind |-> kind, quick |-> quick, ranged |-> ranged,
                        ver |-> mine'.ver, from |-> mine.text, to |-> to])

Open ==
  /\ ~open /\ opens < MaxOpens
  /\ open' = TRUE
  /\ opens' = opens + 1
  /\ mine' = [ver |-> 1, text |-> disk]
  /\ Notify("didOpen", FALSE, FALSE, disk)
  /\ UNCHANGED <<cacheVars, localVars, edits, checkVars, pollVars, historyVars>>

Edit(quick, ranged) ==
  /\ open /\ edits < MaxEdits
  /\ edits' = edits + 1
  /\ mine' = [ver |-> mine.ver + 1, text |-> edits + 1]
  /\ Notify("didChange", quick, ranged, edits + 1)
  /\ UNCHANGED <<cacheVars, localVars, open, opens, checkVars, pollVars, historyVars>>

Save ==
  /\ open /\ disk # mine.text
  /\ disk' = mine.text
  /\ UNCHANGED <<mine, edits, open, opens>>
  /\ Notify("didSave", FALSE, FALSE, mine.text)
  /\ UNCHANGED <<entry, vfs, localVars, checkVars, pollVars, historyVars>>

Close ==
  /\ open
  /\ open' = FALSE
  /\ UNCHANGED <<cacheVars, localVars, opens, mine, edits, wire, checkVars, pollVars, historyVars>>

-----------------------------------------------------------------------------
(* check_file(), by the dispatcher or the poller.                          *)

\* get_checker(): the module is cleared; its analysis begins.
CheckStart(w) ==
  /\ at[w] = "check"
  /\ module' = NoModule
  /\ Goto(w, "checking")
  /\ UNCHANGED <<cacheVars, code, ver, clientVars, wire, stolen, pollVars, historyVars>>

\* build_ast() reads the cache again, and the module is registered.
Register(w) ==
  module' = [ast |-> entry.text, hir |-> code[w]]

-----------------------------------------------------------------------------
(* The dispatcher.                                                         *)

Received(kind) == at[Dispatcher] = "idle" /\ wire # <<>> /\ Head(wire).kind = kind

DidOpen ==
  /\ Received("didOpen")
  /\ code' = [code EXCEPT ![Dispatcher] = Head(wire).to]
  /\ ver' = [ver EXCEPT ![Dispatcher] = Head(wire).ver]
  /\ Goto(Dispatcher, "update")
  /\ astray' = FALSE
  /\ early' = {w \in Loader : at[w] # "idle"}
  /\ UNCHANGED <<cacheVars, clientVars, wire, checkVars, pollVars, behind>>

\* From here to the end of update().
Opening == at[Dispatcher] \in {"update", "vfs", "insert"}

\* "double update detected".  The cache goes astray if what it keeps is another
\* text, or of a later version than the client starts from.
KeepEntry ==
  /\ at[Dispatcher] = "update"
  /\ Outdated(Dispatcher)
  /\ Goto(Dispatcher, "check")
  /\ wire' = Tail(wire)
  /\ astray' = \/ astray
               \/ entry.ver > ver[Dispatcher]
               \/ {entry.text, vfs} # {code[Dispatcher]}
  /\ UNCHANGED <<cacheVars, code, ver, clientVars, checkVars, pollVars, early, behind>>

UpdateOpened ==
  \/ /\ UpdateBegin(Dispatcher) \/ UpdateVfs(Dispatcher)
     /\ UNCHANGED <<clientVars, wire, checkVars, pollVars, historyVars>>
  \/ /\ UpdateInsert(Dispatcher, "check")
     /\ wire' = Tail(wire)
     /\ UNCHANGED <<clientVars, checkVars, pollVars, historyVars>>

CheckDone ==
  /\ at[Dispatcher] = "checking"
  /\ Register(Dispatcher)
  /\ Goto(Dispatcher, "idle")
  /\ UNCHANGED <<cacheVars, code, ver, clientVars, wire, stolen, pollVars, historyVars>>

\* recheck_file(): "no changes" if the registered AST is that of the text.
DidSave ==
  /\ Received("didSave")
  /\ Cached
  /\ wire' = Tail(wire)
  /\ code' = [code EXCEPT ![Dispatcher] = entry.text]
  /\ Goto(Dispatcher, IF module # NoModule /\ module.ast = entry.text THEN "idle" ELSE "check")
  /\ UNCHANGED <<cacheVars, ver, clientVars, checkVars, pollVars, historyVars>>

Patchable ==
  Head(wire).quick /\ module # NoModule /\ Cached /\ module.ast # entry.text

\* quick_check_file() steals the module if its AST is not that of the text.
Steal ==
  /\ Received("didChange")
  /\ Patchable
  /\ stolen' = module
  /\ module' = NoModule
  /\ code' = [code EXCEPT ![Dispatcher] = entry.text]
  /\ Goto(Dispatcher, "restore")
  /\ UNCHANGED <<cacheVars, ver, clientVars, wire, pollVars, historyVars>>

\* The difference of the ASTs may be applicable to the HIR, or not.
Restore ==
  /\ at[Dispatcher] = "restore"
  /\ module' \in {stolen, [ast |-> code[Dispatcher], hir |-> code[Dispatcher]]}
  /\ stolen' = NoModule
  /\ Goto(Dispatcher, "apply")
  /\ UNCHANGED <<cacheVars, code, ver, clientVars, wire, pollVars, historyVars>>

DidChange ==
  /\ \/ at[Dispatcher] = "apply"
     \/ Received("didChange") /\ ~Patchable
  /\ IncrementalUpdate(Head(wire))
  /\ wire' = Tail(wire)
  /\ Goto(Dispatcher, "idle")
  /\ astray' = (astray \/ ~Head(wire).ranged)
  /\ UNCHANGED <<clientVars, checkVars, pollVars, early, behind>>

Dispatch ==
  DidOpen \/ KeepEntry \/ UpdateOpened \/ CheckStart(Dispatcher) \/ CheckDone
  \/ DidSave \/ Steal \/ Restore \/ DidChange

-----------------------------------------------------------------------------
(* A service thread that needs the document.                               *)

\* It puts what it read in the place of another text or version.
Overwrites(w) ==
  \/ at[w] = "vfs" /\ vfs \notin {NoEntry, code[w]}
  \/ at[w] = "insert" /\ entry \notin {NoEntry, [ver |-> ver[w], text |-> code[w]]}

Load(w) ==
  /\ \/ at[w] = "idle" /\ LoadOnce(w)
     \/ ReadDisk(w) \/ UpdateBegin(w) \/ UpdateVfs(w) \/ UpdateInsert(w, "idle")
  /\ astray' = (astray \/ (w \in early /\ Overwrites(w)))
  /\ early' = CASE at'[w] = "idle" -> early \ {w}
                [] at[w] = "idle" /\ Opening -> early \union {w}
                [] OTHER -> early
  /\ behind' = (behind \/ (at[w] = "insert" /\ Cached /\ entry.ver # ver[w]))
  /\ UNCHANGED <<clientVars, wire, checkVars, pollVars>>

-----------------------------------------------------------------------------
(* start_auto_diagnostics()                                                *)

\* A document is only remembered when it is seen for the first time.
PollFirst ==
  /\ at[Poller] = "idle" /\ Cached /\ seen = NoVersion
  /\ seen' = entry.ver
  /\ behind' = (entry.ver # 1)
  /\ UNCHANGED <<cacheVars, localVars, clientVars, wire, checkVars, latest, astray, early>>

PollChanged ==
  /\ at[Poller] = "idle" /\ Cached /\ seen # NoVersion /\ seen # entry.ver
  /\ latest' = entry.ver
  /\ Goto(Poller, "fetch")
  /\ UNCHANGED <<cacheVars, code, ver, clientVars, wire, checkVars, seen, historyVars>>

PollFetch ==
  /\ at[Poller] = "fetch"
  /\ code' = [code EXCEPT ![Poller] = entry.text]
  /\ Goto(Poller, "check")
  /\ UNCHANGED <<cacheVars, ver, clientVars, wire, checkVars, pollVars, historyVars>>

\* Mutant: the version is the one the document has when the check is over.
PollDoneLate ==
  /\ at[Poller] = "checking"
  /\ Register(Poller)
  /\ seen' = entry.ver
  /\ Goto(Poller, "idle")
  /\ UNCHANGED <<cacheVars, code, ver, clientVars, wire, stolen, latest, historyVars>>

PollDone ==
  /\ at[Poller] = "checking"
  /\ Register(Poller)
  /\ seen' = latest
  /\ Goto(Poller, "idle")
  /\ UNCHANGED <<cacheVars, code, ver, clientVars, wire, stolen, latest, historyVars>>

Poll == PollFirst \/ PollChanged \/ PollFetch \/ CheckStart(Poller) \/ PollDone

-----------------------------------------------------------------------------

Next ==
  \/ Open \/ Save \/ Close \/ \E quick, ranged \in BOOLEAN : Edit(quick, ranged)
  \/ Dispatch
  \/ \E w \in Loader : Load(w)
  \/ Poll

\* The server's threads run; the client need not do anything.
Spec ==
  Init /\ [][Next]_vars /\ WF_vars(Dispatch) /\ WF_vars(Poll)
       /\ \A w \in Loader : WF_vars(at[w] # "idle" /\ Load(w))

-----------------------------------------------------------------------------

DocumentTypeOK ==
  /\ disk \in 0..MaxEdits
  /\ entry \in {NoEntry} \union Entry
  /\ vfs \in {NoEntry} \union Text
  /\ at \in [Worker -> {"idle", "read", "update", "vfs", "insert", "check",
                        "checking", "restore", "apply", "fetch"}]
  /\ code \in [Worker -> Text]
  /\ ver \in [Worker -> 0..(MaxEdits + 1)]
  /\ open \in BOOLEAN /\ opens \in 0..MaxOpens /\ edits \in 0..MaxEdits
  /\ mine \in [ver : 0..(MaxEdits + 1), text : 0..MaxEdits]
  /\ module \in {NoModule} \union [ast : Text, hir : Text]
  /\ stolen \in {NoModule} \union [ast : Text, hir : Text]
  /\ seen \in 0..(MaxEdits + 1) /\ latest \in 0..(MaxEdits + 1)
  /\ astray \in BOOLEAN /\ early \subseteq Loader /\ behind \in BOOLEAN
  \* What is in the cache is in the virtual file system: rename() unwraps it.
  /\ Cached => vfs # NoEntry

\* The text the server should have: that of the client, less what is on the wire.
Expected == IF wire = <<>> THEN mine.text ELSE Head(wire).from

\* The document was opened, and the dispatcher has followed.
Followed ==
  /\ ~Opening
  /\ wire # <<>> => Head(wire).kind # "didOpen"
  /\ opens > 0

\* After every notification, from an opening on and whatever was cached or being
\* loaded then, the cache and the virtual file system have the client's text,
\* unless one of three things has led the cache astray since: the opening found a
\* later version or another text in it; a load begun before the opening was done put what
\* it had read in the place of another text or version; an edit came without a range.
MirrorsClient ==
  ~astray /\ Followed => Cached /\ entry.text = Expected /\ vfs = Expected

\* What is registered in the end is an analysis of the client's last text, whatever
\* checks overlapped, unless the cache was led astray or the poller is behind: then
\* it may take a version for the one it has checked.
LastTextChecked ==
  <>[](~astray /\ Followed /\ ~behind =>
         module # NoModule /\ module.hir = entry.text)
=============================================================================
