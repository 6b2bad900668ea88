------------------------ MODULE DocumentServerProofs -------------------------
(***************************************************************************)
(* A document in the language server, whatever the number of edits, of     *)
(* openings and of threads that load it.                                   *)
(***************************************************************************)
EXTENDS DocumentServer, TLAPS

Notification == [kind : {"didOpen", "didChange", "didSave"}, quick : BOOLEAN,
                 ranged : BOOLEAN, ver : 1..(MaxEdits + 1), from : 0..MaxEdits, to : 0..MaxEdits]

-----------------------------------------------------------------------------
(* The invariant. *)

\* What the threads have in hand fits where they are.
AtHand ==
  \A w \in Worker :
    /\ at[w] \in {"vfs", "insert"} => ver[w] # NoVersion
    /\ at[w] = "insert" => vfs # NoEntry
    /\ at[w] \in {"fetch", "check", "checking"} => Cached

\* The dispatcher takes a notification off the wire when it is done with it.
InHand ==
  /\ Opening => /\ wire # <<>> /\ wire[1].kind = "didOpen"
                /\ code[Dispatcher] = wire[1].to /\ ver[Dispatcher] = wire[1].ver
  /\ at[Dispatcher] \in {"restore", "apply"} => wire # <<>> /\ wire[1].kind = "didChange"

\* n may follow when the version is v.
MayFollow(n, v) ==
  n.kind # "didOpen" => v <= n.ver /\ (n.kind = "didChange" => v < n.ver)

\* Each notification on the wire starts from the text the one before it ends
\* with, and the last one ends with the client's.
WireOrdered ==
  /\ wire \in Seq(Notification)
  /\ \A i \in DOMAIN wire : wire[i].kind = "didSave" => wire[i].from = wire[i].to
  /\ \A i \in DOMAIN wire : i < Len(wire) =>
       wire[i + 1].from = wire[i].to /\ MayFollow(wire[i + 1], wire[i].ver)
  /\ wire # <<>> => wire[Len(wire)].to = mine.text /\ wire[Len(wire)].ver = mine.ver

Typed ==
  /\ DocumentTypeOK
  /\ WireOrdered
  /\ mine.ver <= edits + 1 /\ (open => mine.ver >= 1)
  /\ AtHand /\ InHand

\* Unless the cache was led astray: what is being loaded was begun before the
\* opening was done, and the cache has the text from which the next notification
\* starts, in a version that it may follow.
Mirror ==
  ~astray =>
    /\ \A w \in Loader : at[w] # "idle" => w \in early
    /\ at[Dispatcher] = "insert" => vfs = code[Dispatcher]
    /\ ~Opening =>
         /\ Cached /\ entry.text = Expected /\ vfs = Expected
         /\ IF wire = <<>> THEN entry.ver <= mine.ver ELSE MayFollow(wire[1], entry.ver)

Inv == Typed /\ Mirror

-----------------------------------------------------------------------------
(* The wire. *)

LEMMA EmptyLength ==
  ASSUME NEW S, NEW s \in Seq(S)
  PROVE  s = <<>> <=> Len(s) = 0
OBVIOUS

\* A notification that starts from the client's text is appended.
LEMMA WireAppended ==
  ASSUME WireOrdered, NEW n \in Notification, wire' = Append(wire, n),
         n.from = mine.text, n.to = mine'.text, n.ver = mine'.ver,
         MayFollow(n, mine.ver), n.kind = "didSave" => n.from = n.to
  PROVE  /\ WireOrdered' /\ wire' # <<>> /\ Expected' = Expected
         /\ wire'[1] = IF wire = <<>> THEN n ELSE wire[1]
<1>1. /\ wire \in Seq(Notification) /\ wire' \in Seq(Notification)
      /\ Len(wire) \in Nat /\ DOMAIN wire = 1 .. Len(wire)
      /\ Len(wire') = Len(wire) + 1 /\ DOMAIN wire' = 1 .. Len(wire) + 1
      /\ \A i \in 1 .. Len(wire) : wire'[i] = wire[i]
      /\ wire'[Len(wire) + 1] = n
  BY DEF WireOrdered
<1>2. wire' # <<>> /\ Head(wire') = wire'[1] /\ (wire # <<>> => Head(wire) = wire[1])
  BY <1>1
<1>3. wire = <<>> <=> Len(wire) = 0
  BY <1>1
<1>4. wire'[1] = IF wire = <<>> THEN n ELSE wire[1]
  BY <1>1, <1>3
<1>5. Expected' = Expected
  BY <1>2, <1>4 DEF Expected
<1>6. ASSUME NEW i \in DOMAIN wire', wire'[i].kind = "didSave"
      PROVE  wire'[i].from = wire'[i].to
  <2>1. CASE i = Len(wire) + 1
    BY <1>1, <1>6, <2>1
  <2>2. CASE i # Len(wire) + 1
    <3>1. i \in DOMAIN wire /\ wire'[i] = wire[i]
      BY <1>1, <2>2
    <3> QED
      BY <1>6, <3>1 DEF WireOrdered
  <2> QED
    BY <2>1, <2>2
<1>7. ASSUME NEW i \in DOMAIN wire', i < Len(wire')
      PROVE  wire'[i + 1].from = wire'[i].to /\ MayFollow(wire'[i + 1], wire'[i].ver)
  <2>1. i \in DOMAIN wire /\ wire'[i] = wire[i]
    BY <1>1, <1>7
  <2>2. CASE i = Len(wire)
    <3>1. wire[i].to = mine.text /\ wire[i].ver = mine.ver
      BY <1>3, <2>1, <2>2, <1>1 DEF WireOrdered
    <3>2. wire'[i + 1] = n
      BY <1>1, <2>2
    <3> QED
      BY <2>1, <3>1, <3>2
  <2>3. CASE i # Len(wire)
    <3>1. i < Len(wire) /\ wire'[i + 1] = wire[i + 1]
      BY <1>1, <2>1, <2>3
    <3> QED
      BY <2>1, <3>1 DEF WireOrdered
  <2> QED
    BY <2>2, <2>3
<1>8. wire'[Len(wire')].to = mine'.text /\ wire'[Len(wire')].ver = mine'.ver
  BY <1>1
<1>9. WireOrdered'
  BY <1>1, <1>6, <1>7, <1>8 DEF WireOrdered
<1> QED
  BY <1>2, <1>4, <1>5, <1>9

\* The dispatcher is done with the first one.
LEMMA WireTaken ==
  ASSUME WireOrdered, wire # <<>>, wire' = Tail(wire), UNCHANGED mine
  PROVE  /\ WireOrdered' /\ Head(wire) = wire[1] /\ wire[1] \in Notification
         /\ Expected = wire[1].from /\ Expected' = wire[1].to
         /\ wire' = <<>> => mine.ver = wire[1].ver
         /\ wire' # <<>> => MayFollow(wire'[1], wire[1].ver)
<1>1. /\ wire \in Seq(Notification) /\ wire' \in Seq(Notification)
      /\ Len(wire) \in Nat /\ Len(wire) # 0 /\ DOMAIN wire = 1 .. Len(wire)
      /\ Len(wire') = Len(wire) - 1 /\ DOMAIN wire' = 1 .. Len(wire) - 1
      /\ \A i \in 1 .. Len(wire) - 1 : wire'[i] = wire[i + 1]
      /\ Head(wire) = wire[1] /\ wire[1] \in Notification
  <2>1. wire \in Seq(Notification) /\ Len(wire) \in Nat /\ DOMAIN wire = 1 .. Len(wire)
    BY DEF WireOrdered
  <2>2. Len(wire) # 0
    BY <2>1
  <2>3. Head(wire) = wire[1] /\ wire[1] \in Notification
    BY <2>1
  <2>4. /\ wire' \in Seq(Notification) /\ Len(wire') = Len(wire) - 1
        /\ \A i \in 1 .. Len(wire) - 1 : wire'[i] = wire[i + 1]
    BY <2>1
  <2>5. DOMAIN wire' = 1 .. Len(wire) - 1
    BY <2>4
  <2> QED
    BY <2>1, <2>2, <2>3, <2>4, <2>5
<1>2. wire' = <<>> <=> Len(wire) = 1
  <2>1. wire' = <<>> <=> Len(wire') = 0
    BY <1>1, EmptyLength
  <2> QED
    BY <1>1, <2>1
<1>3. CASE Len(wire) = 1
  <2>1. wire' = <<>> /\ DOMAIN wire' = {}
    BY <1>1, <1>2, <1>3
  <2>2. wire[1].to = mine.text /\ wire[1].ver = mine.ver
    BY <1>3 DEF WireOrdered
  <2> QED
    BY <1>1, <2>1, <2>2 DEF WireOrdered, Expected
<1>4. CASE Len(wire) # 1
  <2>1. wire' # <<>> /\ Head(wire') = wire'[1] /\ wire'[1] = wire[2] /\ 1 \in DOMAIN wire
    BY <1>1, <1>2, <1>4
  <2>2. 1 < Len(wire) /\ 1 + 1 = 2
    BY <1>1, <1>4
  <2>3. wire'[1].from = wire[1].to /\ MayFollow(wire'[1], wire[1].ver)
    BY <2>1, <2>2 DEF WireOrdered
  <2>4. \A i \in DOMAIN wire' : i + 1 \in DOMAIN wire /\ wire'[i] = wire[i + 1]
    BY <1>1
  <2>5. \A i \in DOMAIN wire' : wire'[i].kind = "didSave" => wire'[i].from = wire'[i].to
    BY <2>4 DEF WireOrdered
  <2>6. ASSUME NEW i \in DOMAIN wire', i < Len(wire')
        PROVE  wire'[i + 1].from = wire'[i].to /\ MayFollow(wire'[i + 1], wire'[i].ver)
    <3> DEFINE j == i + 1
    <3>1. j \in DOMAIN wire /\ j < Len(wire) /\ wire'[i] = wire[j] /\ wire'[i + 1] = wire[j + 1]
      BY <1>1, <2>6
    <3> HIDE DEF j
    <3> QED
      BY <3>1 DEF WireOrdered
  <2>7. wire'[Len(wire')].to = mine.text /\ wire'[Len(wire')].ver = mine.ver
    <3>1. wire'[Len(wire')] = wire[Len(wire)]
      BY <1>1, <1>4
    <3> QED
      BY <3>1 DEF WireOrdered
  <2>8. WireOrdered'
    BY <1>1, <2>5, <2>6, <2>7 DEF WireOrdered
  <2>9. Expected = wire[1].from /\ Expected' = wire[1].to
    BY <1>1, <2>1, <2>3 DEF Expected
  <2> QED
    BY <1>1, <2>1, <2>3, <2>8, <2>9
<1> QED
  BY <1>3, <1>4

LEMMA WireKept ==
  ASSUME WireOrdered, UNCHANGED <<wire, mine>>
  PROVE  WireOrdered' /\ Expected' = Expected
BY DEF WireOrdered, Expected

LEMMA WireHead ==
  ASSUME WireOrdered, wire # <<>>
  PROVE  /\ Head(wire) = wire[1] /\ wire[1] \in Notification
         /\ wire[1].kind = "didSave" => wire[1].from = wire[1].to
<1>1. 1 \in DOMAIN wire /\ Head(wire) = wire[1] /\ wire[1] \in Notification
  BY DEF WireOrdered
<1> QED
  BY <1>1 DEF WireOrdered

-----------------------------------------------------------------------------
(* Types, and where the threads are. *)

Places == {"idle", "read", "update", "vfs", "insert", "check",
           "checking", "restore", "apply", "fetch"}

LEMMA Workers ==
  /\ Dispatcher \in Worker /\ Poller \in Worker /\ Loader \subseteq Worker
  /\ Dispatcher # Poller /\ Dispatcher \notin Loader /\ Poller \notin Loader
BY WorkerAssumption

\* A thread goes on to another place.
LEMMA GotoType ==
  ASSUME DocumentTypeOK, NEW w \in Worker, NEW s \in Places, Goto(w, s)
  PROVE  /\ at' \in [Worker -> Places]
         /\ at'[w] = s /\ \A v \in Worker : v # w => at'[v] = at[v]
BY DEF DocumentTypeOK, Goto, Places

\* The cache, of an entry of the right type.
LEMMA EntryCached ==
  /\ \A v \in 1..(MaxEdits + 1), t \in Text : [ver |-> v, text |-> t] \in Entry
  /\ NoEntry \notin Entry /\ NoEntry \notin Text
  /\ MaxEdits \in Nat /\ 0..MaxEdits \subseteq Text
BY NoEntryAssumption, MaxEditsAssumption DEF Entry, Text, Mess

LEMMA TypedInit ==
  Init => Typed
<1> SUFFICES ASSUME Init PROVE Typed
  OBVIOUS
<1>1. DocumentTypeOK
  <2>1. 0 \in 0..MaxEdits /\ 0 \in Text /\ 0 \in 0..(MaxEdits + 1) /\ 0 \in 0..MaxOpens
    BY EntryCached, MaxOpensAssumption
  <2>2. /\ at \in [Worker -> Places] /\ code \in [Worker -> Text]
        /\ ver \in [Worker -> 0..(MaxEdits + 1)]
    BY <2>1 DEF Init, InitCache, NoVersion, Places
  <2>3. mine \in [ver : 0..(MaxEdits + 1), text : 0..MaxEdits]
    BY <2>1 DEF Init
  <2> QED
    BY <2>1, <2>2, <2>3 DEF Init, InitCache, DocumentTypeOK, Places, Cached, NoVersion
<1>2. WireOrdered
  <2>1. wire \in Seq(Notification) /\ DOMAIN wire = {}
    BY DEF Init
  <2> QED
    BY <2>1 DEF Init, WireOrdered
<1>3. AtHand /\ InHand
  BY Workers DEF Init, InitCache, AtHand, InHand, Opening
<1> QED
  BY <1>1, <1>2, <1>3, EntryCached DEF Init, Typed

\* The client's steps.
LEMMA ClientTypes ==
  ASSUME Typed, Open \/ Save \/ Close \/ \E quick, ranged \in BOOLEAN : Edit(quick, ranged)
  PROVE  /\ Typed' /\ UNCHANGED <<entry, vfs, localVars, checkVars, pollVars, historyVars>>
         /\ Expected' = Expected
         /\ \/ UNCHANGED <<wire, mine>>
            \/ /\ wire' # <<>>
               /\ IF wire = <<>> THEN MayFollow(wire'[1], mine.ver) ELSE wire'[1] = wire[1]
<1>0. /\ mine \in [ver : 0..(MaxEdits + 1), text : 0..MaxEdits] /\ disk \in 0..MaxEdits
      /\ edits \in 0..MaxEdits /\ opens \in 0..MaxOpens
      /\ mine.ver <= edits + 1 /\ (open => mine.ver >= 1) /\ WireOrdered
  BY DEF Typed, DocumentTypeOK
<1> DEFINE n(kind, quick, ranged, to) ==
             [kind |-> kind, quick |-> quick, ranged |-> ranged, ver |-> mine'.ver, from |-> mine.text, to |-> to]
<1>1. CASE Open
  <2> DEFINE m == n("didOpen", FALSE, FALSE, disk)
  <2>1. /\ mine' = [ver |-> 1, text |-> disk] /\ wire' = Append(wire, m)
        /\ open' = TRUE /\ opens' = opens + 1 /\ opens < MaxOpens
        /\ UNCHANGED <<cacheVars, localVars, edits, checkVars, pollVars, historyVars>>
    BY <1>1 DEF Open, Notify
  <2>2. /\ m \in Notification /\ m.from = mine.text /\ m.to = mine'.text
        /\ m.ver = mine'.ver /\ m.kind = "didOpen"
    BY <1>0, <2>1, EntryCached DEF Notification
  <2>3. MayFollow(m, mine.ver)
    BY <2>2 DEF MayFollow
  <2> HIDE DEF m
  <2>4. /\ WireOrdered' /\ wire' # <<>> /\ Expected' = Expected
        /\ wire'[1] = IF wire = <<>> THEN m ELSE wire[1]
    BY <1>0, <2>1, <2>2, <2>3, WireAppended
  <2>5. DocumentTypeOK'
    BY <1>0, <2>1, EntryCached, MaxOpensAssumption
    DEF Typed, DocumentTypeOK, cacheVars, localVars, checkVars, pollVars, Cached, historyVars
  <2>6. AtHand'
    BY <2>1 DEF Typed, AtHand, cacheVars, localVars, Cached
  <2>7. InHand'
    BY <2>1, <2>4 DEF Typed, InHand, Opening, localVars
  <2> QED
    BY <1>0, <2>1, <2>3, <2>4, <2>5, <2>6, <2>7 DEF Typed, cacheVars
<1>2. CASE Save
  <2> DEFINE m == n("didSave", FALSE, FALSE, mine.text)
  <2>1. /\ mine' = mine /\ wire' = Append(wire, m) /\ disk' = mine.text /\ open
        /\ UNCHANGED <<open, opens, edits, entry, vfs, localVars, checkVars, pollVars, historyVars>>
    BY <1>2 DEF Save, Notify
  <2>2. /\ m \in Notification /\ m.from = mine.text /\ m.to = mine'.text
        /\ m.ver = mine'.ver /\ m.kind = "didSave" /\ m.from = m.to
    BY <1>0, <2>1, EntryCached DEF Notification
  <2>3. MayFollow(m, mine.ver)
    BY <1>0, <2>1, <2>2 DEF MayFollow
  <2> HIDE DEF m
  <2>4. /\ WireOrdered' /\ wire' # <<>> /\ Expected' = Expected
        /\ wire'[1] = IF wire = <<>> THEN m ELSE wire[1]
    BY <1>0, <2>1, <2>2, <2>3, WireAppended
  <2>5. DocumentTypeOK'
    BY <1>0, <2>1, EntryCached
    DEF Typed, DocumentTypeOK, localVars, checkVars, pollVars, Cached, historyVars
  <2>6. AtHand'
    BY <2>1 DEF Typed, AtHand, localVars, Cached
  <2>7. InHand'
    BY <2>1, <2>4 DEF Typed, InHand, Opening, localVars
  <2> QED
    BY <1>0, <2>1, <2>3, <2>4, <2>5, <2>6, <2>7 DEF Typed
<1>3. ASSUME NEW quick \in BOOLEAN, NEW ranged \in BOOLEAN, Edit(quick, ranged)
      PROVE  /\ Typed' /\ UNCHANGED <<entry, vfs, localVars, checkVars, pollVars, historyVars>>
             /\ Expected' = Expected
             /\ wire' # <<>>
             /\ IF wire = <<>> THEN MayFollow(wire'[1], mine.ver) ELSE wire'[1] = wire[1]
  <2> DEFINE m == n("didChange", quick, ranged, edits + 1)
  <2>1. /\ mine' = [ver |-> mine.ver + 1, text |-> edits + 1] /\ wire' = Append(wire, m)
        /\ edits' = edits + 1 /\ edits < MaxEdits
        /\ UNCHANGED <<cacheVars, localVars, open, opens, checkVars, pollVars, historyVars>>
    BY <1>3 DEF Edit, Notify
  <2>2. /\ m \in Notification /\ m.from = mine.text /\ m.to = mine'.text
        /\ m.ver = mine'.ver /\ m.kind = "didChange" /\ mine.ver < m.ver
    BY <1>0, <2>1, EntryCached DEF Notification
  <2>3. MayFollow(m, mine.ver)
    BY <1>0, <2>2 DEF MayFollow, Notification
  <2>4. mine'.ver <= edits' + 1 /\ (open' => mine'.ver >= 1)
    BY <1>0, <2>1, EntryCached
  <2>5. DocumentTypeOK'
    BY <1>0, <2>1, EntryCached
    DEF Typed, DocumentTypeOK, cacheVars, localVars, checkVars, pollVars, Cached, historyVars
  <2> HIDE DEF m
  <2>6. /\ WireOrdered' /\ wire' # <<>> /\ Expected' = Expected
        /\ wire'[1] = IF wire = <<>> THEN m ELSE wire[1]
    BY <1>0, <2>1, <2>2, <2>3, WireAppended
  <2>7. AtHand'
    BY <2>1 DEF Typed, AtHand, cacheVars, localVars, Cached
  <2>8. InHand'
    BY <2>1, <2>6 DEF Typed, InHand, Opening, localVars
  <2> QED
    BY <2>1, <2>3, <2>4, <2>5, <2>6, <2>7, <2>8 DEF Typed, cacheVars
<1>4. CASE Close
  <2>1. /\ open' = FALSE
        /\ UNCHANGED <<cacheVars, localVars, opens, mine, edits, wire, checkVars, pollVars, historyVars>>
    BY <1>4 DEF Close
  <2>2. DocumentTypeOK'
    BY <2>1 DEF Typed, DocumentTypeOK, cacheVars, localVars, checkVars, pollVars, Cached, historyVars
  <2>3. AtHand' /\ InHand'
    BY <2>1 DEF Typed, AtHand, InHand, Opening, cacheVars, localVars, Cached
  <2> QED
    BY <1>0, <2>1, <2>2, <2>3, WireKept DEF Typed, cacheVars
<1> QED
  BY <1>1, <1>2, <1>3, <1>4

\* The steps of the server leave the client alone.
LEMMA ServerTypes ==
  ASSUME Typed, UNCHANGED clientVars, DocumentTypeOK', WireOrdered', AtHand', InHand'
  PROVE  Typed'
BY DEF Typed, clientVars

\* What is cached stays cached, and the other threads stay where they are.
LEMMA AtHandStep ==
  ASSUME Typed, NEW w \in Worker,
         \A v \in Worker : v # w => at'[v] = at[v] /\ ver'[v] = ver[v],
         Cached => Cached', vfs # NoEntry => vfs' # NoEntry,
         at'[w] \in {"vfs", "insert"} => ver'[w] # NoVersion,
         at'[w] = "insert" => vfs' # NoEntry,
         at'[w] \in {"fetch", "check", "checking"} => Cached'
  PROVE  AtHand'
BY DEF Typed, AtHand

\* A step of another thread than the dispatcher.
LEMMA InHandKept ==
  ASSUME Typed, UNCHANGED wire, at'[Dispatcher] = at[Dispatcher],
         code'[Dispatcher] = code[Dispatcher], ver'[Dispatcher] = ver[Dispatcher]
  PROVE  InHand'
BY DEF Typed, InHand, Opening

LEMMA CacheStep ==
  ASSUME Typed, NEW w \in Worker, UNCHANGED <<clientVars, checkVars, pollVars>>,
         astray' \in BOOLEAN, early' \subseteq Loader, behind' \in BOOLEAN,
         \/ LoadOnce(w) \/ ReadDisk(w) \/ UpdateBegin(w) \/ UpdateVfs(w)
         \/ \E next \in {"idle", "check"} : UpdateInsert(w, next)
  PROVE  /\ DocumentTypeOK' /\ AtHand'
         /\ \A v \in Worker : v # w => at'[v] = at[v] /\ code'[v] = code[v] /\ ver'[v] = ver[v]
<1>0. /\ DocumentTypeOK /\ AtHand /\ entry \in {NoEntry} \union Entry
      /\ vfs \in {NoEntry} \union Text /\ at \in [Worker -> Places]
      /\ code \in [Worker -> Text] /\ ver \in [Worker -> 0..(MaxEdits + 1)]
      /\ disk \in 0..MaxEdits /\ (Cached => vfs # NoEntry)
  BY DEF Typed, DocumentTypeOK, Places
<1>1. ASSUME /\ disk' = disk /\ entry' \in {NoEntry} \union Entry
             /\ vfs' \in {NoEntry} \union Text /\ at' \in [Worker -> Places]
             /\ code' \in [Worker -> Text] /\ ver' \in [Worker -> 0..(MaxEdits + 1)]
             /\ (Cached' => vfs' # NoEntry)
      PROVE  DocumentTypeOK'
  BY <1>0, <1>1 DEF DocumentTypeOK, Places, clientVars, checkVars, pollVars, historyVars
<1>2. CASE LoadOnce(w)
  <2>1. Goto(w, "read") /\ UNCHANGED <<disk, entry, vfs, code, ver>>
    BY <1>2 DEF LoadOnce, cacheVars
  <2>2. /\ at' \in [Worker -> Places]
        /\ at'[w] = "read" /\ \A v \in Worker : v # w => at'[v] = at[v]
    BY <1>0, <2>1, GotoType DEF Places
  <2>3. DocumentTypeOK'
    BY <1>0, <1>1, <2>1, <2>2 DEF Cached
  <2>4. AtHand'
    BY <2>1, <2>2, AtHandStep DEF Cached
  <2> QED
    BY <2>1, <2>2, <2>3, <2>4
<1>3. CASE ReadDisk(w)
  <2>1. /\ code' = [code EXCEPT ![w] = disk] /\ ver' = [ver EXCEPT ![w] = NoVersion]
        /\ Goto(w, "update") /\ UNCHANGED <<disk, entry, vfs>>
    BY <1>3 DEF ReadDisk, cacheVars
  <2>2. /\ at' \in [Worker -> Places]
        /\ at'[w] = "update" /\ \A v \in Worker : v # w => at'[v] = at[v]
    BY <1>0, <2>1, GotoType DEF Places
  <2>3. disk \in Text /\ NoVersion \in 0..(MaxEdits + 1)
    BY <1>0, EntryCached DEF NoVersion
  <2>4. /\ code' \in [Worker -> Text] /\ ver' \in [Worker -> 0..(MaxEdits + 1)]
        /\ \A v \in Worker : v # w => code'[v] = code[v] /\ ver'[v] = ver[v]
    BY <1>0, <2>1, <2>3
  <2>5. DocumentTypeOK'
    BY <1>0, <1>1, <2>1, <2>2, <2>4 DEF Cached
  <2>6. AtHand'
    BY <2>1, <2>2, <2>4, AtHandStep DEF Cached
  <2> QED
    BY <2>2, <2>4, <2>5, <2>6
<1>4. CASE UpdateBegin(w)
  <2> DEFINE x == IF ver[w] # NoVersion THEN ver[w] ELSE IF Cached THEN entry.ver ELSE 1
  <2>1. /\ ver' = [ver EXCEPT ![w] = x]
        /\ Goto(w, "vfs") /\ UNCHANGED <<disk, entry, vfs, code>>
    BY <1>4 DEF UpdateBegin, cacheVars
  <2>2. /\ at' \in [Worker -> Places]
        /\ at'[w] = "vfs" /\ \A v \in Worker : v # w => at'[v] = at[v]
    BY <1>0, <2>1, GotoType DEF Places
  <2>3. x \in 1..(MaxEdits + 1)
    <3>1. Cached => entry.ver \in 1..(MaxEdits + 1)
      BY <1>0 DEF Cached, Entry
    <3>2. ver[w] \in 0..(MaxEdits + 1)
      BY <1>0
    <3>3. ver[w] # NoVersion => ver[w] \in 1..(MaxEdits + 1)
      BY <3>2, EntryCached DEF NoVersion
    <3> QED
      BY <3>1, <3>3, EntryCached
  <2> HIDE DEF x
  <2>4. x \in 0..(MaxEdits + 1) /\ x # NoVersion
    BY <2>3, EntryCached DEF NoVersion
  <2>5. /\ ver' \in [Worker -> 0..(MaxEdits + 1)] /\ ver'[w] = x
        /\ \A v \in Worker : v # w => ver'[v] = ver[v]
    BY <1>0, <2>1, <2>4
  <2>6. DocumentTypeOK'
    BY <1>0, <1>1, <2>1, <2>2, <2>5 DEF Cached
  <2>7. AtHand'
    BY <2>1, <2>2, <2>4, <2>5, AtHandStep DEF Cached
  <2> QED
    BY <2>1, <2>2, <2>5, <2>6, <2>7
<1>5. CASE UpdateVfs(w)
  <2>1. /\ vfs' = code[w] /\ at[w] = "vfs"
        /\ Goto(w, "insert") /\ UNCHANGED <<disk, entry, code, ver>>
    BY <1>5 DEF UpdateVfs
  <2>2. /\ at' \in [Worker -> Places]
        /\ at'[w] = "insert" /\ \A v \in Worker : v # w => at'[v] = at[v]
    BY <1>0, <2>1, GotoType DEF Places
  <2>3. vfs' \in Text /\ vfs' # NoEntry
    BY <1>0, <2>1, EntryCached
  <2>4. DocumentTypeOK'
    BY <1>0, <1>1, <2>1, <2>2, <2>3 DEF Cached
  <2>5. ver'[w] # NoVersion
    BY <1>0, <2>1 DEF AtHand
  <2>6. AtHand'
    BY <2>1, <2>2, <2>3, <2>5, AtHandStep DEF Cached
  <2> QED
    BY <2>1, <2>2, <2>4, <2>6
<1>6. ASSUME NEW next \in {"idle", "check"}, UpdateInsert(w, next)
      PROVE  /\ DocumentTypeOK' /\ AtHand'
             /\ \A v \in Worker : v # w => at'[v] = at[v] /\ code'[v] = code[v] /\ ver'[v] = ver[v]
  <2>1. /\ entry' = [ver |-> ver[w], text |-> code[w]] /\ at[w] = "insert"
        /\ Goto(w, next) /\ UNCHANGED <<disk, vfs, code, ver>>
    BY <1>6 DEF UpdateInsert
  <2>2. /\ at' \in [Worker -> Places]
        /\ at'[w] = next /\ \A v \in Worker : v # w => at'[v] = at[v]
    BY <1>0, <2>1, GotoType DEF Places
  <2>3. ver[w] \in 1..(MaxEdits + 1) /\ code[w] \in Text /\ vfs # NoEntry
    <3>1. ver[w] # 0 /\ vfs # NoEntry
      BY <1>0, <2>1 DEF AtHand, NoVersion
    <3>2. ver[w] \in 0..(MaxEdits + 1) /\ code[w] \in Text
      BY <1>0
    <3> QED
      BY <3>1, <3>2, EntryCached
  <2>4. entry' \in Entry /\ entry' # NoEntry
    BY <2>1, <2>3, EntryCached
  <2>5. DocumentTypeOK'
    BY <1>0, <1>1, <2>1, <2>2, <2>3, <2>4
  <2>6. AtHand'
    BY <2>1, <2>2, <2>3, <2>4, AtHandStep DEF Cached
  <2> QED
    BY <2>1, <2>2, <2>5, <2>6
<1> QED
  BY <1>2, <1>3, <1>4, <1>5, <1>6

\* A thread that loads the document.
LEMMA LoadTypes ==
  ASSUME Typed, NEW w \in Loader, Load(w)
  PROVE  Typed'
<1>1. /\ w \in Worker /\ w # Dispatcher /\ Dispatcher \in Worker
      /\ UNCHANGED <<clientVars, wire, checkVars, pollVars>>
      /\ \/ LoadOnce(w) \/ ReadDisk(w) \/ UpdateBegin(w) \/ UpdateVfs(w)
         \/ \E next \in {"idle", "check"} : UpdateInsert(w, next)
  BY Workers DEF Load
<1>2. astray' \in BOOLEAN /\ early' \subseteq Loader /\ behind' \in BOOLEAN
  BY DEF Load, Typed, DocumentTypeOK
<1>3. /\ DocumentTypeOK' /\ AtHand'
      /\ \A v \in Worker : v # w => at'[v] = at[v] /\ code'[v] = code[v] /\ ver'[v] = ver[v]
  BY <1>1, <1>2, CacheStep
<1>4. InHand'
  BY <1>1, <1>3, InHandKept
<1>5. WireOrdered'
  BY <1>1, WireKept DEF Typed, clientVars
<1> QED
  BY <1>1, <1>3, <1>4, <1>5, ServerTypes

LEMMA EarlyType ==
  Typed => early \subseteq Loader /\ behind \in BOOLEAN
BY DEF Typed, DocumentTypeOK

LEMMA HistoryKept ==
  ASSUME Typed, UNCHANGED historyVars
  PROVE  astray' \in BOOLEAN /\ UNCHANGED <<astray, early, behind>>
BY DEF Typed, DocumentTypeOK, historyVars

\* Checking a file.
LEMMA CheckTypes ==
  ASSUME Typed, NEW w \in {Dispatcher, Poller}, UNCHANGED <<cacheVars, ver, clientVars>>,
         astray' \in BOOLEAN, UNCHANGED <<early, behind>>,
         NEW s \in Places, Goto(w, s), s \notin {"vfs", "insert"},
         s \in {"fetch", "check", "checking"} => Cached,
         module' \in {NoModule} \union [ast : Text, hir : Text],
         stolen' \in {NoModule} \union [ast : Text, hir : Text],
         code' = code \/ \E t \in Text : code' = [code EXCEPT ![w] = t],
         seen' \in 0..(MaxEdits + 1), latest' \in 0..(MaxEdits + 1)
  PROVE  /\ DocumentTypeOK' /\ AtHand'
         /\ \A v \in Worker : v # w => at'[v] = at[v] /\ code'[v] = code[v] /\ ver'[v] = ver[v]
         /\ at'[w] = s
         /\ UNCHANGED wire => WireOrdered' /\ Expected' = Expected /\ (w = Poller => InHand')
<1>1. /\ DocumentTypeOK /\ at \in [Worker -> Places] /\ w \in Worker /\ Dispatcher \in Worker
      /\ Dispatcher # Poller /\ code \in [Worker -> Text]
      /\ UNCHANGED <<disk, entry, vfs, ver, mine>> /\ WireOrdered
  BY Workers DEF Typed, DocumentTypeOK, Places, cacheVars, clientVars
<1>2. /\ at' \in [Worker -> Places]
      /\ at'[w] = s /\ \A v \in Worker : v # w => at'[v] = at[v]
  BY <1>1, GotoType
<1>3. code' \in [Worker -> Text] /\ \A v \in Worker : v # w => code'[v] = code[v]
  BY <1>1
<1>4. DocumentTypeOK'
  BY <1>1, <1>2, <1>3 DEF DocumentTypeOK, Places, clientVars, Cached
<1>5. AtHand'
  BY <1>1, <1>2, AtHandStep DEF Cached
<1>6. w = Poller /\ UNCHANGED wire => InHand'
  BY <1>1, <1>2, <1>3, InHandKept
<1>7. UNCHANGED wire => WireOrdered' /\ Expected' = Expected
  BY <1>1, WireKept
<1> QED
  BY <1>1, <1>2, <1>3, <1>4, <1>5, <1>6, <1>7

LEMMA RegisterType ==
  ASSUME Typed, NEW w \in Worker, at[w] = "checking", Register(w)
  PROVE  module' \in [ast : Text, hir : Text]
<1>1. entry \in Entry
  BY DEF Typed, AtHand, DocumentTypeOK, Cached
<1>2. entry.text \in Text /\ code[w] \in Text
  BY <1>1 DEF Entry, Typed, DocumentTypeOK
<1> QED
  BY <1>2 DEF Register

LEMMA CachedType ==
  ASSUME Typed, Cached
  PROVE  /\ entry \in Entry /\ entry.ver \in 1..(MaxEdits + 1) /\ entry.text \in Text
         /\ entry.ver \in 0..(MaxEdits + 1) /\ vfs # NoEntry
<1>1. entry \in Entry /\ vfs # NoEntry
  BY DEF Typed, DocumentTypeOK, Cached
<1> QED
  BY <1>1, EntryCached DEF Entry

\* The poller.
LEMMA PollTypes ==
  ASSUME Typed, Poll
  PROVE  /\ Typed' /\ UNCHANGED <<cacheVars, ver, clientVars, wire, astray, early>>
         /\ Expected' = Expected
         /\ \A v \in Worker : v # Poller => at'[v] = at[v] /\ code'[v] = code[v]
<1>1. /\ Poller \in {Dispatcher, Poller} /\ Poller \in Worker
      /\ module \in {NoModule} \union [ast : Text, hir : Text]
      /\ stolen \in {NoModule} \union [ast : Text, hir : Text]
      /\ seen \in 0..(MaxEdits + 1) /\ latest \in 0..(MaxEdits + 1)
      /\ AtHand /\ WireOrdered
  BY Workers DEF Typed, DocumentTypeOK
<1>2. CASE PollFirst
  <2>1. /\ UNCHANGED <<cacheVars, localVars, clientVars, wire, checkVars, latest, astray, early>>
        /\ seen' = entry.ver /\ behind' \in BOOLEAN /\ Cached
    BY <1>2 DEF PollFirst
  <2>2. DocumentTypeOK'
    BY <2>1, CachedType
    DEF Typed, DocumentTypeOK, cacheVars, localVars, clientVars, checkVars, Cached, historyVars
  <2>3. AtHand' /\ InHand'
    BY <2>1 DEF Typed, AtHand, InHand, Opening, cacheVars, localVars, Cached
  <2>4. WireOrdered' /\ Expected' = Expected
    BY <1>1, <2>1, WireKept DEF clientVars
  <2> QED
    BY <2>1, <2>2, <2>3, <2>4, ServerTypes DEF localVars
<1>3. CASE PollChanged
  <2>1. /\ UNCHANGED <<cacheVars, code, ver, clientVars, wire, checkVars, seen, historyVars>>
        /\ latest' = entry.ver /\ Cached /\ Goto(Poller, "fetch") /\ "fetch" \in Places
    BY <1>3 DEF PollChanged, Places
  <2> QED
    BY <1>1, <2>1, CachedType, CheckTypes, HistoryKept, ServerTypes DEF checkVars
<1>4. CASE PollFetch
  <2>1. /\ UNCHANGED <<cacheVars, ver, clientVars, wire, checkVars, pollVars, historyVars>>
        /\ Cached /\ Goto(Poller, "check") /\ "check" \in Places
        /\ code' = [code EXCEPT ![Poller] = entry.text]
    BY <1>1, <1>4 DEF PollFetch, Places, AtHand
  <2>2. entry.text \in Text
    BY <2>1, CachedType
  <2> QED
    BY <1>1, <2>1, <2>2, CheckTypes, HistoryKept, ServerTypes DEF checkVars, pollVars
<1>5. CASE CheckStart(Poller)
  <2>1. /\ UNCHANGED <<cacheVars, code, ver, clientVars, wire, stolen, pollVars, historyVars>>
        /\ Cached /\ Goto(Poller, "checking") /\ "checking" \in Places
        /\ module' = NoModule
    BY <1>1, <1>5 DEF CheckStart, Places, AtHand
  <2> QED
    BY <1>1, <2>1, CheckTypes, HistoryKept, ServerTypes DEF pollVars
<1>6. CASE PollDone
  <2>1. /\ UNCHANGED <<cacheVars, code, ver, clientVars, wire, stolen, latest, historyVars>>
        /\ Goto(Poller, "idle") /\ "idle" \in Places /\ seen' = latest
        /\ module' \in [ast : Text, hir : Text]
    BY <1>1, <1>6, RegisterType DEF PollDone, Places
  <2> QED
    BY <1>1, <2>1, CheckTypes, HistoryKept, ServerTypes
<1> QED
  BY <1>2, <1>3, <1>4, <1>5, <1>6 DEF Poll

-----------------------------------------------------------------------------
(* The steps. *)

\* A step after which the cache and the wire are as they were.
LEMMA MirrorKept ==
  ASSUME Mirror, UNCHANGED <<astray, early, entry, vfs, wire, mine>>, Expected' = Expected,
         \A w \in Loader : at'[w] = at[w],
         Opening' <=> Opening,
         at'[Dispatcher] = "insert" => at[Dispatcher] = "insert" /\ code'[Dispatcher] = code[Dispatcher]
  PROVE  Mirror'
BY DEF Mirror, Cached

LEMMA ClientInv ==
  ASSUME Inv, Open \/ Save \/ Close \/ \E quick, ranged \in BOOLEAN : Edit(quick, ranged)
  PROVE  Inv'
<1>1. /\ Typed' /\ UNCHANGED <<entry, vfs, localVars, checkVars, pollVars, historyVars>>
      /\ Expected' = Expected
      /\ \/ UNCHANGED <<wire, mine>>
         \/ /\ wire' # <<>>
            /\ IF wire = <<>> THEN MayFollow(wire'[1], mine.ver) ELSE wire'[1] = wire[1]
  BY ClientTypes DEF Inv
<1>2. CASE UNCHANGED <<wire, mine>>
  BY <1>1, <1>2, MirrorKept DEF Inv, localVars, historyVars, Opening
<1>3. CASE wire' # <<>> /\ wire # <<>> /\ wire'[1] = wire[1]
  BY <1>1, <1>3 DEF Inv, Mirror, localVars, historyVars, Opening, Cached
<1>4. CASE wire' # <<>> /\ wire = <<>> /\ MayFollow(wire'[1], mine.ver)
  <2>1. ASSUME Cached, entry.ver <= mine.ver PROVE MayFollow(wire'[1], entry.ver)
    <3>1. entry.ver \in Int /\ mine.ver \in Int
      BY <2>1, CachedType DEF Inv, Typed, DocumentTypeOK
    <3>2. wire'[1] \in Notification
      BY <1>1, <1>4 DEF Typed, WireOrdered
    <3>3. wire'[1].ver \in Int
      BY <3>2 DEF Notification
    <3> QED
      BY <1>4, <2>1, <3>1, <3>3 DEF MayFollow
  <2> QED
    BY <1>1, <1>4, <2>1 DEF Inv, Mirror, localVars, historyVars, Opening, Cached
<1> QED
  BY <1>1, <1>2, <1>3, <1>4

LEMMA LoadInv ==
  ASSUME Inv, NEW w \in Loader, Load(w)
  PROVE  Inv'
<1>1. Typed' /\ w \in Worker /\ w # Dispatcher
  BY LoadTypes, Workers DEF Inv
<1>2. /\ at \in [Worker -> Places] /\ AtHand /\ Mirror /\ WireOrdered
      /\ UNCHANGED <<clientVars, wire, mine>> /\ Dispatcher \in Worker
      /\ \A v \in Loader : v \in Worker
  BY Workers DEF Inv, Typed, DocumentTypeOK, Places, Load, clientVars
<1>3. Expected' = Expected
  BY <1>2, WireKept
<1>4. SUFFICES ASSUME ~astray'
               PROVE  Mirror'
  BY <1>1 DEF Inv, Mirror
<1>5. ~astray /\ ~(w \in early /\ Overwrites(w))
  BY <1>4 DEF Load
<1>6. CASE at[w] = "idle"
  <2>1. LoadOnce(w)
    BY <1>6 DEF Load, ReadDisk, UpdateBegin, UpdateVfs, UpdateInsert
  <2>2. Opening /\ Goto(w, "read") /\ "read" \in Places /\ UNCHANGED <<entry, vfs, code>>
    BY <1>2, <1>5, <2>1 DEF Mirror, LoadOnce, cacheVars, Places
  <2>3. at'[w] = "read" /\ \A v \in Worker : v # w => at'[v] = at[v]
    BY <1>1, <2>2, GotoType DEF Typed, Inv
  <2>4. early' = early \union {w}
    BY <1>6, <2>2, <2>3 DEF Load
  <2>5. Opening'
    BY <1>1, <1>2, <2>2, <2>3 DEF Opening
  <2> QED
    BY <1>1, <1>2, <1>5, <2>2, <2>3, <2>4, <2>5 DEF Mirror
<1>7. CASE at[w] # "idle"
  <2>1. w \in early /\ ~Overwrites(w)
    BY <1>2, <1>5, <1>7 DEF Mirror
  <2>2. ReadDisk(w) \/ UpdateBegin(w) \/ UpdateVfs(w) \/ UpdateInsert(w, "idle")
    BY <1>7 DEF Load
  <2>3. /\ \A v \in Worker : v # w => at'[v] = at[v] /\ code'[v] = code[v]
        /\ early' = IF at'[w] = "idle" THEN early \ {w} ELSE early
    <3>1. \A v \in Worker : v # w => at'[v] = at[v]
      BY <1>1, <1>2, <2>2 DEF ReadDisk, UpdateBegin, UpdateVfs, UpdateInsert, Goto, Places
    <3>2. \A v \in Worker : v # w => code'[v] = code[v]
      BY <1>1, <1>2, <2>2 DEF ReadDisk, UpdateBegin, UpdateVfs, UpdateInsert, Inv, Typed, DocumentTypeOK
    <3>3. early' = IF at'[w] = "idle" THEN early \ {w} ELSE early
      BY <1>7 DEF Load
    <3> QED
      BY <3>1, <3>2, <3>3
  <2>4. \A v \in Loader : at'[v] # "idle" => v \in early'
    BY <1>2, <1>5, <2>3, <2>1 DEF Mirror
  <2>5. Opening' <=> Opening
    BY <1>1, <1>2, <2>3 DEF Opening
  <2>6. /\ at'[Dispatcher] = "insert" => vfs' = vfs
        /\ ~Opening => UNCHANGED <<entry, vfs>>
    <3>1. CASE ReadDisk(w) \/ UpdateBegin(w)
      BY <3>1 DEF ReadDisk, UpdateBegin, cacheVars
    <3>2. CASE UpdateVfs(w)
      <4>1. vfs \in {NoEntry, code[w]} /\ vfs' = code[w] /\ entry' = entry
        BY <2>1, <3>2 DEF UpdateVfs, Overwrites
      <4>2. at'[Dispatcher] = "insert" => vfs # NoEntry
        BY <1>1, <1>2, <2>3 DEF AtHand
      <4>3. ~Opening => vfs # NoEntry
        BY <1>2, <1>5, CachedType DEF Mirror, Inv
      <4> QED
        BY <4>1, <4>2, <4>3
    <3>3. CASE UpdateInsert(w, "idle")
      <4>1. /\ entry \in {NoEntry, [ver |-> ver[w], text |-> code[w]]} /\ vfs' = vfs
            /\ entry' = [ver |-> ver[w], text |-> code[w]]
        BY <2>1, <3>3 DEF UpdateInsert, Overwrites
      <4>2. ~Opening => entry # NoEntry
        BY <1>2, <1>5 DEF Mirror, Cached
      <4> QED
        BY <4>1, <4>2
    <3> QED
      BY <2>2, <3>1, <3>2, <3>3
  <2>7. at'[Dispatcher] = at[Dispatcher] /\ code'[Dispatcher] = code[Dispatcher]
    BY <1>1, <1>2, <2>3
  <2> QED
    BY <1>2, <1>3, <1>5, <2>4, <2>5, <2>6, <2>7 DEF Mirror, Cached, clientVars
<1> QED
  BY <1>6, <1>7

LEMMA PollInv ==
  ASSUME Inv, Poll
  PROVE  Inv'
<1>1. /\ Typed' /\ UNCHANGED <<cacheVars, ver, clientVars, wire, astray, early>>
      /\ Expected' = Expected
      /\ \A v \in Worker : v # Poller => at'[v] = at[v] /\ code'[v] = code[v]
  BY PollTypes DEF Inv
<1>2. at'[Dispatcher] = at[Dispatcher] /\ code'[Dispatcher] = code[Dispatcher]
  BY <1>1, Workers
<1>3. \A w \in Loader : at'[w] = at[w]
  BY <1>1, Workers
<1> QED
  BY <1>1, <1>2, <1>3, MirrorKept DEF Inv, Opening, cacheVars, clientVars

LEMMA DidOpenInv ==
  ASSUME Inv, DidOpen
  PROVE  Inv'
<1>1. /\ wire # <<>> /\ Head(wire).kind = "didOpen" /\ at[Dispatcher] = "idle"
      /\ code' = [code EXCEPT ![Dispatcher] = Head(wire).to]
      /\ ver' = [ver EXCEPT ![Dispatcher] = Head(wire).ver]
      /\ Goto(Dispatcher, "update") /\ "update" \in Places
      /\ astray' = FALSE /\ early' = {w \in Loader : at[w] # "idle"} /\ behind' = behind
      /\ UNCHANGED <<cacheVars, clientVars, wire, checkVars, pollVars>>
  BY DEF DidOpen, Received, Places
<1>2. /\ DocumentTypeOK /\ code \in [Worker -> Text] /\ ver \in [Worker -> 0..(MaxEdits + 1)]
      /\ Typed /\ WireOrdered /\ Dispatcher \in Worker
  BY Workers DEF Inv, Typed, DocumentTypeOK
<1>3. /\ Head(wire) = wire[1] /\ wire[1].to \in Text /\ wire[1].ver \in 0..(MaxEdits + 1)
  <2>1. Head(wire) = wire[1] /\ wire[1] \in Notification
    BY <1>1, <1>2, WireHead
  <2> QED
    BY <2>1, EntryCached DEF Notification
<1>4. /\ at' \in [Worker -> Places]
      /\ at'[Dispatcher] = "update" /\ \A v \in Worker : v # Dispatcher => at'[v] = at[v]
  BY <1>1, <1>2, GotoType
<1>5. /\ code' \in [Worker -> Text] /\ ver' \in [Worker -> 0..(MaxEdits + 1)]
      /\ code'[Dispatcher] = wire[1].to /\ ver'[Dispatcher] = wire[1].ver
      /\ \A v \in Worker : v # Dispatcher => ver'[v] = ver[v]
  BY <1>1, <1>2, <1>3
<1>6. astray' \in BOOLEAN /\ early' \subseteq Loader
  BY <1>1
<1>7. DocumentTypeOK'
  BY <1>1, <1>2, <1>4, <1>5, <1>6
  DEF DocumentTypeOK, Places, cacheVars, clientVars, checkVars, pollVars, Cached, historyVars
<1>8. AtHand'
  BY <1>1, <1>2, <1>4, <1>5, AtHandStep DEF cacheVars, Cached
<1>9. InHand'
  BY <1>1, <1>3, <1>4, <1>5 DEF InHand
<1>10. Typed'
  BY <1>1, <1>2, <1>7, <1>8, <1>9, WireKept, ServerTypes DEF clientVars
<1>11. Mirror'
  <2>1. \A w \in Loader : at'[w] # "idle" => w \in early'
    BY <1>1, <1>4, Workers
  <2>2. Opening' /\ at'[Dispatcher] # "insert"
    BY <1>4 DEF Opening
  <2> QED
    BY <2>1, <2>2 DEF Mirror
<1> QED
  BY <1>10, <1>11 DEF Inv

LEMMA KeepEntryInv ==
  ASSUME Inv, KeepEntry
  PROVE  Inv'
<1>1. /\ at[Dispatcher] = "update" /\ Cached /\ wire' = Tail(wire)
      /\ Goto(Dispatcher, "check") /\ "check" \in Places
      /\ astray' = \/ astray
                   \/ entry.ver > ver[Dispatcher]
                   \/ {entry.text, vfs} # {code[Dispatcher]}
      /\ UNCHANGED <<cacheVars, code, ver, clientVars, checkVars, pollVars, early, behind>>
  BY DEF KeepEntry, Outdated, Places
<1>2. /\ wire # <<>> /\ Typed /\ WireOrdered /\ Dispatcher \in {Dispatcher, Poller}
      /\ Dispatcher \in Worker /\ astray' \in BOOLEAN
      /\ code[Dispatcher] = wire[1].to /\ ver[Dispatcher] = wire[1].ver
      /\ \A w \in Loader : w \in Worker /\ w # Dispatcher
  BY <1>1, Workers DEF Inv, Typed, InHand, Opening, DocumentTypeOK
<1>3. /\ DocumentTypeOK' /\ AtHand' /\ at'[Dispatcher] = "check"
      /\ \A v \in Worker : v # Dispatcher => at'[v] = at[v]
  BY <1>1, <1>2, CheckTypes DEF checkVars, pollVars, Typed, DocumentTypeOK
<1>4. InHand' /\ ~Opening'
  BY <1>3 DEF InHand, Opening
<1>5. /\ WireOrdered' /\ Expected' = wire[1].to /\ wire[1] \in Notification
      /\ wire' = <<>> => mine.ver = wire[1].ver
      /\ wire' # <<>> => MayFollow(wire'[1], wire[1].ver)
  BY <1>1, <1>2, WireTaken DEF clientVars
<1>6. ASSUME ~astray'
      PROVE  /\ \A w \in Loader : at'[w] # "idle" => w \in early'
             /\ Cached' /\ entry'.text = Expected' /\ vfs' = Expected'
             /\ IF wire' = <<>> THEN entry'.ver <= mine'.ver ELSE MayFollow(wire'[1], entry'.ver)
  <2>1. /\ ~astray /\ ~(entry.ver > wire[1].ver) /\ entry.text = wire[1].to /\ vfs = wire[1].to
    BY <1>1, <1>2, <1>6
  <2>2. entry.ver \in Int /\ wire[1].ver \in Int
    BY <1>1, <1>2, <1>5, CachedType DEF Notification
  <2>3. entry.ver <= wire[1].ver
    BY <2>1, <2>2
  <2>4. UNCHANGED <<entry, vfs, mine, early>>
    BY <1>1 DEF cacheVars, clientVars
  <2>5. CASE wire' = <<>>
    BY <1>1, <1>2, <1>3, <1>5, <2>1, <2>3, <2>4, <2>5 DEF Inv, Mirror, Cached
  <2>6. CASE wire' # <<>>
    <3>1. wire'[1] \in Notification
      BY <1>5, <2>6 DEF WireOrdered
    <3>2. wire'[1].ver \in Int
      BY <3>1 DEF Notification
    <3>3. MayFollow(wire'[1], entry.ver)
      BY <1>5, <2>2, <2>3, <2>6, <3>2 DEF MayFollow
    <3> QED
      BY <1>1, <1>2, <1>3, <1>5, <2>1, <2>4, <2>6, <3>3 DEF Inv, Mirror, Cached
  <2> QED
    BY <2>5, <2>6
<1>7. Mirror'
  BY <1>3, <1>6 DEF Mirror
<1> QED
  BY <1>1, <1>2, <1>3, <1>4, <1>5, <1>7, ServerTypes DEF Inv

LEMMA UpdateOpenedInv ==
  ASSUME Inv, UpdateOpened
  PROVE  Inv'
<1> DEFINE D == Dispatcher
<1>1. /\ D \in Worker /\ Typed /\ WireOrdered
      /\ code \in [Worker -> Text] /\ ver \in [Worker -> 0..(MaxEdits + 1)]
      /\ at \in [Worker -> Places] /\ DocumentTypeOK
      /\ \A w \in Loader : w \in Worker /\ w # D
  BY Workers DEF Inv, Typed, DocumentTypeOK, Places
<1>2. at[D] \in {"update", "vfs", "insert"} /\ Opening
  BY DEF UpdateOpened, UpdateBegin, UpdateVfs, UpdateInsert, Opening
<1>3. /\ wire # <<>> /\ wire[1].kind = "didOpen" /\ wire[1] \in Notification
      /\ code[D] = wire[1].to /\ ver[D] = wire[1].ver
  BY <1>1, <1>2, WireHead DEF Typed, InHand
<1>4. ver[D] # NoVersion /\ ver[D] \in Int
  BY <1>3 DEF Notification, NoVersion
<1>5. UNCHANGED <<clientVars, checkVars, pollVars, historyVars>>
  BY DEF UpdateOpened, UpdateBegin, UpdateVfs, UpdateInsert
<1>6. /\ DocumentTypeOK' /\ AtHand'
      /\ \A v \in Worker : v # D => at'[v] = at[v] /\ code'[v] = code[v] /\ ver'[v] = ver[v]
  BY <1>1, <1>5, CacheStep, HistoryKept, EarlyType DEF UpdateOpened
<1>7. /\ ~astray => /\ \A w \in Loader : at'[w] # "idle" => w \in early'
                    /\ at[D] = "insert" => vfs = code[D]
      /\ astray' = astray
  BY <1>1, <1>2, <1>5, <1>6 DEF Inv, Mirror, historyVars
<1>8. CASE UpdateBegin(D) /\ UNCHANGED wire
  <2>1. /\ Goto(D, "vfs") /\ "vfs" \in Places /\ UNCHANGED <<cacheVars, code>>
        /\ ver' = [ver EXCEPT ![D] = ver[D]]
    BY <1>4, <1>8 DEF UpdateBegin, Places
  <2>2. ver'[D] = ver[D] /\ code'[D] = code[D] /\ at'[D] = "vfs"
    BY <1>1, <2>1, GotoType
  <2>3. InHand' /\ Opening'
    BY <1>3, <1>8, <2>2 DEF InHand, Opening
  <2>4. Mirror'
    BY <1>5, <1>7, <2>1, <2>2, <2>3 DEF Mirror, cacheVars, Cached
  <2> QED
    BY <1>1, <1>5, <1>6, <1>8, <2>3, <2>4, WireKept, ServerTypes DEF Inv, clientVars
<1>9. CASE UpdateVfs(D) /\ UNCHANGED wire
  <2>1. /\ Goto(D, "insert") /\ "insert" \in Places /\ UNCHANGED <<entry, code, ver>>
        /\ vfs' = code[D]
    BY <1>9 DEF UpdateVfs, Places
  <2>2. ver'[D] = ver[D] /\ code'[D] = code[D] /\ at'[D] = "insert"
    BY <1>1, <2>1, GotoType
  <2>3. InHand' /\ Opening'
    BY <1>3, <1>9, <2>2 DEF InHand, Opening
  <2>4. Mirror'
    BY <1>5, <1>7, <2>1, <2>2, <2>3 DEF Mirror, Cached
  <2> QED
    BY <1>1, <1>5, <1>6, <1>9, <2>3, <2>4, WireKept, ServerTypes DEF Inv, clientVars
<1>10. CASE UpdateInsert(D, "check") /\ wire' = Tail(wire)
  <2>1. /\ Goto(D, "check") /\ "check" \in Places /\ UNCHANGED <<vfs, code, ver>>
        /\ entry' = [ver |-> ver[D], text |-> code[D]] /\ at[D] = "insert"
    BY <1>10 DEF UpdateInsert, Places
  <2>2. at'[D] = "check"
    BY <1>1, <2>1, GotoType
  <2>3. InHand' /\ ~Opening'
    BY <2>2 DEF InHand, Opening
  <2>4. /\ WireOrdered' /\ Expected' = wire[1].to
        /\ wire' = <<>> => mine'.ver = wire[1].ver
        /\ wire' # <<>> => MayFollow(wire'[1], wire[1].ver)
    BY <1>1, <1>3, <1>5, <1>10, WireTaken DEF clientVars
  <2>5. Cached' /\ entry'.text = wire[1].to /\ entry'.ver = wire[1].ver
    <3>1. Cached'
      BY <1>6, <2>2, Workers DEF AtHand
    <3> QED
      BY <1>3, <2>1, <3>1
  <2>6. Mirror'
    <3>1. wire[1].ver <= wire[1].ver
      BY <1>3, <1>4
    <3>2. IF wire' = <<>> THEN entry'.ver <= mine'.ver ELSE MayFollow(wire'[1], entry'.ver)
      BY <2>4, <2>5, <3>1
    <3>3. ~astray' => vfs' = wire[1].to /\ \A w \in Loader : at'[w] # "idle" => w \in early'
      BY <1>3, <1>5, <1>7, <2>1
    <3> QED
      BY <2>2, <2>3, <2>4, <2>5, <3>2, <3>3 DEF Mirror
  <2> QED
    BY <1>1, <1>5, <1>6, <2>3, <2>4, <2>6, ServerTypes DEF Inv
<1> QED
  BY <1>8, <1>9, <1>10 DEF UpdateOpened

\* Steps of the dispatcher that neither the cache nor the wire takes part in.
LEMMA CheckInv ==
  ASSUME Inv, CheckStart(Dispatcher) \/ CheckDone \/ Steal \/ Restore
  PROVE  Inv'
<1>1. /\ Dispatcher \in {Dispatcher, Poller} /\ Dispatcher \in Worker /\ Typed /\ Mirror
      /\ WireOrdered /\ AtHand /\ InHand
      /\ module \in {NoModule} \union [ast : Text, hir : Text]
      /\ stolen \in {NoModule} \union [ast : Text, hir : Text]
      /\ seen \in 0..(MaxEdits + 1) /\ latest \in 0..(MaxEdits + 1)
      /\ code \in [Worker -> Text] /\ NoModule \in {NoModule} \union [ast : Text, hir : Text]
      /\ \A w \in Loader : w \in Worker /\ w # Dispatcher
  BY Workers DEF Inv, Typed, DocumentTypeOK
<1>2. UNCHANGED <<cacheVars, ver, clientVars, historyVars, wire, pollVars>>
  BY DEF CheckStart, CheckDone, Steal, Restore
<1>3. ASSUME NEW s \in {"checking", "idle", "restore", "apply"}, Goto(Dispatcher, s), ~Opening,
             s = "checking" => Cached,
             s \in {"restore", "apply"} => wire # <<>> /\ wire[1].kind = "didChange",
             module' \in {NoModule} \union [ast : Text, hir : Text],
             stolen' \in {NoModule} \union [ast : Text, hir : Text],
             code' = code \/ \E t \in Text : code' = [code EXCEPT ![Dispatcher] = t]
      PROVE  Inv'
  <2>1. s \in Places /\ s \notin {"vfs", "insert", "fetch", "check"}
    BY DEF Places
  <2>2. seen' \in 0..(MaxEdits + 1) /\ latest' \in 0..(MaxEdits + 1)
    BY <1>1, <1>2 DEF pollVars
  <2>3. /\ DocumentTypeOK' /\ AtHand' /\ at'[Dispatcher] = s
        /\ \A v \in Worker : v # Dispatcher => at'[v] = at[v]
        /\ WireOrdered' /\ Expected' = Expected
    BY <1>1, <1>2, <1>3, <2>1, <2>2, CheckTypes, HistoryKept
  <2>4. InHand' /\ ~Opening'
    BY <1>2, <1>3, <2>3 DEF InHand, Opening
  <2>5. Mirror'
    <3>1. UNCHANGED <<astray, early, entry, vfs, wire, mine>>
      BY <1>2 DEF cacheVars, clientVars, historyVars
    <3>2. \A w \in Loader : at'[w] = at[w]
      BY <1>1, <2>3
    <3>3. at'[Dispatcher] # "insert"
      BY <2>1, <2>3
    <3> QED
      BY <1>1, <1>3, <2>3, <2>4, <3>1, <3>2, <3>3, MirrorKept
  <2> QED
    BY <1>1, <1>2, <2>3, <2>4, <2>5, ServerTypes DEF Inv
<1>4. CASE CheckStart(Dispatcher)
  <2>1. /\ at[Dispatcher] = "check" /\ Goto(Dispatcher, "checking") /\ module' = NoModule
        /\ UNCHANGED <<stolen, code>>
    BY <1>4 DEF CheckStart
  <2>2. Cached /\ ~Opening
    BY <1>1, <2>1 DEF AtHand, Opening
  <2> QED
    BY <1>1, <1>3, <2>1, <2>2
<1>5. CASE CheckDone
  <2>1. /\ at[Dispatcher] = "checking" /\ Goto(Dispatcher, "idle")
        /\ UNCHANGED <<stolen, code>> /\ Register(Dispatcher)
    BY <1>5 DEF CheckDone
  <2>2. ~Opening /\ module' \in [ast : Text, hir : Text]
    BY <1>1, <2>1, RegisterType DEF Opening
  <2> QED
    BY <1>1, <1>3, <2>1, <2>2
<1>6. CASE Steal
  <2>1. /\ at[Dispatcher] = "idle" /\ Goto(Dispatcher, "restore") /\ Cached
        /\ wire # <<>> /\ Head(wire).kind = "didChange"
        /\ stolen' = module /\ module' = NoModule
        /\ code' = [code EXCEPT ![Dispatcher] = entry.text]
    BY <1>6 DEF Steal, Received, Patchable
  <2>2. ~Opening /\ entry.text \in Text /\ Head(wire) = wire[1]
    BY <1>1, <2>1, CachedType, WireHead DEF Opening
  <2> QED
    BY <1>1, <1>3, <2>1, <2>2
<1>7. CASE Restore
  <2>1. /\ at[Dispatcher] = "restore" /\ Goto(Dispatcher, "apply")
        /\ module' \in {stolen, [ast |-> code[Dispatcher], hir |-> code[Dispatcher]]}
        /\ stolen' = NoModule /\ code' = code
    BY <1>7 DEF Restore
  <2>2. /\ ~Opening /\ wire # <<>> /\ wire[1].kind = "didChange"
    BY <1>1, <2>1 DEF InHand, Opening
  <2>3. module' \in {NoModule} \union [ast : Text, hir : Text]
    BY <1>1, <2>1
  <2> QED
    BY <1>1, <1>3, <2>1, <2>2, <2>3
<1> QED
  BY <1>4, <1>5, <1>6, <1>7

LEMMA DidSaveInv ==
  ASSUME Inv, DidSave
  PROVE  Inv'
<1>1. /\ wire # <<>> /\ Head(wire).kind = "didSave" /\ at[Dispatcher] = "idle" /\ Cached
      /\ wire' = Tail(wire) /\ code' = [code EXCEPT ![Dispatcher] = entry.text]
      /\ UNCHANGED <<cacheVars, ver, clientVars, checkVars, pollVars, historyVars>>
      /\ \E s \in {"idle", "check"} : Goto(Dispatcher, s)
  BY DEF DidSave, Received
<1>2. /\ Dispatcher \in {Dispatcher, Poller} /\ Dispatcher \in Worker /\ Typed /\ Mirror
      /\ WireOrdered /\ module \in {NoModule} \union [ast : Text, hir : Text]
      /\ stolen \in {NoModule} \union [ast : Text, hir : Text]
      /\ seen \in 0..(MaxEdits + 1) /\ latest \in 0..(MaxEdits + 1)
      /\ \A w \in Loader : w \in Worker /\ w # Dispatcher
  BY Workers DEF Inv, Typed, DocumentTypeOK
<1>3. /\ entry.text \in Text /\ entry.ver \in Int /\ Head(wire) = wire[1]
      /\ wire[1] \in Notification /\ wire[1].from = wire[1].to
  <2>1. entry.text \in Text /\ entry.ver \in 1..(MaxEdits + 1)
    BY <1>1, <1>2, CachedType
  <2> QED
    BY <1>1, <1>2, <2>1, WireHead
<1>4. PICK s \in {"idle", "check"} : Goto(Dispatcher, s)
  BY <1>1
<1>5. s \in Places
  BY DEF Places
<1>6. /\ DocumentTypeOK' /\ AtHand' /\ at'[Dispatcher] = s
      /\ \A v \in Worker : v # Dispatcher => at'[v] = at[v]
  BY <1>1, <1>2, <1>3, <1>4, <1>5, CheckTypes, HistoryKept DEF checkVars, pollVars
<1>7. /\ WireOrdered' /\ Expected' = Expected
      /\ wire' = <<>> => mine.ver = wire[1].ver
      /\ wire' # <<>> => MayFollow(wire'[1], wire[1].ver) /\ wire'[1] \in Notification
  <2>1. /\ WireOrdered' /\ Expected = wire[1].from /\ Expected' = wire[1].to
        /\ wire' = <<>> => mine.ver = wire[1].ver
        /\ wire' # <<>> => MayFollow(wire'[1], wire[1].ver)
    BY <1>1, <1>2, WireTaken DEF clientVars
  <2>2. wire' # <<>> => wire'[1] \in Notification
    BY <2>1 DEF WireOrdered
  <2> QED
    BY <1>3, <2>1, <2>2
<1>8. InHand' /\ ~Opening' /\ ~Opening
  BY <1>1, <1>6 DEF InHand, Opening
<1>s. at'[Dispatcher] # "insert"
  BY <1>6
<1>9. Mirror'
  <2>1. ASSUME entry.ver <= wire[1].ver
        PROVE  IF wire' = <<>> THEN entry.ver <= mine.ver ELSE MayFollow(wire'[1], entry.ver)
    <3>1. CASE wire' = <<>>
      BY <1>7, <2>1, <3>1
    <3>2. CASE wire' # <<>>
      <4>1. wire[1].ver \in Int /\ wire'[1].ver \in Int
        BY <1>3, <1>7, <3>2 DEF Notification
      <4> QED
        BY <1>3, <1>7, <2>1, <3>2, <4>1 DEF MayFollow
    <3> QED
      BY <3>1, <3>2
  <2>2. ASSUME ~astray
        PROVE  /\ \A w \in Loader : at[w] # "idle" => w \in early
               /\ Cached /\ entry.text = Expected /\ vfs = Expected /\ entry.ver <= wire[1].ver
    <3>1. MayFollow(wire[1], entry.ver)
      BY <1>1, <1>2, <1>8, <2>2 DEF Mirror
    <3>2. entry.ver <= wire[1].ver
      BY <1>1, <1>3, <3>1 DEF MayFollow
    <3> QED
      BY <1>1, <1>2, <1>8, <2>2, <3>2 DEF Mirror
  <2>3. UNCHANGED <<astray, early, entry, vfs, mine>> /\ \A w \in Loader : at'[w] = at[w]
    BY <1>1, <1>2, <1>6 DEF cacheVars, clientVars, historyVars
  <2> QED
    BY <1>7, <1>8, <2>1, <2>2, <2>3, <1>s DEF Mirror, Cached
<1> QED
  BY <1>1, <1>2, <1>6, <1>7, <1>8, <1>9, ServerTypes DEF Inv

\* An edit reaches the cache.
LEMMA DidChangeInv ==
  ASSUME Inv, DidChange
  PROVE  Inv'
<1>1. /\ IncrementalUpdate(Head(wire)) /\ wire' = Tail(wire) /\ Goto(Dispatcher, "idle")
      /\ astray' = (astray \/ ~Head(wire).ranged)
      /\ UNCHANGED <<clientVars, checkVars, pollVars, early, behind>>
      /\ at[Dispatcher] = "apply" \/ Received("didChange")
  BY DEF DidChange
<1>2. /\ Dispatcher \in Worker /\ Typed /\ Mirror /\ WireOrdered /\ DocumentTypeOK
      /\ \A w \in Loader : w \in Worker /\ w # Dispatcher
  BY Workers DEF Inv, Typed
<1>3. wire # <<>> /\ Head(wire) = wire[1] /\ wire[1] \in Notification /\ ~Opening
  BY <1>1, <1>2, WireHead DEF Received, Typed, InHand, Opening
<1>4. wire[1].kind = "didChange"
  BY <1>1, <1>2, <1>3 DEF Received, Typed, InHand
<1>5. /\ wire[1].to \in Text /\ wire[1].ver \in 1..(MaxEdits + 1) /\ wire[1].ver \in Int
  BY <1>3, EntryCached DEF Notification
<1>6. /\ UNCHANGED <<disk, code, ver>>
      /\ IF Cached /\ entry.ver < wire[1].ver
         THEN /\ entry' = [ver |-> wire[1].ver, text |-> Apply(wire[1], entry.text)]
              /\ vfs' = Apply(wire[1], entry.text)
         ELSE UNCHANGED <<entry, vfs>>
  BY <1>1, <1>3 DEF IncrementalUpdate
<1>7. Cached => Apply(wire[1], entry.text) \in Text
  BY <1>2, <1>5, CachedType, EntryCached DEF Apply, Text, Mess
<1>8. /\ entry' \in {NoEntry} \union Entry /\ vfs' \in {NoEntry} \union Text
      /\ (Cached => Cached') /\ (vfs # NoEntry => vfs' # NoEntry) /\ (Cached' => vfs' # NoEntry)
  <2>1. CASE Cached /\ entry.ver < wire[1].ver
    <3>1. entry' \in Entry /\ vfs' \in Text
      BY <1>5, <1>6, <1>7, <2>1, EntryCached
    <3> QED
      BY <3>1, EntryCached DEF Cached
  <2>2. CASE ~(Cached /\ entry.ver < wire[1].ver)
    <3>1. UNCHANGED <<entry, vfs>>
      BY <1>6, <2>2
    <3> QED
      BY <1>2, <3>1 DEF DocumentTypeOK, Cached
  <2> QED
    BY <2>1, <2>2
<1>9. /\ at' \in [Worker -> Places] /\ at'[Dispatcher] = "idle"
      /\ \A v \in Worker : v # Dispatcher => at'[v] = at[v]
  <2>1. "idle" \in Places
    BY DEF Places
  <2> QED
    BY <1>1, <1>2, <2>1, GotoType
<1>10. DocumentTypeOK'
  <2>1. astray' \in BOOLEAN
    BY <1>1
  <2> QED
    BY <1>1, <1>2, <2>1, <1>6, <1>8, <1>9 DEF DocumentTypeOK, Places, clientVars, checkVars, pollVars, historyVars
<1>11. AtHand'
  BY <1>2, <1>6, <1>8, <1>9, AtHandStep
<1>12. InHand' /\ ~Opening'
  BY <1>9 DEF InHand, Opening
<1>13. /\ WireOrdered' /\ Expected = wire[1].from /\ Expected' = wire[1].to
       /\ wire' = <<>> => mine'.ver = wire[1].ver
       /\ wire' # <<>> => MayFollow(wire'[1], wire[1].ver)
  BY <1>1, <1>2, <1>3, WireTaken DEF clientVars
<1>14. ASSUME ~astray'
       PROVE  /\ \A w \in Loader : at'[w] # "idle" => w \in early'
              /\ Cached' /\ entry'.text = Expected' /\ vfs' = Expected'
              /\ IF wire' = <<>> THEN entry'.ver <= mine'.ver ELSE MayFollow(wire'[1], entry'.ver)
  <2>1. ~astray /\ wire[1].ranged
    BY <1>1, <1>3, <1>14
  <2>2. /\ \A w \in Loader : at[w] # "idle" => w \in early
        /\ Cached /\ entry.text = Expected /\ MayFollow(wire[1], entry.ver)
    BY <1>2, <1>3, <2>1 DEF Mirror
  <2>3. Cached /\ entry.ver < wire[1].ver
    BY <1>4, <2>2 DEF MayFollow
  <2>4. Apply(wire[1], entry.text) = wire[1].to
    BY <1>13, <2>1, <2>2 DEF Apply
  <2>5. entry' = [ver |-> wire[1].ver, text |-> wire[1].to] /\ vfs' = wire[1].to
    BY <1>6, <2>3, <2>4
  <2>6. entry'.text = Expected' /\ vfs' = Expected' /\ entry'.ver = wire[1].ver
    BY <1>13, <2>5
  <2>7. IF wire' = <<>> THEN entry'.ver <= mine'.ver ELSE MayFollow(wire'[1], entry'.ver)
    BY <1>5, <1>13, <2>6
  <2>8. \A w \in Loader : at'[w] # "idle" => w \in early'
    BY <1>1, <1>2, <1>9, <2>2
  <2> QED
    BY <1>8, <2>3, <2>6, <2>7, <2>8
<1>15. Mirror'
  BY <1>9, <1>12, <1>14 DEF Mirror
<1> QED
  BY <1>1, <1>2, <1>10, <1>11, <1>12, <1>13, <1>15, ServerTypes DEF Inv

-----------------------------------------------------------------------------

LEMMA InvInit ==
  Init => Inv
<1>1. Init => Mirror
  BY DEF Init, Mirror
<1> QED
  BY <1>1, TypedInit DEF Inv

LEMMA InvNext ==
  Inv /\ [Next]_vars => Inv'
<1> SUFFICES ASSUME Inv, [Next]_vars PROVE Inv'
  OBVIOUS
<1>1. CASE Open \/ Save \/ Close \/ \E quick, ranged \in BOOLEAN : Edit(quick, ranged)
  BY <1>1, ClientInv
<1>2. CASE Dispatch
  BY <1>2, DidOpenInv, KeepEntryInv, UpdateOpenedInv, CheckInv, DidSaveInv, DidChangeInv
  DEF Dispatch
<1>3. CASE \E w \in Loader : Load(w)
  BY <1>3, LoadInv
<1>4. CASE Poll
  BY <1>4, PollInv
<1>5. CASE UNCHANGED vars
  <2>1. UNCHANGED <<disk, entry, vfs, at, code, ver, open, opens, mine, edits, wire, module,
                    stolen, seen, latest, astray, early, behind>>
    BY <1>5 DEF vars, cacheVars, localVars, clientVars, checkVars, pollVars, historyVars
  <2>2. DocumentTypeOK'
    BY <2>1 DEF Inv, Typed, DocumentTypeOK, Cached
  <2>3. AtHand' /\ InHand' /\ WireOrdered' /\ Expected' = Expected
    BY <2>1, WireKept DEF Inv, Typed, AtHand, InHand, Opening, Cached
  <2>4. Mirror'
    BY <2>1, <2>3, MirrorKept DEF Inv, Opening
  <2> QED
    BY <2>1, <2>2, <2>3, <2>4, ServerTypes DEF Inv, clientVars
<1> QED
  BY <1>1, <1>2, <1>3, <1>4, <1>5 DEF Next

\* What a document is in the cache, the VFS and the threads' hands is of its type,
\* and what is in the cache is in the VFS, whose entry renaming unwraps.
THEOREM DocumentTypeCorrect == Spec => []DocumentTypeOK
<1>1. Inv => DocumentTypeOK
  BY DEF Inv, Typed
<1> QED
  BY <1>1, InvInit, InvNext, PTL DEF Spec

\* However often the document is edited, saved, closed and opened again, whatever is
\* cached at an opening, and however many threads load it: the cache and the VFS have
\* the client's text after every notification, unless an opening found another text
\* or a later version, a load begun before put back what it had read, or an edit came
\* without a range.
THEOREM ServerMirrorsClient == Spec => []MirrorsClient
<1>1. Inv => MirrorsClient
  BY DEF Inv, Mirror, MirrorsClient, Followed
<1> QED
  BY <1>1, InvInit, InvNext, PTL DEF Spec

=============================================================================
