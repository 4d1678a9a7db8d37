-------------------------------- MODULE Wallet --------------------------------
(***************************************************************************)
(* The wallet (wallet.go) and the calls of the control interface that load *)
(* it, save it and list it (control.go, rpc.go), with the status line they *)
(* share with main (combcore.go).  libcomb keeps the wallet's constructs;  *)
(* COMBCore turns them into lines of a wallet file, or into the strings of *)
(* a JSON answer, and back.  Every RPC call runs in a goroutine of its own *)
(* and takes no lock.                                                      *)
(*                                                                         *)
(* libcomb is external.  Its calls are atomic; what it derives (a key's    *)
(* public address, a decider's tips, a segment's root, every ID) it        *)
(* derives again from the fields below, which so stand for the ID.         *)
(***************************************************************************)
EXTENDS Integers, Sequences, SequencesExt, FiniteSetsExt

CONSTANTS
  Callers,      \* the goroutines that serve RPC calls
  Workloads,    \* the assignments of calls to goroutines, for variable calls
  Constructs,   \* the constructs of the users
  Rejected,     \* those among them libcomb answers with an error
  Texts,        \* the wallet texts, sequences of lines, a user may load
  Entries,      \* the JSON entries a user may load
  Word,         \* the 32-byte words (and the 8-byte sums of stacks)
  Zero,         \* the all-zero word
  KeyLen,       \* the words of a private key or a signature (21 in the code)
  BranchLen,    \* the branches of a merkle segment (16 in the code)
  Malformed     \* a string that is not the hex of 32 bytes

ASSUME WalletAssumption ==
  /\ Workloads \subseteq [Callers \cup {"main"} ->
                            SUBSET {"LoadConstruct", "LoadWallet", "SaveWallet",
                                    "GetWallet", "GetCoinHistory", "Status"}]
  /\ Rejected \subseteq Constructs
  /\ KeyLen \in Nat \ {0}
  /\ BranchLen \in Nat \ {0}
  /\ Zero \in Word

(* The lines a user may load.                                              *)
Lines == UNION {Range(t) : t \in Texts}

ASSUME TextAssumption == Texts \subseteq Seq(Lines)

VARIABLES
  calls,       \* calls[p]: the calls goroutine p serves; main sets the status
  loaded,      \* libcomb: the constructs it has loaded
  pc,          \* what each caller does
  text,        \* wallet_load: the lines each caller has still to load
  said,        \* the lines the log calls loaded, since the caller's call
  kinds,       \* the kinds of construct an export or listing has still to do
  want,        \* the constructs it is about
  reply,       \* its lines or entries so far
  before,      \* what was loaded when the call came (history)
  status,      \* COMBInfo.Status: the string's data pointer and its length
  statusLock,  \* COMBInfo.StatusLock
  value, todo  \* the status each goroutine writes, the words left to write

load   == <<text, said>>
export == <<kinds, want, reply, before>>
shared == <<status, statusLock, value, todo>>
vars   == <<calls, loaded, pc, load, export, shared>>

-------------------------------------------------------------------------------
(* The constructs: libcomb's types, whose arrays have these lengths.       *)

Array(n) == [1 .. n -> Word]

Key      == [kind : {"key"}, Private : Array(KeyLen)]
Stack    == [kind : {"stack"}, Change : Word, Destination : Word, Sum : Word]
Transaction == [kind : {"tx"}, Source : Word, Destination : Word,
                Signature : Array(KeyLen)]
Decider  == [kind : {"decider"}, Private : Array(2)]
MerkleSegment == [kind : {"merkle"}, Tips : Array(2), Signature : Array(2),
                  Branches : Array(BranchLen), Leaf : Word, Next : Word]
UnsignedMerkleSegment == [kind : {"unsigned_merkle"}, Tips : Array(2),
                          Next : Word, Root : Word]

ASSUME ConstructAssumption ==
  Constructs \subseteq Key \cup Stack \cup Transaction \cup Decider
                       \cup MerkleSegment \cup UnsignedMerkleSegment

-------------------------------------------------------------------------------
(* Lines of a wallet file.  The prefix names the kind of construct; data   *)
(* is what hex2byte makes of the rest, cut into 32-byte words (a stack's   *)
(* sum is 8 bytes).                                                        *)

Kinds == {"key", "stack", "tx", "decider", "merkle", "unsigned_merkle"}

(* The order wallet_export, wallet_export_history and wallet_stringify     *)
(* visit them in.                                                          *)
KindOrder == <<"key", "stack", "tx", "decider", "merkle", "unsigned_merkle">>

wallet_export_key(k) == k.Private

(* Fault variant: change and destination are swapped.                      *)
wallet_export_stack_swapped(s) == <<s.Destination, s.Change, s.Sum>>

wallet_export_stack(s) == <<s.Change, s.Destination, s.Sum>>

wallet_export_transaction(t) == <<t.Source, t.Destination>> \o t.Signature

(* The first word is the old format's next, always zero.                   *)
wallet_export_decider(d) == <<Zero>> \o d.Private

wallet_export_merkle_segment(m) ==
  m.Tips \o m.Signature \o m.Branches \o <<m.Leaf, m.Next>>

wallet_export_unsigned_merkle_segment(u) == u.Tips \o <<u.Next, u.Root>>

Line(c) ==
  [prefix |-> c.kind,
   data |-> CASE c.kind = "key"     -> wallet_export_key(c)
              [] c.kind = "stack"   -> wallet_export_stack(c)
              [] c.kind = "tx"      -> wallet_export_transaction(c)
              [] c.kind = "decider" -> wallet_export_decider(c)
              [] c.kind = "merkle"  -> wallet_export_merkle_segment(c)
              [] c.kind = "unsigned_merkle" -> wallet_export_unsigned_merkle_segment(c)]

Error == [kind |-> "error"]

wallet_load_key(d) ==
  IF Len(d) # KeyLen THEN Error ELSE [kind |-> "key", Private |-> d]

wallet_load_stack(d) ==
  IF Len(d) # 3 THEN Error
  ELSE [kind |-> "stack", Change |-> d[1], Destination |-> d[2], Sum |-> d[3]]

wallet_load_transaction(d) ==
  IF Len(d) # KeyLen + 2 THEN Error
  ELSE [kind |-> "tx", Source |-> d[1], Destination |-> d[2],
        Signature |-> SubSeq(d, 3, KeyLen + 2)]

(* Three words are the old format, {next, private_1, private_2}.           *)
wallet_load_decider(d) ==
  CASE Len(d) = 3 -> [kind |-> "decider", Private |-> SubSeq(d, 2, 3)]
    [] Len(d) = 2 -> [kind |-> "decider", Private |-> d]
    [] OTHER -> Error

wallet_load_merkle_segment(d) ==
  IF Len(d) # BranchLen + 6 THEN Error
  ELSE [kind |-> "merkle", Tips |-> SubSeq(d, 1, 2), Signature |-> SubSeq(d, 3, 4),
        Branches |-> SubSeq(d, 5, BranchLen + 4),
        Leaf |-> d[BranchLen + 5], Next |-> d[BranchLen + 6]]

wallet_load_unsigned_merkle_segment(d) ==
  IF Len(d) # 4 THEN Error
  ELSE [kind |-> "unsigned_merkle", Tips |-> SubSeq(d, 1, 2), Next |-> d[3], Root |-> d[4]]

Nothing == [kind |-> "nothing"]

(* wallet_load_construct, up to the libcomb call: no prefix that matches   *)
(* means no construct, and no error.  The code tests the prefixes one      *)
(* after the other on what is left of the line; a line with a second       *)
(* prefix behind its first, which nothing writes, is left out.             *)
wallet_load_construct(l) ==
  CASE l.prefix = "key"     -> wallet_load_key(l.data)
    [] l.prefix = "stack"   -> wallet_load_stack(l.data)
    [] l.prefix = "tx"      -> wallet_load_transaction(l.data)
    [] l.prefix = "decider" -> wallet_load_decider(l.data)
    [] l.prefix = "merkle"  -> wallet_load_merkle_segment(l.data)
    [] l.prefix = "unsigned_merkle" -> wallet_load_unsigned_merkle_segment(l.data)
    [] OTHER -> Nothing

(* A line of the users' gives one of their constructs, or an error.        *)
ASSUME LineAssumption ==
  \A l \in Lines : wallet_load_construct(l) \in Constructs \cup {Error, Nothing}

-------------------------------------------------------------------------------
(* Entries of a JSON answer: the fields of a construct as hex strings.     *)

stringify_hex(w) == <<w>>

Strings(ws) == [i \in DOMAIN ws |-> stringify_hex(ws[i])]

(* libcomb: the public address of a private key.                           *)
Public(private) == [of |-> private]

wallet_stringify_key(k) ==
  [Public |-> stringify_hex(Public(k.Private)), Private |-> Strings(k.Private)]

wallet_stringify_stack(s) ==
  [Change |-> stringify_hex(s.Change), Destination |-> stringify_hex(s.Destination),
   Sum |-> s.Sum]

wallet_stringify_transaction(t) ==
  [Source |-> stringify_hex(t.Source), Destination |-> stringify_hex(t.Destination),
   Signature |-> Strings(t.Signature)]

wallet_stringify_decider(d) == [Private |-> Strings(d.Private)]

wallet_stringify_merkle_segment(m) ==
  [Tips |-> Strings(m.Tips), Signature |-> Strings(m.Signature),
   Branches |-> Strings(m.Branches), Leaf |-> stringify_hex(m.Leaf),
   Next |-> stringify_hex(m.Next)]

wallet_stringify_unsigned_merkle_segment(u) ==
  [Tips |-> Strings(u.Tips), Next |-> stringify_hex(u.Next), Root |-> stringify_hex(u.Root)]

Entry(c) ==
  [kind |-> c.kind,
   json |-> CASE c.kind = "key"     -> wallet_stringify_key(c)
              [] c.kind = "stack"   -> wallet_stringify_stack(c)
              [] c.kind = "tx"      -> wallet_stringify_transaction(c)
              [] c.kind = "decider" -> wallet_stringify_decider(c)
              [] c.kind = "merkle"  -> wallet_stringify_merkle_segment(c)
              [] c.kind = "unsigned_merkle" ->
                   wallet_stringify_unsigned_merkle_segment(c)]

parse_hex(s) == s[1]

Words(ss) == [i \in DOMAIN ss |-> parse_hex(ss[i])]

(* The hex of 32 bytes is not malformed.                                   *)
ASSUME HexAssumption ==
  /\ \A w \in Word : stringify_hex(w) # Malformed
  /\ \A c \in Constructs \cap Key : stringify_hex(Public(c.Private)) # Malformed

(* Every string of a sequence is the hex of 32 bytes.                      *)
Parses(ss) == Malformed \notin Range(ss)

(* (libcomb.LoadKey derives the public address again.)                     *)
wallet_parse_key(j) ==
  IF j.Public # Malformed /\ Parses(j.Private)
  THEN [kind |-> "key", Private |-> Words(j.Private)] ELSE Error

wallet_parse_stack(j) ==
  IF Parses(<<j.Destination, j.Change>>)
  THEN [kind |-> "stack", Change |-> parse_hex(j.Change),
        Destination |-> parse_hex(j.Destination), Sum |-> j.Sum]
  ELSE Error

wallet_parse_transaction(j) ==
  IF Parses(<<j.Destination, j.Source>> \o j.Signature)
  THEN [kind |-> "tx", Source |-> parse_hex(j.Source),
        Destination |-> parse_hex(j.Destination), Signature |-> Words(j.Signature)]
  ELSE Error

wallet_parse_decider(j) ==
  IF Parses(j.Private) THEN [kind |-> "decider", Private |-> Words(j.Private)] ELSE Error

wallet_parse_merkle_segment(j) ==
  IF Parses(j.Tips \o j.Signature \o <<j.Leaf, j.Next>> \o j.Branches)
  THEN [kind |-> "merkle", Tips |-> Words(j.Tips), Signature |-> Words(j.Signature),
        Branches |-> Words(j.Branches), Leaf |-> parse_hex(j.Leaf),
        Next |-> parse_hex(j.Next)]
  ELSE Error

wallet_parse_unsigned_merkle_segment(j) ==
  IF Parses(j.Tips \o <<j.Next, j.Root>>)
  THEN [kind |-> "unsigned_merkle", Tips |-> Words(j.Tips),
        Next |-> parse_hex(j.Next), Root |-> parse_hex(j.Root)]
  ELSE Error

Parse(e) ==
  CASE e.kind = "key"     -> wallet_parse_key(e.json)
    [] e.kind = "stack"   -> wallet_parse_stack(e.json)
    [] e.kind = "tx"      -> wallet_parse_transaction(e.json)
    [] e.kind = "decider" -> wallet_parse_decider(e.json)
    [] e.kind = "merkle"  -> wallet_parse_merkle_segment(e.json)
    [] e.kind = "unsigned_merkle" -> wallet_parse_unsigned_merkle_segment(e.json)

-------------------------------------------------------------------------------
(* The status line.  StatusLock is tested first, the string written after; *)
(* a string is two words, and nothing orders the words of two writers.     *)

Main == "main"

combcore_set_status(x, s) ==
  /\ value' = [value EXCEPT ![x] = s]
  /\ todo' = [todo EXCEPT ![x] = IF statusLock THEN {} ELSE {"data", "len"}]

WriteWord(x) ==
  /\ \E w \in todo[x] :
       /\ status' = [status EXCEPT ![w] = value[x]]
       /\ todo' = [todo EXCEPT ![x] = @ \ {w}]
  /\ UNCHANGED <<loaded, pc, load, export, statusLock, value>>

(* main and the btc_sync it runs.                                          *)
MainStatus ==
  /\ "Status" \in calls[Main]
  /\ todo[Main] = {}
  /\ \E s \in {"Idle", "Mining..."} : combcore_set_status(Main, s)
  /\ UNCHANGED <<loaded, pc, load, export, status, statusLock>>

-------------------------------------------------------------------------------
(* Loading.                                                                *)

(* The libcomb call: a construct is loaded or answered with an error.      *)
LibLoad(c) == loaded' = IF c \in Constructs \ Rejected THEN loaded \cup {c} ELSE loaded

(* LoadKey, LoadStack, LoadTransaction, LoadDecider, LoadMerkleSegment and *)
(* LoadUnsignedMerkleSegment.                                              *)
LoadConstruct(p) ==
  /\ "LoadConstruct" \in calls[p]
  /\ pc[p] = "idle"
  /\ \E e \in Entries : LibLoad(Parse(e))
  /\ UNCHANGED <<pc, load, export, shared>>

(* wallet_load: the status, the lock, the lines, the lock, the status.     *)
LoadWallet(p) ==
  /\ "LoadWallet" \in calls[p]
  /\ pc[p] = "idle"
  /\ \E t \in Texts : text' = [text EXCEPT ![p] = t]
  /\ said' = [said EXCEPT ![p] = {}]
  /\ combcore_set_status(p, "Loading Wallet...")
  /\ pc' = [pc EXCEPT ![p] = "lock"]
  /\ UNCHANGED <<loaded, export, status, statusLock>>

LockStatus(p) ==
  /\ pc[p] = "lock"
  /\ todo[p] = {}
  /\ statusLock' = TRUE
  /\ pc' = [pc EXCEPT ![p] = "lines"]
  /\ UNCHANGED <<loaded, load, export, status, value, todo>>

(* Fault variant: the first error returns.                                 *)
LoadLine_returns(p) ==
  /\ pc[p] = "lines"
  /\ text[p] # <<>>
  /\ LET c == wallet_load_construct(Head(text[p]))
     IN  /\ LibLoad(c)
         /\ pc' = [pc EXCEPT ![p] = IF c = Error THEN "idle" ELSE "lines"]
  /\ text' = [text EXCEPT ![p] = Tail(@)]
  /\ UNCHANGED <<said, export, shared>>

(* Fault variant: the error of libcomb is not looked at.                   *)
LoadLine_unheard(p) ==
  /\ pc[p] = "lines"
  /\ text[p] # <<>>
  /\ LET l == Head(text[p])
         c == wallet_load_construct(l)
     IN  /\ LibLoad(c)
         /\ said' = [said EXCEPT ![p] = IF c = Error THEN @ ELSE @ \cup {l}]
  /\ text' = [text EXCEPT ![p] = Tail(@)]
  /\ UNCHANGED <<pc, export, shared>>

(* One line; an error is logged, and the next line follows.                *)
LoadLine(p) ==
  /\ pc[p] = "lines"
  /\ text[p] # <<>>
  /\ LET l == Head(text[p])
         c == wallet_load_construct(l)
     IN  /\ LibLoad(c)
         /\ said' = [said EXCEPT ![p] =
                       IF c = Error \/ c \in Rejected THEN @ ELSE @ \cup {l}]
  /\ text' = [text EXCEPT ![p] = Tail(@)]
  /\ UNCHANGED <<pc, export, shared>>

(* Fault variant: the status is set before the lock is released.           *)
UnlockStatus_late(p) ==
  /\ pc[p] = "lines"
  /\ text[p] = <<>>
  /\ combcore_set_status(p, "Idle")
  /\ statusLock' = FALSE
  /\ pc' = [pc EXCEPT ![p] = "finish"]
  /\ UNCHANGED <<loaded, load, export, status>>

UnlockStatus(p) ==
  /\ pc[p] = "lines"
  /\ text[p] = <<>>
  /\ statusLock' = FALSE
  /\ pc' = [pc EXCEPT ![p] = "unlocked"]
  /\ UNCHANGED <<loaded, load, export, status, value, todo>>

IdleStatus(p) ==
  /\ pc[p] = "unlocked"
  /\ combcore_set_status(p, "Idle")
  /\ pc' = [pc EXCEPT ![p] = "finish"]
  /\ UNCHANGED <<loaded, load, export, status, statusLock>>

(* LoadWallet answers; wallet_load returned nil.                           *)
LoadReturns(p) ==
  /\ pc[p] = "finish"
  /\ todo[p] = {}
  /\ pc' = [pc EXCEPT ![p] = "idle"]
  /\ UNCHANGED <<loaded, load, export, shared>>

-------------------------------------------------------------------------------
(* Saving and listing: one libcomb call per kind.                          *)

(* The call names its filter: everything, or the IDs of a coin's history,  *)
(* which libcomb.GetCoinHistory takes from what is loaded.                 *)
Ask(p) ==
  /\ pc[p] = "idle"
  /\ \E call \in calls[p] \cap {"SaveWallet", "GetWallet", "GetCoinHistory"} :
       /\ pc' = [pc EXCEPT ![p] = call]
       /\ \E w \in IF call = "GetCoinHistory" THEN SUBSET loaded ELSE {Constructs} :
            want' = [want EXCEPT ![p] = w]
  /\ kinds' = [kinds EXCEPT ![p] = KindOrder]
  /\ reply' = [reply EXCEPT ![p] = {}]
  /\ before' = [before EXCEPT ![p] = loaded]
  /\ UNCHANGED <<loaded, load, shared>>

Form(call, c) == IF call = "GetWallet" THEN Entry(c) ELSE Line(c)

(* Fault variant: the first kind is asked for again and the last is not.   *)
AnswerKind_repeats(p) ==
  /\ pc[p] \in {"SaveWallet", "GetWallet", "GetCoinHistory"}
  /\ kinds[p] # <<>>
  /\ LET found == {c \in loaded \cap want[p] : c.kind = Head(kinds[p])}
     IN  reply' = [reply EXCEPT ![p] = @ \cup {Form(pc[p], c) : c \in found}]
  /\ kinds' = [kinds EXCEPT ![p] = Front(@)]
  /\ UNCHANGED <<loaded, pc, load, want, before, shared>>

(* libcomb.GetKeys, GetStacks, ... and the strings made of their answer.   *)
AnswerKind(p) ==
  /\ pc[p] \in {"SaveWallet", "GetWallet", "GetCoinHistory"}
  /\ kinds[p] # <<>>
  /\ LET found == {c \in loaded \cap want[p] : c.kind = Head(kinds[p])}
     IN  reply' = [reply EXCEPT ![p] = @ \cup {Form(pc[p], c) : c \in found}]
  /\ kinds' = [kinds EXCEPT ![p] = Tail(@)]
  /\ UNCHANGED <<loaded, pc, load, want, before, shared>>

Answer(p) ==
  /\ pc[p] \in {"SaveWallet", "GetWallet", "GetCoinHistory"}
  /\ kinds[p] = <<>>
  /\ pc' = [pc EXCEPT ![p] = "idle"]
  /\ reply' = [reply EXCEPT ![p] = {}]
  /\ want' = [want EXCEPT ![p] = {}]
  /\ before' = [before EXCEPT ![p] = {}]
  /\ UNCHANGED <<loaded, load, kinds, shared>>

-------------------------------------------------------------------------------
Init ==
  /\ calls \in Workloads
  /\ loaded = {}
  /\ pc = [p \in Callers |-> "idle"]
  /\ text = [p \in Callers |-> <<>>]
  /\ said = [p \in Callers |-> {}]
  /\ kinds = [p \in Callers |-> <<>>]
  /\ want = [p \in Callers |-> {}]
  /\ reply = [p \in Callers |-> {}]
  /\ before = [p \in Callers |-> {}]
  /\ status = [w \in {"data", "len"} |-> "Idle"]
  /\ statusLock = FALSE
  /\ value = [x \in Callers \cup {Main} |-> "Idle"]
  /\ todo = [x \in Callers \cup {Main} |-> {}]

(* The steps a goroutine takes once its call has come.                     *)
Serve(p) ==
  /\ \/ LockStatus(p) \/ LoadLine(p) \/ UnlockStatus(p) \/ IdleStatus(p)
     \/ LoadReturns(p) \/ AnswerKind(p) \/ Answer(p)
     \/ WriteWord(p)
  /\ UNCHANGED calls

(* A call comes.                                                           *)
Call(p) == (LoadConstruct(p) \/ LoadWallet(p) \/ Ask(p)) /\ UNCHANGED calls

StatusOfMain == (MainStatus \/ WriteWord(Main)) /\ UNCHANGED calls

Next == (\E p \in Callers : Call(p) \/ Serve(p)) \/ StatusOfMain

Spec == Init /\ [][Next]_vars

(* No call waits for another, and goroutines are scheduled.                *)
FairSpec == Spec /\ \A p \in Callers : WF_vars(Serve(p))

-------------------------------------------------------------------------------
(* Properties.                                                             *)

Statuses == {"Idle", "Mining...", "Loading Wallet..."}

(* Every variable has its type; what is loaded, libcomb accepts.           *)
TypeOK ==
  /\ loaded \subseteq Constructs \ Rejected
  /\ pc \in [Callers -> {"idle", "lock", "lines", "unlocked", "finish",
                         "SaveWallet", "GetWallet", "GetCoinHistory"}]
  /\ text \in [Callers -> Seq(Lines)]
  /\ said \in [Callers -> SUBSET Lines]
  /\ kinds \in [Callers -> {SubSeq(KindOrder, k, 6) : k \in 1 .. 7}]
  /\ want \in [Callers -> SUBSET Constructs]
  /\ before \in [Callers -> SUBSET loaded]
  /\ DOMAIN reply = Callers
  /\ status \in [{"data", "len"} -> Statuses]
  /\ statusLock \in BOOLEAN
  /\ value \in [Callers \cup {Main} -> Statuses]
  /\ todo \in [Callers \cup {Main} -> SUBSET {"data", "len"}]

(* What a user gets back by loading an answer again: the file of           *)
(* SaveWallet and GetCoinHistory with LoadWallet, the entries of GetWallet *)
(* with LoadKey, LoadStack and so on.                                      *)
Restored(p) ==
  IF pc[p] = "GetWallet" THEN {Parse(e) : e \in reply[p]}
  ELSE {wallet_load_construct(l) : l \in reply[p]}

(* A saved or listed wallet misses nothing that was loaded when the call   *)
(* came and invents nothing, whatever is loaded while it is put together,  *)
(* and every line and entry of it restores the construct it was made from. *)
AnswersRestore ==
  \A p \in Callers :
    pc[p] \in {"SaveWallet", "GetWallet", "GetCoinHistory"} /\ kinds[p] = <<>> =>
      /\ before[p] \cap want[p] \subseteq Restored(p)
      /\ Restored(p) \subseteq loaded \cap want[p]

(* While no wallet is being loaded, the status line does not show that one *)
(* is, not in one word of it, however loads, their two accesses to the     *)
(* status and main's own overlap (wallet_load, combcore_set_status).       *)
StatusForgetsLoad ==
  (\A p \in Callers : pc[p] \notin {"lock", "lines", "unlocked", "finish"}) =>
    \A w \in {"data", "len"} : status[w] # "Loading Wallet..."

(* The status line is never locked for good: a bad line, or another load   *)
(* that locks it meanwhile, does not leave it locked (wallet_load).        *)
StatusUnlocked == statusLock ~> ~statusLock

(* The user hears of every line that did not load: a line the log calls    *)
(* loaded has given libcomb its construct, whatever lines before it failed *)
(* and whatever else is loaded meanwhile (wallet_load).  A line that has   *)
(* none of the network's prefixes is the exception: it is neither loaded   *)
(* nor an error, and logged as loaded.                                     *)
LoggedIsLoaded ==
  \A p \in Callers : \A l \in said[p] :
    l.prefix \in Kinds => wallet_load_construct(l) \in loaded

-------------------------------------------------------------------------------
(* The inductive invariant behind these properties.                        *)

(* A goroutine that has still to write that a wallet is being loaded is    *)
(* about to lock the status; a locked status has a goroutine that will     *)
(* unlock it; and of the goroutines loading a wallet, the last one writes  *)
(* over every word of that status.                                         *)
StatusInv ==
  /\ \A x \in Callers \cup {Main} :
       value[x] = "Loading Wallet..." /\ todo[x] # {} => x \in Callers /\ pc[x] = "lock"
  /\ statusLock => \E q \in Callers : pc[q] = "lines"
  /\ \A w \in {"data", "len"} : status[w] = "Loading Wallet..." =>
       \E q \in Callers : \/ pc[q] \in {"lock", "lines", "unlocked"}
                          \/ pc[q] = "finish" /\ w \in todo[q]

(* An answer is made of loaded constructs it is asked for, and has all the *)
(* earlier ones of the kinds already done.                                 *)
AnswerInv ==
  \A p \in Callers : pc[p] \in {"SaveWallet", "GetWallet", "GetCoinHistory"} =>
    /\ \A r \in reply[p] : \E c \in loaded \cap want[p] : r = Form(pc[p], c)
    /\ \A c \in before[p] \cap want[p] :
         c.kind \in Range(kinds[p]) \/ Form(pc[p], c) \in reply[p]

Inv == TypeOK /\ StatusInv /\ AnswerInv /\ LoggedIsLoaded

===============================================================================
