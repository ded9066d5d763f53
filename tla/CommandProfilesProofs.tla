------------------------ MODULE CommandProfilesProofs ------------------------
(***************************************************************************)
(* Proofs about the command profiles: whatever the file holds and however   *)
(* often it is edited, a process that is up sends what it validated, and    *)
(* takes it from one file.                                                  *)
(***************************************************************************)
EXTENDS CommandProfiles, SequenceTheorems, FiniteSetTheorems, TLAPS

-----------------------------------------------------------------------------
(* What DedupeKeepOrder computes                                            *)

\* Induction over the naturals, for a property given as the set of the numbers
\* that have it.
LEMMA SetInduction ==
  ASSUME NEW S, 0 \in S, \A n \in Nat : n \in S => n + 1 \in S
  PROVE  Nat \subseteq S
<1>1. SUFFICES ASSUME Nat \ S # {} PROVE FALSE
  OBVIOUS
<1>2. PICK x \in Nat \ S : \A y \in Nat \ S : ~(<<y, x>> \in OpToRel(<, Nat))
  BY <1>1, NatLessThanWellFounded, WFMin
<1>3. x \in Nat /\ x # 0 /\ x - 1 \in Nat
  BY x \in Nat \ S
<1>4. x - 1 \in Nat \ S
  <2>1. CASE x - 1 \in S
    <3>1. (x - 1) + 1 \in S BY <1>3, <2>1
    <3> QED BY <1>3, <3>1
  <2> QED BY <1>3, <2>1
<1>5. <<x - 1, x>> \in OpToRel(<, Nat)
  <2>1. <<x - 1, x>> \in Nat \X Nat /\ x - 1 < x
    BY <1>3
  <2> QED BY <2>1 DEF OpToRel
<1> QED
  BY <1>2, <1>4, <1>5

\* One more command of the list.
Keep(kept, c) == IF c \in Range(kept) THEN kept ELSE Append(kept, c)

\* The recursive function inside the fold: what is kept of each set of positions.
IsFold(f, list, n) ==
    f = [s \in SUBSET (1 .. n) |->
            IF s = {} THEN <<>> ELSE Keep(f[s \ {Max(s)}], list[Max(s)])]

\* The last of the positions up to n.
LEMMA LastPosition ==
  ASSUME NEW n \in Nat, NEW s \in SUBSET (1 .. n + 1), n + 1 \in s
  PROVE  Max(s) = n + 1
<1>1. \A y \in s : y <= n + 1 /\ y \in Int
  OBVIOUS
<1>2. \E x \in s : \A y \in s : x >= y
  BY <1>1
<1>3. Max(s) \in s /\ \A y \in s : Max(s) >= y
  BY <1>2 DEF Max
<1>4. Max(s) <= n + 1 /\ Max(s) >= n + 1 /\ Max(s) \in Int
  BY <1>1, <1>3
<1> QED
  BY <1>4

\* It exists.
LEMMA FoldExists ==
  ASSUME NEW list, NEW N \in Nat
  PROVE  \E f : IsFold(f, list, N)
<1> DEFINE T == {n \in Nat : \E f : IsFold(f, list, n)}
<1>1. 0 \in T
  <2> DEFINE f == [s \in SUBSET (1 .. 0) |-> <<>>]
  <2>1. \A s \in SUBSET (1 .. 0) : s = {}
    OBVIOUS
  <2>2. IsFold(f, list, 0)
    BY <2>1 DEF IsFold
  <2> QED BY <2>2
<1>2. ASSUME NEW n \in Nat, n \in T PROVE n + 1 \in T
  <2>1. PICK f : IsFold(f, list, n)
    BY <1>2
  <2> DEFINE h == [s \in SUBSET (1 .. n + 1) |->
                      IF n + 1 \in s THEN Keep(f[s \ {n + 1}], list[n + 1]) ELSE f[s]]
  <2>2. ASSUME NEW s \in SUBSET (1 .. n + 1)
        PROVE  h[s] = IF s = {} THEN <<>> ELSE Keep(h[s \ {Max(s)}], list[Max(s)])
    <3>1. CASE n + 1 \in s
      <4>1. Max(s) = n + 1 /\ s # {}
        BY <3>1, LastPosition
      <4>2. s \ {n + 1} \in SUBSET (1 .. n + 1) /\ n + 1 \notin s \ {n + 1}
        OBVIOUS
      <4>3. h[s \ {n + 1}] = f[s \ {n + 1}]
        BY <4>2
      <4>4. h[s] = Keep(f[s \ {n + 1}], list[n + 1])
        BY <3>1
      <4> HIDE DEF h
      <4> QED BY <4>1, <4>3, <4>4
    <3>2. CASE n + 1 \notin s
      <4>1. s \in SUBSET (1 .. n)
        BY <3>2
      <4>2. h[s] = f[s]
        BY <3>2
      <4>3. s \ {Max(s)} \in SUBSET (1 .. n) /\ s \ {Max(s)} \in SUBSET (1 .. n + 1)
            /\ n + 1 \notin s \ {Max(s)}
        BY <3>2, <4>1
      <4>4. h[s \ {Max(s)}] = f[s \ {Max(s)}]
        BY <4>3
      <4>5. f[s] = IF s = {} THEN <<>> ELSE Keep(f[s \ {Max(s)}], list[Max(s)])
        BY <2>1, <4>1 DEF IsFold
      <4> HIDE DEF h
      <4> QED BY <4>2, <4>4, <4>5
    <3> QED BY <3>1, <3>2
  <2>3. h = [s \in SUBSET (1 .. n + 1) |-> h[s]]
    OBVIOUS
  <2> HIDE DEF h
  <2>4. IsFold(h, list, n + 1)
    BY <2>2, <2>3 DEF IsFold
  <2> QED BY <2>4
<1> HIDE DEF T
<1>3. N \in T
  BY <1>1, <1>2, SetInduction
<1> QED
  BY <1>3 DEF T

\* What is kept is what the list holds, each command once, where the list first
\* has it.
LEMMA Deduped ==
  ASSUME NEW S, NEW list \in Seq(S)
  PROVE  LET kept == DedupeKeepOrder(list) IN
         /\ kept \in Seq(S) /\ InOrderOf(kept, list)
         /\ \A i, j \in DOMAIN kept : kept[i] = kept[j] => i = j
<1> DEFINE N == Len(list)
           F == CHOOSE f : IsFold(f, list, N)
           kept(n) == F[1 .. n]
           Once(seq) == \A i, j \in DOMAIN seq : seq[i] = seq[j] => i = j
           First(seq, n) == \A i, j \in DOMAIN seq : i < j =>
                               \E p \in 1 .. n :
                                   /\ list[p] = seq[i]
                                   /\ \A q \in 1 .. n : list[q] = seq[j] => p < q
<1>1. N \in Nat /\ DOMAIN list = 1 .. N /\ \A i \in 1 .. N : list[i] \in S
  BY ElementOfSeq
<1>2. DedupeKeepOrder(list) = kept(N)
  BY <1>1 DEF DedupeKeepOrder, FoldLeft, MapThenFoldSet, IsFold, Keep
<1>3. IsFold(F, list, N)
  <2> HIDE DEF N
  <2> QED BY <1>1, FoldExists
<1> HIDE DEF F, N
<1>4. kept(0) = <<>>
  <2>1. 1 .. 0 = {} /\ 1 .. 0 \in SUBSET (1 .. N)
    OBVIOUS
  <2> QED BY <1>3, <2>1 DEF IsFold
<1>5. ASSUME NEW n \in Nat, n + 1 <= N PROVE kept(n + 1) = Keep(kept(n), list[n + 1])
  <2> DEFINE s == 1 .. n + 1
  <2>1. s \in SUBSET (1 .. n + 1) /\ n + 1 \in s /\ s # {} /\ s \in SUBSET (1 .. N)
    BY <1>1, <1>5
  <2>2. Max(s) = n + 1
    BY <2>1, LastPosition
  <2>3. s \ {n + 1} = 1 .. n
    OBVIOUS
  <2>4. F[s] = IF s = {} THEN <<>> ELSE Keep(F[s \ {Max(s)}], list[Max(s)])
    BY <1>3, <2>1 DEF IsFold
  <2> QED BY <2>1, <2>2, <2>3, <2>4
<1> HIDE DEF kept
<1> DEFINE Good(n) == /\ kept(n) \in Seq(S)
                      /\ Range(kept(n)) = {list[i] : i \in 1 .. n}
                      /\ Once(kept(n)) /\ First(kept(n), n)
           T == {n \in Nat : n <= N => Good(n)}
<1>6. 0 \in T
  <2>0. <<>> \in Seq(S) /\ DOMAIN <<>> = {} /\ 1 .. 0 = {}
    BY EmptySeq
  <2>1. kept(0) \in Seq(S) /\ DOMAIN kept(0) = {} /\ 1 .. 0 = {}
    BY <1>4, <2>0
  <2> QED BY <2>1 DEF Range
<1>7. ASSUME NEW n \in Nat, n \in T PROVE n + 1 \in T
  <2>1. SUFFICES ASSUME n + 1 <= N PROVE Good(n + 1)
    OBVIOUS
  <2>2. Good(n) /\ n + 1 \in 1 .. N
    BY <1>1, <1>7, <2>1
  <2> DEFINE k == kept(n)
             c == list[n + 1]
  <2>3. kept(n + 1) = Keep(k, c) /\ c \in S
    BY <1>1, <1>5, <2>1, <2>2
  <2>4. {list[i] : i \in 1 .. n + 1} = Range(k) \cup {c}
    <3>1. 1 .. n + 1 = (1 .. n) \cup {n + 1}
      OBVIOUS
    <3> QED BY <2>2, <3>1
  <2>5. k \in Seq(S) /\ Once(k) /\ First(k, n) /\ Range(k) = {list[i] : i \in 1 .. n}
    BY <2>2
  <2>5a. list[n + 1] = c
    OBVIOUS
  <2> HIDE DEF k, c
  <2>5b. ASSUME NEW i \in DOMAIN k, NEW j \in DOMAIN k, i < j
         PROVE  \E p \in 1 .. n + 1 :
                    /\ list[p] = k[i]
                    /\ \A q \in 1 .. n + 1 : list[q] = k[j] => p < q
    <3>1. PICK p \in 1 .. n : list[p] = k[i] /\ \A q \in 1 .. n : list[q] = k[j] => p < q
      BY <2>5, <2>5b
    <3>2. p \in 1 .. n + 1 /\ p < n + 1
      OBVIOUS
    <3>3. \A q \in 1 .. n + 1 : q \in 1 .. n \/ q = n + 1
      OBVIOUS
    <3> QED BY <3>1, <3>2, <3>3
  <2>6. CASE c \in Range(k)
    <3>1. kept(n + 1) = k
      BY <2>3, <2>6 DEF Keep
    <3>2. First(k, n + 1)
      BY <2>5b
    <3> HIDE DEF First, Once
    <3> QED BY <2>4, <2>5, <2>6, <3>1, <3>2
  <2>7. CASE c \notin Range(k)
    <3> DEFINE new == Append(k, c)
    <3>1. /\ new \in Seq(S) /\ Len(k) \in Nat
          /\ DOMAIN k = 1 .. Len(k) /\ DOMAIN new = 1 .. Len(k) + 1
          /\ \A i \in 1 .. Len(k) : new[i] = k[i]
          /\ new[Len(k) + 1] = c
      BY <2>3, <2>5
    <3> HIDE DEF new
    <3>2. Range(new) = Range(k) \cup {c}
      BY <3>1 DEF Range
    <3>3. Once(new)
      <4>1. \A i \in 1 .. Len(k) : new[i] # c
        BY <2>7, <3>1 DEF Range
      <4> QED BY <2>5, <3>1, <4>1
    <3>4. kept(n + 1) = new
      BY <2>3, <2>7 DEF Keep, new
    <3>5. First(new, n + 1)
      <4> SUFFICES ASSUME NEW i \in DOMAIN new, NEW j \in DOMAIN new, i < j
                   PROVE  \E p \in 1 .. n + 1 :
                              /\ list[p] = new[i]
                              /\ \A q \in 1 .. n + 1 : list[q] = new[j] => p < q
        OBVIOUS
      <4>1. i \in DOMAIN k /\ new[i] = k[i] /\ (j \in DOMAIN k \/ j = Len(k) + 1)
        BY <3>1
      <4>2. CASE j \in DOMAIN k
        BY <2>5b, <3>1, <4>1, <4>2
      <4>3. CASE j = Len(k) + 1
        <5>1. k[i] \in Range(k)
          BY <4>1 DEF Range
        <5>2. PICK p \in 1 .. n : list[p] = k[i]
          BY <2>5, <5>1
        <5>3. p \in 1 .. n + 1 /\ p < n + 1
          OBVIOUS
        <5>4. ASSUME NEW q \in 1 .. n + 1, list[q] = c PROVE q = n + 1
          <6>1. q \notin 1 .. n
            BY <2>5, <2>7, <5>4
          <6> QED BY <6>1
        <5> QED BY <3>1, <4>1, <4>3, <5>2, <5>3, <5>4
      <4> QED BY <4>1, <4>2, <4>3
    <3> HIDE DEF First, Once
    <3> QED BY <2>4, <3>1, <3>2, <3>3, <3>4, <3>5
  <2> QED BY <2>6, <2>7
<1>8. Good(N)
  <2> HIDE DEF T
  <2>1. N \in T
    BY <1>1, <1>6, <1>7, SetInduction
  <2> QED BY <1>1, <2>1 DEF T
<1>9. Range(list) = {list[i] : i \in 1 .. N}
  BY <1>1 DEF Range
<1>10. InOrderOf(kept(N), list)
  BY <1>1, <1>8, <1>9 DEF InOrderOf
<1> QED
  BY <1>2, <1>8, <1>10
-----------------------------------------------------------------------------
(* The invariant                                                            *)

\* The lists of the file are of commands, whether they may be sent or not.
FileInv ==
    /\ DOMAIN file.profiles \subseteq FileKeys
    /\ \A k \in DOMAIN file.profiles : file.profiles[k] \in Seq(Commands)
    /\ file.default \in Seq(Commands)

\* A list that may be sent.
Sendable(list) ==
    "bad" \notin Range(list) /\ \A i, j \in DOMAIN list : list[i] = list[j] => i = j

\* What a process that is up sends.
ActiveInv ==
    pc = "up" =>
        /\ \A m \in DOMAIN active.profiles : Sendable(active.profiles[m])
        /\ Sendable(active.default)

Inv == FileInv /\ ActiveInv

\* The lists of the module are sequences.
LEMMA ListsAre == \A list \in Lists : list \in Seq(Commands)
  BY CommandProfilesAssumption, SeqDef DEF Lists, BoundedSeq, SeqOf

\* The lists that are built in.
LEMMA BuiltInLists ==
  LET two == <<"show version", "built-in">>
      one == <<"show version">>
  IN  /\ Range(two) = {"show version", "built-in"} /\ Range(one) = {"show version"}
      /\ Sendable(two) /\ Sendable(one)
<1> DEFINE two == <<"show version", "built-in">>
           one == <<"show version">>
<1>1. DOMAIN two = {1, 2} /\ two[1] = "show version" /\ two[2] = "built-in"
  OBVIOUS
<1>2. DOMAIN one = {1} /\ one[1] = "show version"
  OBVIOUS
<1> HIDE DEF two, one
<1>3. Range(two) = {"show version", "built-in"} /\ Range(one) = {"show version"}
  BY <1>1, <1>2 DEF Range
<1>4. Sendable(two)
  BY <1>1, <1>3 DEF Sendable
<1>5. Sendable(one)
  BY <1>2, <1>3 DEF Sendable
<1> QED
  BY <1>3, <1>4, <1>5 DEF two, one

\* The built-in commands may be sent.
LEMMA BuiltInSendable ==
  /\ \A m \in DOMAIN BuiltIn.profiles : Sendable(BuiltIn.profiles[m])
  /\ Sendable(BuiltIn.default)
  BY BuiltInLists DEF BuiltIn

\* What a valid list becomes may be sent, and has the list's commands in its order.
LEMMA ListSendable ==
  ASSUME NEW list \in Seq(Commands), ValidList(list)
  PROVE  Sendable(DedupeKeepOrder(list)) /\ InOrderOf(DedupeKeepOrder(list), list)
<1>1. /\ InOrderOf(DedupeKeepOrder(list), list)
      /\ \A i, j \in DOMAIN DedupeKeepOrder(list) :
            DedupeKeepOrder(list)[i] = DedupeKeepOrder(list)[j] => i = j
  BY Deduped
<1>2. Range(DedupeKeepOrder(list)) = Range(list)
  BY <1>1 DEF InOrderOf
<1> QED
  BY <1>1, <1>2 DEF Sendable, ValidList

\* What a valid file becomes: its lists may be sent, each is one that the file has
\* for the model, and the aliases are the file's.
LEMMA ParsedSendable ==
  ASSUME FileInv, Valid(file), NEW new \in Parsed(file)
  PROVE  /\ DOMAIN new.profiles = {Normalize(k) : k \in DOMAIN file.profiles}
         /\ \A m \in DOMAIN new.profiles :
               /\ Sendable(new.profiles[m])
               /\ \E k \in DOMAIN file.profiles :
                     Normalize(k) = m /\ InOrderOf(new.profiles[m], file.profiles[k])
         /\ Sendable(new.default) /\ InOrderOf(new.default, file.default)
         /\ new.aliases = [m \in DOMAIN file.aliases |-> Normalize(file.aliases[m])]
<1> DEFINE models == {Normalize(k) : k \in DOMAIN file.profiles}
           aliases == [m \in DOMAIN file.aliases |-> Normalize(file.aliases[m])]
<1>1. PICK c \in [models -> DOMAIN file.profiles] :
        /\ \A m \in models : Normalize(c[m]) = m
        /\ new = [profiles |-> [m \in models |-> DedupeKeepOrder(file.profiles[c[m]])],
                  default |-> DedupeKeepOrder(file.default),
                  aliases |-> aliases]
  BY DEF Parsed
<1> HIDE DEF models, aliases
<1>2. ASSUME NEW m \in models
      PROVE  /\ Sendable(DedupeKeepOrder(file.profiles[c[m]]))
             /\ \E k \in DOMAIN file.profiles :
                   /\ Normalize(k) = m
                   /\ InOrderOf(DedupeKeepOrder(file.profiles[c[m]]), file.profiles[k])
  <2>1. c[m] \in DOMAIN file.profiles /\ Normalize(c[m]) = m
    BY <1>1
  <2>2. file.profiles[c[m]] \in Seq(Commands) /\ ValidList(file.profiles[c[m]])
    BY <2>1 DEF FileInv, Valid
  <2> QED BY <2>1, <2>2, ListSendable
<1>3. /\ Sendable(DedupeKeepOrder(file.default))
      /\ InOrderOf(DedupeKeepOrder(file.default), file.default)
  BY ListSendable DEF FileInv, Valid
<1> QED
  BY <1>1, <1>2, <1>3 DEF models, aliases

\* An edit keeps the lists.
LEMMA EditKeeps ==
  ASSUME FileInv, EditFile
  PROVE  FileInv'
<1>1. DOMAIN NoFile.profiles = {} /\ NoFile.default \in Seq(Commands)
  BY EmptySeq DEF NoFile, NoEntry
<1>2. CASE file' = NoFile
  BY <1>1, <1>2 DEF FileInv
<1>3. ASSUME NEW shaped \in BOOLEAN, file' = [NoFile EXCEPT !.exists = TRUE, !.shaped = shaped]
      PROVE  FileInv'
  <2>1. file'.profiles = NoFile.profiles /\ file'.default = NoFile.default
    BY <1>3 DEF NoFile
  <2> QED BY <1>1, <2>1 DEF FileInv
<1>4. ASSUME NEW k \in FileKeys, NEW list \in Lists,
             file' = [file EXCEPT !.profiles = With(@, k, list)]
      PROVE  FileInv'
  BY <1>4, ListsAre DEF FileInv, With
<1>5. ASSUME NEW list \in Lists, file' = [file EXCEPT !.default = list]
      PROVE  FileInv'
  BY <1>5, ListsAre DEF FileInv
<1>6. ASSUME NEW k \in FileKeys, file' = [file EXCEPT !.aliases = With(@, "unknown", k)]
      PROVE  FileInv'
  BY <1>6 DEF FileInv
<1> QED
  BY <1>2, <1>3, <1>4, <1>5, <1>6 DEF EditFile

\* A process that comes up.
LEMMA StartKeeps ==
  ASSUME Inv, Start
  PROVE  Inv'
<1>1. file' = file
  BY DEF Start
<1>2. FileInv'
  BY <1>1 DEF Inv, FileInv
<1>3. ASSUME active' = BuiltIn PROVE ActiveInv'
  BY <1>3, BuiltInSendable DEF ActiveInv
<1>4. ASSUME Valid(file), NEW new \in Parsed(file), active' = new PROVE ActiveInv'
  BY <1>4, ParsedSendable DEF ActiveInv, Inv
<1>5. ASSUME pc' = "refused" PROVE ActiveInv'
  BY <1>5 DEF ActiveInv
<1> QED
  BY <1>2, <1>3, <1>4, <1>5 DEF Start, Replace, Inv

\* A process that is down, with no file, satisfies the invariant; every edit of the
\* file, start and stop keeps it.
LEMMA InvHolds == ProfileSpec => []Inv
<1>1. ProfileInit => Inv
  BY EmptySeq DEF ProfileInit, Inv, FileInv, ActiveInv, NoFile, NoEntry
<1>2. Inv /\ [ProfileNext]_profileVars => Inv'
  <2> SUFFICES ASSUME Inv, [ProfileNext]_profileVars PROVE Inv'
    OBVIOUS
  <2>1. CASE EditFile
    <3>1. UNCHANGED <<pc, active>>
      BY <2>1 DEF EditFile
    <3> QED BY <2>1, <3>1, EditKeeps DEF Inv, ActiveInv
  <2>2. CASE Start
    BY <2>2, StartKeeps
  <2>3. CASE Stop
    BY <2>3 DEF Stop, Inv, FileInv, ActiveInv
  <2>4. CASE UNCHANGED profileVars
    BY <2>4 DEF profileVars, Inv, FileInv, ActiveInv
  <2> QED BY <2>1, <2>2, <2>3, <2>4 DEF ProfileNext
<1> QED
  BY <1>1, <1>2, PTL DEF ProfileSpec
-----------------------------------------------------------------------------
(* The properties                                                           *)

\* FailClosed: a process that is up sends no command that validation forbids, and
\* none twice, whatever lists the file holds (_load_override_profiles,
\* _dedupe_keep_order).
THEOREM OnlyValidated == ProfileSpec => []FailClosed
<1>1. Inv => FailClosed
  BY DEF Inv, ActiveInv, Sendable, ValidList, FailClosed, CommandsForModel
<1> QED
  BY <1>1, InvHolds, PTL

\* ReplacedEntirely: with a file, a process that comes up resolves every model by the
\* aliases that the file has now, and sends it, in order, the commands of the list
\* that the file has now for what that gives, or of its default list; without one,
\* everything is built in (validate_command_profile_config).
THEOREM OneSource == ProfileSpec => ReplacedEntirely
<1>1. ASSUME Inv, ProfileNext, pc = "down", pc' = "up" PROVE OfThisFile'
  <2>1. Start /\ file' = file
    BY <1>1 DEF ProfileNext, EditFile, Start, Stop
  <2>2. CASE file.exists
    <3>1. Valid(file) /\ active' \in Parsed(file)
      BY <1>1, <2>1, <2>2 DEF Start, Replace
    <3> DEFINE resolved(m) == IF m \in DOMAIN active'.aliases THEN active'.aliases[m] ELSE m
               lists(m) == LET keys == {k \in DOMAIN file.profiles : Normalize(k) = m} IN
                           IF keys = {} THEN {file.default} ELSE {file.profiles[k] : k \in keys}
               sent(m) == IF m \in DOMAIN active'.profiles
                          THEN active'.profiles[m] ELSE active'.default
    <3>2. /\ DOMAIN active'.profiles = {Normalize(k) : k \in DOMAIN file.profiles}
          /\ \A m \in DOMAIN active'.profiles :
                \E k \in DOMAIN file.profiles :
                   Normalize(k) = m /\ InOrderOf(active'.profiles[m], file.profiles[k])
          /\ InOrderOf(active'.default, file.default)
          /\ active'.aliases = [m \in DOMAIN file.aliases |-> Normalize(file.aliases[m])]
      BY <1>1, <3>1, ParsedSendable DEF Inv
    <3>3. ASSUME NEW m
          PROVE  /\ resolved(m) = IF m \in DOMAIN file.aliases THEN Normalize(file.aliases[m]) ELSE m
                 /\ \E list \in lists(m) : InOrderOf(sent(m), list)
      <4>1. CASE m \in DOMAIN active'.profiles
        BY <3>2, <4>1
      <4>2. CASE m \notin DOMAIN active'.profiles
        BY <3>2, <4>2
      <4> QED BY <3>2, <4>1, <4>2
    <3>4. ASSUME NEW m \in Models
          PROVE  /\ Resolve(m)' = IF m \in DOMAIN file'.aliases THEN Normalize(file'.aliases[m]) ELSE m
                 /\ \E list \in ListsOf(Resolve(m))' : InOrderOf(CommandsForModel(m)', list)
      <4>1. Resolve(m)' = resolved(m) /\ CommandsForModel(m)' = sent(resolved(m))
        BY DEF Resolve, CommandsForModel
      <4>2. ListsOf(Resolve(m))' = lists(resolved(m))
        BY <2>1, <4>1 DEF ListsOf
      <4> HIDE DEF resolved, lists, sent
      <4>3. \E list \in lists(resolved(m)) : InOrderOf(sent(resolved(m)), list)
        BY <3>3
      <4> QED BY <2>1, <3>3, <4>1, <4>2, <4>3
    <3> QED BY <2>1, <2>2, <3>4 DEF OfThisFile
  <2>3. CASE ~file.exists
    <3>1. active' = BuiltIn
      BY <1>1, <2>1, <2>3 DEF Start
    <3> QED BY <2>1, <2>3, <3>1 DEF OfThisFile, BuiltIn
  <2> QED BY <2>2, <2>3
<1>2. Inv /\ [ProfileNext]_profileVars => [pc = "down" /\ pc' = "up" => OfThisFile']_profileVars
  BY <1>1
<1> QED
  BY <1>2, InvHolds, PTL DEF ProfileSpec, ReplacedEntirely
=============================================================================
