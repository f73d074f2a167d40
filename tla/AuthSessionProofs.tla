--------------------------- MODULE AuthSessionProofs ---------------------------
(***************************************************************************)
(* What is stored in the keychain is what the app uses, a session that was *)
(* logged out of is erased, the expiry time is never later than that of    *)
(* the tokens, it takes two interrupted batches to mix two sessions, and   *)
(* no call loses the operation it waits for: proved for any number of      *)
(* sessions, logouts, kills and failing keychain calls.                    *)
(***************************************************************************)
EXTENDS AuthSession, SequenceTheorems, TLAPS

-----------------------------------------------------------------------------
(* The inductive invariant.                                                 *)

BootLabels  == {"none", "load", "eraseDamaged", "erased", "refresh", "autoLogin",
                "saveRefreshed", "saveAuto", "clear"}
LoginLabels == {"none", "provider", "save"}

\* Bootstrap runs alone, and one login at a time.
Control ==
  /\ pc["boot"] \in BootLabels /\ pc["login"] \in LoginLabels
  /\ \A c \in Logouts : pc[c] \in {"none", "server", "clear"}
  /\ status = "booting" <=> pc["boot"] # "none"
  /\ status = "booting" => pc["login"] = "none" /\ ~confirming /\ \A c \in Logouts : pc[c] = "none"
  /\ status = "authed" => pc["login"] = "none"
  /\ pc["login"] # "none" => isSubmitting
  /\ pc["boot"] = "load" => operations = <<>>

Operation == [call : Calls \cup {"nobody"}, entry : Services, value : Entry]

\* The call that saves a session, of which there is at most one.
SavesBy(c) == \/ (c = "boot" /\ pc["boot"] \in {"saveRefreshed", "saveAuto"})
              \/ (c = "login" /\ pc["login"] = "save")
ClearsBy(c) == pc[c] = "clear" \/ (c = "boot" /\ pc["boot"] = "eraseDamaged")

\* A call waits for the operations that it issued, writes of the session issued last or erasures.
Awaited(o) ==
  o.call # "nobody" => \/ (SavesBy(o.call) /\ o.value = issued /\ o.value # None)
                       \/ (ClearsBy(o.call) /\ o.value = None)

\* The operations of a call come together, in the order of Entries; q is a queue.
Together(q) ==
  \A n \in 1..Len(q) :
    /\ q[n].entry = "access"  => n < Len(q) /\ q[n + 1] = [q[n] EXCEPT !.entry = "refresh"]
    /\ q[n].entry = "refresh" => n < Len(q) /\ q[n + 1] = [q[n] EXCEPT !.entry = "meta"]
    /\ q[n].entry = "meta" /\ n < Len(q) => q[n + 1].entry = "access"

\* A call has issued nothing after its last operation, and only logouts issue anything after a save.
LastOfCall(q) ==
  \A n, k \in 1..Len(q) : n < k /\ q[n].call # "nobody" =>
    /\ q[n].entry = "meta" => q[k].call # q[n].call
    /\ q[n].value # None => q[k].call \in {q[n].call} \cup Logouts

Queue ==
  /\ \A n \in 1..Len(operations) : Awaited(operations[n]) /\ operations[n].value <= issued
  /\ Together(operations) /\ LastOfCall(operations)

\* What the first batch in the queue has executed so far is in the keychain.
Executed ==
  operations # <<>> /\ Op.call # "nobody" /\ (Op.value # None \/ faults = 0) =>
    /\ Op.entry # "access" => keychain["access"] = Op.value
    /\ Op.entry = "meta" => keychain["refresh"] = Op.value

\* While a session is used, the keychain holds it, or else a logout is at work.
Stored ==
  status = "authed" => /\ \A n \in 1..Len(operations) : operations[n].call \in Logouts
                       /\ operations = <<>> => keychain = session

\* Sessions are issued in order, and one being saved is not that of any logout.
Order ==
  /\ \A e \in Services : keychain[e] <= issued
  /\ \A c \in Calls : current[c] <= issued
  /\ ended \subseteq 1..issued
  /\ session["access"] <= issued
  /\ (\E c \in Calls : SavesBy(c)) => issued # 0 /\ issued \notin ended /\ \A c \in Logouts : current[c] # issued

\* Unless keychain calls have failed: no save was given up, and the expiry time is the oldest entry.
Faultless ==
  faults = 0 =>
    /\ \A n \in 1..Len(operations) : operations[n].call # "nobody"
    /\ \A e \in Services : keychain[e] # None => keychain["meta"] <= keychain[e]

\* Unless keychain calls have failed, or kills have cut two saves or clears short: a session is
\* saved only over an entry "meta" that is erased or expired, a keychain at rest that no kill cut
\* holds one session or none, and one cut leaves what bootstrap drops, refreshes or can use.
KeychainWhole == \E s \in 1..issued : keychain = Whole(s)
CutOnce ==
  faults = 0 =>
    /\ cuts = 0 /\ status # "authed" /\ pc["boot"] # "load" => keychain["meta"] = None \/ ExpiredOrSoon
    /\ cuts = 0 /\ operations = <<>> => keychain = Nothing \/ KeychainWhole
    /\ cuts = 0 \/ (cuts = 1 /\ operations = <<>>) => Incomplete \/ ExpiredOrSoon \/ KeychainWhole

\* A call that waits for the keychain is waited for by the last of its operations.
Awaiting == {"eraseDamaged", "saveRefreshed", "saveAuto", "clear", "save"}
CallsAreServed ==
  /\ BusyHasCall
  /\ \A c \in Calls : pc[c] \in Awaiting =>
       \E n \in DOMAIN operations : operations[n].call = c /\ operations[n].entry = Last

IInv == /\ TypeOK /\ Control /\ Queue /\ Executed /\ Stored /\ Order /\ Faultless /\ MetaIsOldest /\ LogoutErases
        /\ CallsAreServed /\ CutOnce /\ WholeUnlessCutTwice

-----------------------------------------------------------------------------
(* Queues.                                                                  *)

LEMMA TailFacts ==
  ASSUME NEW q \in Seq(Operation), q # <<>>
  PROVE  /\ Head(q) = q[1] /\ q[1] \in Operation /\ Len(q) \in Nat \ {0}
         /\ Tail(q) \in Seq(Operation) /\ Len(Tail(q)) = Len(q) - 1
         /\ \A n \in 1..(Len(q) - 1) : Tail(q)[n] = q[n + 1]
OBVIOUS

LEMMA TailKeeps ==
  ASSUME NEW q \in Seq(Operation), q # <<>>, Together(q), LastOfCall(q)
  PROVE  Together(Tail(q)) /\ LastOfCall(Tail(q))
<1> DEFINE t == Tail(q)
<1>1. Len(q) \in Nat \ {0} /\ Len(t) = Len(q) - 1 /\ \A n \in 1..Len(t) : t[n] = q[n + 1] /\ n + 1 \in 1..Len(q)
  BY TailFacts
<1> HIDE DEF t
<1>2. Together(t)
  <2>1. ASSUME NEW n \in 1..Len(t)
        PROVE  /\ t[n].entry = "access" => n < Len(t) /\ t[n + 1] = [t[n] EXCEPT !.entry = "refresh"]
               /\ t[n].entry = "refresh" => n < Len(t) /\ t[n + 1] = [t[n] EXCEPT !.entry = "meta"]
               /\ t[n].entry = "meta" /\ n < Len(t) => t[n + 1].entry = "access"
    <3>1. n + 1 \in 1..Len(q) /\ t[n] = q[n + 1] /\ (n < Len(t) <=> n + 1 < Len(q))
      BY <1>1
    <3>2. n < Len(t) => t[n + 1] = q[n + 1 + 1]
      BY <1>1
    <3> QED BY <3>1, <3>2 DEF Together
  <2> QED BY <2>1 DEF Together
<1>3. LastOfCall(t)
  <2>1. ASSUME NEW n \in 1..Len(t), NEW k \in 1..Len(t), n < k, t[n].call # "nobody"
        PROVE  /\ t[n].entry = "meta" => t[k].call # t[n].call
               /\ t[n].value # None => t[k].call \in {t[n].call} \cup Logouts
    <3>1. n + 1 \in 1..Len(q) /\ k + 1 \in 1..Len(q) /\ n + 1 < k + 1 /\ t[n] = q[n + 1] /\ t[k] = q[k + 1]
      BY <1>1, <2>1
    <3> QED BY <2>1, <3>1 DEF LastOfCall
  <2> QED BY <2>1 DEF LastOfCall
<1> QED BY <1>2, <1>3 DEF t

LEMMA BatchFacts ==
  ASSUME NEW c \in Calls, NEW s \in Entry
  PROVE  /\ Batch(c, s) \in Seq(Operation) /\ Len(Batch(c, s)) = 3
         /\ Batch(c, s)[1] = [call |-> c, entry |-> "access", value |-> s]
         /\ Batch(c, s)[2] = [call |-> c, entry |-> "refresh", value |-> s]
         /\ Batch(c, s)[3] = [call |-> c, entry |-> "meta", value |-> s]
<1>1. Batch(c, s) = <<[call |-> c, entry |-> "access", value |-> s],
                      [call |-> c, entry |-> "refresh", value |-> s],
                      [call |-> c, entry |-> "meta", value |-> s]>>
  BY DEF Batch, Entries
<1> QED BY <1>1 DEF Operation, Services

IsQueue(q) == q \in Seq(Operation) /\ Together(q) /\ LastOfCall(q)

\* A call with no operation in the queue may issue three, after those of any save only if it is a logout.
MayIssue(q, c) ==
  \A n \in 1..Len(q) : q[n].call # c /\ (q[n].call # "nobody" /\ q[n].value # None => c \in Logouts)

\* r is q followed by operations of c on the value s.
Extends(r, q, c, s) ==
  /\ r # <<>>
  /\ \A n \in 1..Len(r) : \/ n \in 1..Len(q) /\ r[n] = q[n]
                          \/ /\ r[n].call = c /\ r[n].value = s
                             /\ n = 1 => r[n].entry = "access"

LEMMA IssueKeeps ==
  ASSUME NEW q, IsQueue(q), NEW c \in Calls, NEW s \in Entry, MayIssue(q, c)
  PROVE  IsQueue(q \o Batch(c, s)) /\ Extends(q \o Batch(c, s), q, c, s)
<1>0. q \in Seq(Operation) /\ Together(q) /\ LastOfCall(q)
  BY DEF IsQueue
<1> DEFINE b == Batch(c, s)
           r == q \o b
           L == Len(q)
<1>1. /\ b \in Seq(Operation) /\ Len(b) = 3
      /\ b[1] = [call |-> c, entry |-> "access", value |-> s]
      /\ b[2] = [call |-> c, entry |-> "refresh", value |-> s]
      /\ b[3] = [call |-> c, entry |-> "meta", value |-> s]
  BY BatchFacts
<1> HIDE DEF b
<1>2. L \in Nat /\ r \in Seq(Operation) /\ Len(r) = L + 3
  <2>1. b \in Seq(Operation) /\ Len(b) = 3
    BY <1>1
  <2>2. q \o b \in Seq(Operation) /\ Len(q \o b) = Len(q) + Len(b)
    BY <1>0, <2>1, ConcatProperties
  <2>3. Len(q) \in Nat
    BY <1>0
  <2> QED BY <2>1, <2>2, <2>3
<1>3. \A n \in 1..L : r[n] = q[n]
  BY <1>0, <1>1
<1>4. /\ r[L + 1] = [call |-> c, entry |-> "access", value |-> s]
      /\ r[L + 2] = [call |-> c, entry |-> "refresh", value |-> s]
      /\ r[L + 3] = [call |-> c, entry |-> "meta", value |-> s]
  <2>0. b \in Seq(Operation) /\ Len(b) = 3
    BY <1>1
  <2>1. \A i \in 1..(Len(q) + Len(b)) : (q \o b)[i] = IF i <= Len(q) THEN q[i] ELSE b[i - Len(q)]
    <3>1. q \in Seq(Operation) /\ b \in Seq(Operation)
      BY <1>0, <2>0
    <3> QED BY ONLY <3>1, ConcatProperties
  <2> HIDE DEF r
  <2>2. \A i \in 1..(L + 3) : r[i] = IF i <= L THEN q[i] ELSE b[i - L]
    BY <2>0, <2>1 DEF r
  <2>3. r[L + 1] = b[1] /\ r[L + 2] = b[2] /\ r[L + 3] = b[3]
    BY <1>2, <2>2
  <2> QED BY <1>1, <2>3
<1> HIDE DEF r, L
<1>5. \A n \in 1..Len(r) : n \in 1..L \/ n = L + 1 \/ n = L + 2 \/ n = L + 3
  BY <1>2
<1>6. Together(r)
  <2>1. ASSUME NEW n \in 1..Len(r)
        PROVE  /\ r[n].entry = "access" => n < Len(r) /\ r[n + 1] = [r[n] EXCEPT !.entry = "refresh"]
               /\ r[n].entry = "refresh" => n < Len(r) /\ r[n + 1] = [r[n] EXCEPT !.entry = "meta"]
               /\ r[n].entry = "meta" /\ n < Len(r) => r[n + 1].entry = "access"
    <3>1. CASE n \in 1..L /\ n < L
      <4>1. r[n] = q[n] /\ r[n + 1] = q[n + 1]
        BY <1>2, <1>3, <3>1
      <4> QED BY <1>0, <1>2, <3>1, <4>1 DEF Together, L
    <3>2. CASE n = L /\ n \in 1..L
      <4>1. q[n].entry \in {"access", "refresh"} => n < L
        BY <1>0, <3>2 DEF Together, L
      <4> QED BY <1>2, <1>3, <1>4, <3>2, <4>1
    <3>3. CASE n = L + 1
      <4>1. n + 1 = L + 2 /\ n < Len(r)
        BY <1>2, <3>3
      <4> QED BY <1>4, <3>3, <4>1
    <3>4. CASE n = L + 2
      <4>1. n + 1 = L + 3 /\ n < Len(r)
        BY <1>2, <3>4
      <4> QED BY <1>4, <3>4, <4>1
    <3>5. CASE n = L + 3
      <4>1. ~(n < Len(r))
        BY <1>2, <3>5
      <4> QED BY <1>4, <3>5, <4>1
    <3> QED BY <1>2, <1>5, <3>1, <3>2, <3>3, <3>4, <3>5
  <2> QED BY <2>1 DEF Together
<1>7. LastOfCall(r)
  <2>1. ASSUME NEW n \in 1..Len(r), NEW k \in 1..Len(r), n < k, r[n].call # "nobody"
        PROVE  /\ r[n].entry = "meta" => r[k].call # r[n].call
               /\ r[n].value # None => r[k].call \in {r[n].call} \cup Logouts
    <3>1. CASE n \in 1..L /\ k \in 1..L
      BY <1>0, <1>3, <2>1, <3>1 DEF LastOfCall, L
    <3>2. CASE n \in 1..L /\ k \notin 1..L
      <4>1. r[k].call = c
        BY <1>4, <1>5, <3>2
      <4> QED BY <1>3, <2>1, <3>2, <4>1 DEF L, MayIssue
    <3>3. CASE n \notin 1..L
      <4>1. n = L + 1 \/ n = L + 2
        BY <1>2, <1>5, <2>1, <3>3
      <4>2. k = L + 2 \/ k = L + 3
        BY <1>2, <1>5, <2>1, <4>1
      <4>3. r[k].call = c /\ r[n].call = c /\ r[n].entry # "meta"
        BY <1>4, <4>1, <4>2
      <4> QED BY <4>3
    <3> QED BY <3>1, <3>2, <3>3
  <2> QED BY <2>1 DEF LastOfCall
<1>8. \A n \in 1..Len(r) : \/ n \in 1..L /\ r[n] = q[n]
                           \/ /\ r[n].call = c /\ r[n].value = s
                              /\ n = 1 => r[n].entry = "access"
  BY <1>2, <1>3, <1>4, <1>5
<1>9. r # <<>>
  BY <1>2
<1>10. IsQueue(r) /\ Extends(r, q, c, s)
  BY <1>2, <1>6, <1>7, <1>8, <1>9 DEF L, IsQueue, Extends
<1> QED BY <1>10 DEF r, b

\* Operations that a rejected save has given up stay where they are.
GivenUp(r, q, c) ==
  /\ Len(r) = Len(q)
  /\ \A n \in 1..Len(q) : /\ r[n].value = q[n].value /\ r[n].entry = q[n].entry
                          /\ r[n].call = IF q[n].call = c THEN "nobody" ELSE q[n].call

LEMMA AbandonedKeeps ==
  ASSUME NEW q, IsQueue(q), NEW c \in Calls \ Logouts
  PROVE  IsQueue(Abandoned(q, c)) /\ GivenUp(Abandoned(q, c), q, c)
<1> USE DEF IsQueue
<1> DEFINE r == Abandoned(q, c)
<1>1. Len(q) \in Nat /\ DOMAIN q = 1..Len(q) /\ \A n \in 1..Len(q) : q[n] \in Operation
  OBVIOUS
<1>2. r = [n \in 1..Len(q) |-> IF q[n].call = c THEN [q[n] EXCEPT !.call = "nobody"] ELSE q[n]]
  BY <1>1 DEF Abandoned
<1>3. \A n \in 1..Len(q) : r[n] = IF q[n].call = c THEN [q[n] EXCEPT !.call = "nobody"] ELSE q[n]
  BY <1>2
<1>4. \A n \in 1..Len(q) : r[n] \in Operation
  BY <1>1, <1>3 DEF Operation
<1>5. r \in Seq(Operation) /\ Len(r) = Len(q)
  BY <1>1, <1>2, <1>4
<1> HIDE DEF r
<1>6. \A n \in 1..Len(q) : /\ r[n].value = q[n].value /\ r[n].entry = q[n].entry
                           /\ r[n].call = IF q[n].call = c THEN "nobody" ELSE q[n].call
  BY <1>1, <1>3 DEF Operation
<1>7. Together(r)
  <2>1. ASSUME NEW n \in 1..Len(r)
        PROVE  /\ r[n].entry = "access" => n < Len(r) /\ r[n + 1] = [r[n] EXCEPT !.entry = "refresh"]
               /\ r[n].entry = "refresh" => n < Len(r) /\ r[n + 1] = [r[n] EXCEPT !.entry = "meta"]
               /\ r[n].entry = "meta" /\ n < Len(r) => r[n + 1].entry = "access"
    <3>1. n \in 1..Len(q) /\ (n < Len(q) => n + 1 \in 1..Len(q))
      BY <1>1, <1>5
    <3>2. CASE q[n].entry = "access"
      <4>1. n < Len(q) /\ q[n + 1] = [q[n] EXCEPT !.entry = "refresh"]
        BY <3>1, <3>2 DEF Together
      <4>2. r[n].entry = q[n].entry /\ n < Len(r) /\ q[n + 1].call = q[n].call
        BY <1>1, <1>5, <1>6, <3>1, <4>1 DEF Operation
      <4>3. /\ r[n] = IF q[n].call = c THEN [q[n] EXCEPT !.call = "nobody"] ELSE q[n]
            /\ r[n + 1] = IF q[n].call = c THEN [q[n + 1] EXCEPT !.call = "nobody"] ELSE q[n + 1]
        BY <1>3, <3>1, <4>1, <4>2
      <4>4. [[q[n] EXCEPT !.entry = "refresh"] EXCEPT !.call = "nobody"]
              = [[q[n] EXCEPT !.call = "nobody"] EXCEPT !.entry = "refresh"]
        BY <1>1, <3>1 DEF Operation
      <4>5. r[n + 1] = [r[n] EXCEPT !.entry = "refresh"]
        BY <4>1, <4>3, <4>4
      <4> QED BY <3>2, <4>2, <4>5
    <3>3. CASE q[n].entry = "refresh"
      <4>1. n < Len(q) /\ q[n + 1] = [q[n] EXCEPT !.entry = "meta"]
        BY <3>1, <3>3 DEF Together
      <4>2. r[n].entry = q[n].entry /\ n < Len(r) /\ q[n + 1].call = q[n].call
        BY <1>1, <1>5, <1>6, <3>1, <4>1 DEF Operation
      <4>3. /\ r[n] = IF q[n].call = c THEN [q[n] EXCEPT !.call = "nobody"] ELSE q[n]
            /\ r[n + 1] = IF q[n].call = c THEN [q[n + 1] EXCEPT !.call = "nobody"] ELSE q[n + 1]
        BY <1>3, <3>1, <4>1, <4>2
      <4>4. [[q[n] EXCEPT !.entry = "meta"] EXCEPT !.call = "nobody"]
              = [[q[n] EXCEPT !.call = "nobody"] EXCEPT !.entry = "meta"]
        BY <1>1, <3>1 DEF Operation
      <4>5. r[n + 1] = [r[n] EXCEPT !.entry = "meta"]
        BY <4>1, <4>3, <4>4
      <4> QED BY <3>3, <4>2, <4>5
    <3>4. CASE q[n].entry = "meta"
      BY <1>5, <1>6, <3>1, <3>4 DEF Together
    <3> QED BY <1>6, <3>1, <3>2, <3>3, <3>4
  <2> QED BY <2>1 DEF Together
<1>8. LastOfCall(r)
  <2>1. ASSUME NEW n \in 1..Len(r), NEW k \in 1..Len(r), n < k, r[n].call # "nobody"
        PROVE  /\ r[n].entry = "meta" => r[k].call # r[n].call
               /\ r[n].value # None => r[k].call \in {r[n].call} \cup Logouts
    <3>1. /\ r[n].entry = q[n].entry /\ r[n].value = q[n].value /\ r[n].call = q[n].call /\ q[n].call # "nobody"
          /\ r[k].call = IF q[k].call = c THEN "nobody" ELSE q[k].call
      BY <1>5, <1>6, <2>1
    <3>2. r[n].call # c
      BY <1>5, <1>6, <2>1
    <3>3. /\ q[n].entry = "meta" => q[k].call # q[n].call
          /\ q[n].value # None => q[k].call \in {q[n].call} \cup Logouts
      BY <1>5, <2>1, <3>1 DEF LastOfCall
    <3> QED BY <2>1, <3>1, <3>2, <3>3
  <2> QED BY <2>1 DEF LastOfCall
<1>9. IsQueue(r) /\ GivenUp(r, q, c)
  BY <1>5, <1>6, <1>7, <1>8 DEF GivenUp
<1> QED BY <1>9 DEF r

-----------------------------------------------------------------------------
(* The operation executed next, and the queue after a step.                 *)

LEMMA CallsAre ==
  /\ "boot" \in Calls /\ "login" \in Calls /\ Logouts \subseteq Calls /\ "nobody" \notin Calls
  /\ "boot" \notin Logouts /\ "login" \notin Logouts
  /\ \A c \in Calls : c = "boot" \/ c = "login" \/ c \in Logouts
BY LogoutsAssumption DEF Calls

LEMMA Heads ==
  ASSUME TypeOK, Control, Queue, operations # <<>>
  PROVE  /\ Op = operations[1] /\ Op \in Operation /\ Op.value <= issued
         /\ Saving <=> Op.call # "nobody" /\ SavesBy(Op.call)
         /\ Saving => Op.value = issued /\ Op.value \in Sessions /\ Op.call \in {"boot", "login"}
         /\ Op.call # "nobody" /\ ~Saving => Op.value = None /\ ClearsBy(Op.call)
<1>1. operations \in Seq(Operation)
  BY DEF TypeOK, Operation
<1>2. Op = operations[1] /\ operations[1] \in Operation /\ 1 \in 1..Len(operations)
  BY <1>1, TailFacts DEF Op
<1>3. Awaited(Op) /\ Op.value <= issued
  BY <1>2 DEF Queue
<1>4. Op.call # "nobody" => Op.call \in Calls
  BY <1>2 DEF Operation
<1>5. Saving <=> Op.call # "nobody" /\ SavesBy(Op.call)
  BY <1>4, CallsAre DEF Saving, SavesBy, Control, BootLabels, LoginLabels
<1>6. Op.call # "nobody" => ~(SavesBy(Op.call) /\ ClearsBy(Op.call))
  BY <1>4, CallsAre DEF SavesBy, ClearsBy
<1>7. Op.value \in Entry
  BY <1>2 DEF Operation
<1> QED BY <1>2, <1>3, <1>5, <1>6, <1>7 DEF Awaited, Entry, SavesBy

\* A call that waits for operations still waits for them, unless it is finished, and the session
\* that is being saved stays the one issued last.
Waits(c) == /\ SavesBy(c) => SavesBy(c)' /\ issued' = issued
            /\ ClearsBy(c) => ClearsBy(c)'

LEMMA AwaitedStays ==
  ASSUME NEW o, Awaited(o), o.call # "nobody" => Waits(o.call)
  PROVE  Awaited(o)'
BY DEF Awaited, Waits

LEMMA QueueStays ==
  ASSUME TypeOK, Queue, UNCHANGED operations, issued' \in Nat, issued <= issued', \A c \in Calls : Waits(c)
  PROVE  Queue'
<1>1. operations \in Seq(Operation) /\ issued \in Nat
  BY DEF TypeOK, Operation
<1>2. ASSUME NEW n \in 1..Len(operations)
      PROVE  Awaited(operations[n])' /\ operations[n].value <= issued'
  <2>1. operations[n] \in Operation
    BY <1>1
  <2>2. Awaited(operations[n]) /\ operations[n].value <= issued /\ operations[n].value \in Nat
    BY <2>1 DEF Queue, Operation, Entry, Sessions, None
  <2>3. operations[n].call # "nobody" => Waits(operations[n].call)
    BY <2>1 DEF Operation
  <2>4. Awaited(operations[n])'
    BY <2>2, <2>3 DEF Awaited, Waits
  <2> QED BY <1>1, <2>2, <2>4
<1> QED BY <1>2 DEF Queue, Together, LastOfCall

LEMMA QueueIssued ==
  ASSUME TypeOK, Queue, NEW c \in Calls, NEW s \in Entry, Issue(c, s),
         issued' \in Nat, issued <= issued', s <= issued',
         ~SavesBy(c), ~ClearsBy(c), \A d \in Calls : Waits(d),
         (\E d \in Calls : SavesBy(d)) => c \in Logouts,
         \/ SavesBy(c)' /\ s = issued' /\ s # None
         \/ ClearsBy(c)' /\ s = None
  PROVE  Queue' /\ operations' \in Seq(Operation) /\ Extends(operations', operations, c, s)
<1>1. operations \in Seq(Operation) /\ issued \in Nat /\ operations' = operations \o Batch(c, s)
  BY DEF TypeOK, Operation, Issue
<1>2. ASSUME NEW n \in 1..Len(operations) PROVE operations[n].call # c
  BY CallsAre DEF Queue, Awaited
<1>3. ASSUME NEW n \in 1..Len(operations), operations[n].call # "nobody", operations[n].value # None
      PROVE  c \in Logouts
  <2>0. operations[n] \in Operation
    BY <1>1
  <2>1. operations[n].call \in Calls
    BY <1>3, <2>0 DEF Operation
  <2>2. SavesBy(operations[n].call)
    BY <1>3 DEF Queue, Awaited
  <2> QED BY <2>1, <2>2
<1>4. IsQueue(operations') /\ Extends(operations', operations, c, s)
  <2>1. IsQueue(operations) /\ MayIssue(operations, c)
    BY <1>1, <1>2, <1>3 DEF Queue, IsQueue, MayIssue
  <2> QED BY <1>1, <2>1, IssueKeeps
<1>5. ASSUME NEW n \in 1..Len(operations')
      PROVE  Awaited(operations[n])' /\ operations'[n].value <= issued'
  <2>1. CASE operations'[n].call = c /\ operations'[n].value = s
    BY <2>1 DEF Awaited
  <2>2. CASE n \in 1..Len(operations) /\ operations'[n] = operations[n]
    <3>1. operations[n] \in Operation /\ Awaited(operations[n]) /\ operations[n].value <= issued
      BY <1>1, <2>2 DEF Queue
    <3>2. operations[n].call # "nobody" => Waits(operations[n].call)
      BY <3>1 DEF Operation
    <3>3. operations[n].value \in Nat
      BY <3>1 DEF Operation, Entry, Sessions, None
    <3> QED BY <1>1, <2>2, <3>1, <3>2, <3>3 DEF Awaited, Waits
  <2> QED BY <1>4, <2>1, <2>2 DEF Extends
<1> QED BY <1>4, <1>5 DEF Queue, IsQueue, Together, LastOfCall

LEMMA QueueTail ==
  ASSUME TypeOK, Queue, operations # <<>>, operations' = Tail(operations), issued' = issued,
         \A c \in Calls : c # Op.call \/ Op.entry # "meta" => Waits(c)
  PROVE  /\ Queue' /\ operations' \in Seq(Operation)
         /\ \A n \in 1..Len(operations') : n + 1 \in 1..Len(operations) /\ operations'[n] = operations[n + 1]
         /\ Op.entry # "meta" => operations' # <<>> /\ Op' = [Op EXCEPT !.entry = Op'.entry]
         /\ Op.entry = "access" => Op'.entry = "refresh"
         /\ Op.entry = "refresh" => Op'.entry = "meta"
         /\ Op.entry = "meta" /\ operations' # <<>> => Op'.entry = "access"
<1>1. operations \in Seq(Operation) /\ issued \in Nat
  BY DEF TypeOK, Operation
<1>2. /\ Op = operations[1] /\ Op \in Operation /\ Len(operations) \in Nat \ {0}
      /\ operations' \in Seq(Operation) /\ Len(operations') = Len(operations) - 1
      /\ \A n \in 1..Len(operations') : n + 1 \in 1..Len(operations) /\ operations'[n] = operations[n + 1]
  BY <1>1, TailFacts DEF Op
<1>3. ASSUME NEW n \in 1..Len(operations')
      PROVE  Awaited(operations[n])' /\ operations'[n].value <= issued'
  <2> DEFINE o == operations[n + 1]
  <2>1. o \in Operation /\ Awaited(o) /\ o.value <= issued /\ operations'[n] = o
    BY <1>1, <1>2 DEF Queue
  <2>2. o.call # "nobody" => o.call \in Calls /\ (o.call # Op.call \/ Op.entry # "meta")
    <3>1. 1 \in 1..Len(operations) /\ n + 1 \in 1..Len(operations) /\ 1 < n + 1
      BY <1>2
    <3> QED BY <1>2, <2>1, <3>1 DEF Queue, LastOfCall, Operation
  <2> QED BY <2>1, <2>2 DEF Awaited, Waits
<1>4. Together(operations') /\ LastOfCall(operations')
  BY <1>1, TailKeeps DEF Queue
<1>5. Queue'
  BY <1>3, <1>4 DEF Queue, Together, LastOfCall
<1>6. operations' # <<>> => Op' = operations[2] /\ 1 < Len(operations)
  <2>1. operations' # <<>> => 1 \in 1..Len(operations') /\ Head(operations') = operations'[1]
    BY <1>2, TailFacts
  <2> QED BY <1>2, <2>1 DEF Op
<1>7. /\ Op.entry = "access" => 1 < Len(operations) /\ operations[2] = [Op EXCEPT !.entry = "refresh"]
      /\ Op.entry = "refresh" => 1 < Len(operations) /\ operations[2] = [Op EXCEPT !.entry = "meta"]
      /\ Op.entry = "meta" /\ 1 < Len(operations) => operations[2].entry = "access"
  <2>1. 1 \in 1..Len(operations) /\ 1 + 1 = 2
    BY <1>2
  <2> QED BY <1>2, <2>1 DEF Queue, Together
<1>8. 1 < Len(operations) => operations' # <<>>
  BY <1>2
<1> QED BY <1>2, <1>5, <1>6, <1>7, <1>8 DEF Operation, Services

-----------------------------------------------------------------------------
(* Types and control.                                                       *)

LEMMA TypeStep ==
  ASSUME TypeOK, Control, Queue, Next
  PROVE  TypeOK'
<1> USE DEF store, served, counters
<1>0. /\ operations \in Seq(Operation) /\ Nothing \in [Services -> Entry]
      /\ issued \in 0..MaxSessions /\ MaxSessions \in Nat /\ MaxMishaps \in Nat
      /\ crashes \in 0..MaxMishaps /\ faults \in 0..MaxMishaps /\ cuts \in 0..crashes
  BY AuthBounds DEF TypeOK, Operation, Nothing, Entry
<1>1. ASSUME NEW c \in Calls, NEW s \in Entry, Issue(c, s)
      PROVE  operations' \in Seq(Operation)
  BY <1>0, <1>1, BatchFacts, ConcatProperties DEF Issue
<1>2. ASSUME NEW s, Fresh(s)
      PROVE  s \in Sessions /\ s = issued + 1 /\ issued' \in 0..MaxSessions /\ expired' = expired
  BY <1>0, <1>2 DEF Fresh, Sessions
<1>3. None \in Entry /\ Sessions \subseteq Entry /\ "boot" \in Calls /\ "login" \in Calls /\ Logouts \subseteq Calls
  BY CallsAre DEF Entry
<1>4. ASSUME crashes + faults < MaxMishaps PROVE crashes + 1 \in 0..MaxMishaps /\ faults + 1 \in 0..MaxMishaps
  BY <1>0, <1>4
<1>5. operations # <<>> => /\ Op \in Operation /\ Tail(operations) \in Seq(Operation)
                           /\ Op.value \in Entry /\ Op.entry \in Services
                           /\ (Op.call # "nobody" => Op.call \in Calls)
  BY <1>0, TailFacts DEF Op, Operation
<1>6. CASE LoadNothing
  BY <1>6 DEF LoadNothing, Goto, Anonymous, TypeOK, Labels
<1>7. CASE LoadSession
  <2>1. keychain \in [Services -> Sessions] /\ keychain # Nothing
    BY <1>7 DEF LoadSession, Incomplete, TypeOK, Entry, Nothing, Services
  <2> QED BY <1>7, <2>1 DEF LoadSession, Goto, Authed, TypeOK, Labels
<1>8. CASE LoadExpired
  BY <1>8 DEF LoadExpired, Goto, TypeOK, Labels
<1>9. CASE LoadDamaged
  BY <1>1, <1>3, <1>4, <1>9 DEF LoadDamaged, Goto, TypeOK, Labels, Operation
<1>10. CASE LoadFails
  BY <1>4, <1>10 DEF LoadFails, Goto, Anonymous, TypeOK, Labels
<1>11. CASE BootObtains
  <2>1. PICK s \in Sessions : Fresh(s) /\ Hold("boot", s) /\ Issue("boot", s)
    BY <1>11 DEF BootObtains
  <2>2. operations' \in Seq(Operation) /\ issued' \in 0..MaxSessions /\ expired' = expired
    BY <1>1, <1>2, <1>3, <2>1
  <2> QED BY <1>3, <1>11, <2>1, <2>2 DEF BootObtains, Goto, Hold, TypeOK, Labels, Operation
<1>12. CASE RefreshRefused
  BY <1>1, <1>3, <1>12 DEF RefreshRefused, Goto, TypeOK, Labels, Operation
<1>13. CASE AutoLoginRefused
  BY <1>13 DEF AutoLoginRefused, Goto, Anonymous, TypeOK, Labels
<1>14. CASE Login
  BY <1>14 DEF Login, Goto, TypeOK, Labels
<1>15. CASE LoginObtains
  <2>1. PICK s \in Sessions : Fresh(s) /\ Hold("login", s) /\ Issue("login", s)
    BY <1>15 DEF LoginObtains
  <2>2. operations' \in Seq(Operation) /\ issued' \in 0..MaxSessions /\ expired' = expired
    BY <1>1, <1>2, <1>3, <2>1
  <2> QED BY <1>3, <1>15, <2>1, <2>2 DEF LoginObtains, Goto, Hold, TypeOK, Labels, Operation
<1>16. CASE LoginRefused
  BY <1>16 DEF LoginRefused, Goto, TypeOK, Labels
<1>17. CASE AskLogout \/ CancelLogout
  BY <1>17 DEF AskLogout, CancelLogout, TypeOK
<1>18. ASSUME NEW c \in Logouts, ConfirmLogout(c) PROVE TypeOK'
  <2>1. session["access"] \in Entry
    BY <1>3 DEF TypeOK, Nothing, Services
  <2>2. operations' \in Seq(Operation)
    BY <1>0, <1>1, <1>3, <1>18 DEF ConfirmLogout
  <2>3. pc' \in [Calls -> Labels] /\ current' \in [Calls -> Entry]
    BY <1>3, <1>18, <2>1 DEF ConfirmLogout, Goto, Hold, TypeOK, Labels
  <2> QED BY <1>18, <2>2, <2>3 DEF ConfirmLogout, TypeOK, Operation
<1>19. ASSUME NEW c \in Logouts, LogoutAnswered(c) PROVE TypeOK'
  BY <1>1, <1>3, <1>19 DEF LogoutAnswered, Goto, TypeOK, Labels, Operation
<1>20. CASE EntryWritten
  BY <1>5, <1>20 DEF EntryWritten, Execute, TypeOK, Operation
<1>21. CASE SessionSaved
  <2>1. Op.value \in Sessions /\ Op.call \in Calls
    BY <1>5, <1>21, Heads DEF SessionSaved, Saving, Settles
  <2>2. Whole(Op.value) \in [Services -> Sessions] /\ Whole(Op.value) # Nothing
    BY <2>1 DEF Whole, Nothing, Sessions, None, Services
  <2> QED BY <1>3, <1>5, <1>21, <2>1, <2>2 DEF SessionSaved, Saving, Execute, Authed, Goto, TypeOK, Operation, Labels
<1>22. CASE SaveRejected
  <2>1. Op.call \in Calls \ Logouts /\ operations # <<>>
    BY <1>22, Heads, CallsAre DEF SaveRejected, Saving
  <2> DEFINE rest == Abandoned(Tail(operations), Op.call)
  <2>2. rest \in Seq(Operation)
    <3>1. IsQueue(Tail(operations))
      BY <1>0, <2>1, TailKeeps, TailFacts DEF Queue, IsQueue
    <3> QED BY <2>1, <3>1, AbandonedKeeps DEF IsQueue
  <2>3. rest \o Batch(Op.call, None) \in Seq(Operation)
    BY <1>3, <2>1, <2>2, BatchFacts, ConcatProperties
  <2>4. operations' \in {rest, rest \o Batch(Op.call, None)}
    BY <1>22 DEF SaveRejected
  <2>5. operations' \in Seq(Operation)
    BY <2>2, <2>3, <2>4
  <2>6. \/ Goto(Op.call, "clear") /\ UNCHANGED store
        \/ Goto(Op.call, "none") /\ Anonymous /\ UNCHANGED isSubmitting
        \/ Goto(Op.call, "none") /\ isSubmitting' = FALSE /\ UNCHANGED <<status, session>>
    BY <1>22 DEF SaveRejected
  <2>7. pc' \in [Calls -> Labels]
    BY <2>1, <2>6 DEF Goto, TypeOK, Labels
  <2> QED BY <1>4, <1>22, <2>5, <2>6, <2>7 DEF SaveRejected, Anonymous, TypeOK, Operation
<1>23. CASE EntryKept
  BY <1>4, <1>5, <1>23 DEF EntryKept, Skip, Ignored, TypeOK, Operation
<1>24. CASE Cleared
  <2>1. operations # <<>> /\ Op.call \in Calls
    BY <1>5, <1>24 DEF Cleared, Settles
  <2>2. ended' \subseteq Sessions
    BY <1>24, <2>1 DEF Cleared, TypeOK, Entry
  <2>3. /\ keychain' \in [Services -> Entry] /\ operations' \in Seq(Operation)
        /\ crashes' = crashes /\ cuts' = cuts /\ faults' \in 0..MaxMishaps
    BY <1>0, <1>4, <1>5, <1>24, <2>1 DEF Cleared, Execute, Skip, Ignored, TypeOK
  <2> QED BY <1>24, <2>1, <2>2, <2>3 DEF Cleared, Anonymous, Goto, TypeOK, Operation, Labels
<1>25. CASE DamageErased
  <2>1. operations # <<>> /\ Op.call \in Calls
    BY <1>5, <1>25 DEF DamageErased, Settles
  <2>2. /\ keychain' \in [Services -> Entry] /\ operations' \in Seq(Operation)
        /\ crashes' = crashes /\ cuts' = cuts /\ faults' \in 0..MaxMishaps
    BY <1>0, <1>4, <1>5, <1>25, <2>1 DEF DamageErased, Execute, Skip, Ignored, TypeOK
  <2> QED BY <1>25, <2>1, <2>2 DEF DamageErased, Goto, TypeOK, Operation, Labels
<1>26. ASSUME NEW s \in Sessions, Expire(s) PROVE TypeOK'
  BY <1>26 DEF Expire, TypeOK
<1>27. CASE Crash
  <2>1. <<>> \in Seq(Operation)
    OBVIOUS
  <2>2. crashes' \in 0..MaxMishaps /\ cuts' \in 0..crashes'
    BY <1>0, <1>4, <1>27 DEF Crash
  <2> QED BY <1>3, <1>27, <2>1, <2>2 DEF Crash, TypeOK, Operation, Labels
<1> QED
  BY <1>6, <1>7, <1>8, <1>9, <1>10, <1>11, <1>12, <1>13, <1>14, <1>15, <1>16, <1>17, <1>18, <1>19, <1>20,
     <1>21, <1>22, <1>23, <1>24, <1>25, <1>26, <1>27 DEF Next, BootStep, KeychainStep, LoginAnswered

\* Bootstrap alone runs before the first screen, and buttons that start a login are disabled by it.
LEMMA ControlStep ==
  ASSUME TypeOK, Control, Queue, Next
  PROVE  Control'
<1> USE CallsAre DEF TypeOK, Control, BootLabels, LoginLabels, Goto, store
<1>1. CASE LoadNothing \/ LoadSession \/ LoadExpired
  BY <1>1 DEF LoadNothing, LoadSession, LoadExpired, Anonymous, Authed
<1>2. CASE LoadDamaged \/ LoadFails
  BY <1>2 DEF LoadDamaged, LoadFails, Anonymous
<1>3. CASE BootObtains
  BY <1>3 DEF BootObtains
<1>4. CASE RefreshRefused \/ AutoLoginRefused
  BY <1>4 DEF RefreshRefused, AutoLoginRefused, Anonymous
<1>5. CASE Login \/ LoginRefused
  BY <1>5 DEF Login, LoginRefused
<1>6. CASE LoginObtains
  BY <1>6 DEF LoginObtains
<1>7. CASE AskLogout \/ CancelLogout
  BY <1>7 DEF AskLogout, CancelLogout
<1>8. ASSUME NEW c \in Logouts, ConfirmLogout(c) PROVE Control'
  BY <1>8 DEF ConfirmLogout
<1>9. ASSUME NEW c \in Logouts, LogoutAnswered(c) PROVE Control'
  BY <1>9 DEF LogoutAnswered
<1>10. CASE EntryWritten \/ EntryKept
  BY <1>10 DEF EntryWritten, EntryKept
<1>11. CASE SessionSaved
  <2>1. SavesBy(Op.call) /\ Op.call \in {"boot", "login"}
    BY <1>11, Heads DEF SessionSaved, Settles
  <2> QED BY <1>11, <2>1 DEF SessionSaved, Authed, SavesBy
<1>12. CASE SaveRejected
  <2>1. SavesBy(Op.call) /\ Op.call \in {"boot", "login"}
    BY <1>12, Heads DEF SaveRejected, Saving
  <2>2. \/ pc[Op.call] = "saveRefreshed" /\ Goto(Op.call, "clear") /\ UNCHANGED store
        \/ pc[Op.call] = "saveAuto" /\ Goto(Op.call, "none") /\ Anonymous /\ UNCHANGED isSubmitting
        \/ pc[Op.call] = "save" /\ Goto(Op.call, "none") /\ isSubmitting' = FALSE /\ UNCHANGED <<status, session>>
    BY <1>12 DEF SaveRejected
  <2>3. UNCHANGED confirming
    BY <1>12 DEF SaveRejected
  <2> QED BY <2>1, <2>2, <2>3 DEF Anonymous, SavesBy
<1>13. CASE Cleared
  <2>1. Op.call \in Calls
    BY <1>13, Heads DEF Cleared, Settles, Operation
  <2>2. pc[Op.call] = "clear" /\ pc' = [pc EXCEPT ![Op.call] = "none"] /\ status' = "anonymous"
        /\ UNCHANGED <<isSubmitting, confirming>>
    BY <1>13 DEF Cleared, Anonymous
  <2>3. Op.call = "boot" \/ Op.call \in Logouts
    BY <2>1, <2>2
  <2>4. pc'["boot"] = "none"
    BY <2>2, <2>3
  <2> QED BY <2>1, <2>2, <2>3, <2>4
<1>14. CASE DamageErased
  <2>1. Op.call = "boot"
    BY <1>14, Heads DEF DamageErased, Settles, Operation
  <2> QED BY <1>14, <2>1 DEF DamageErased
<1>15. ASSUME NEW s \in Sessions, Expire(s) PROVE Control'
  BY <1>15 DEF Expire
<1>16. CASE Crash
  BY <1>16 DEF Crash
<1> QED
  BY <1>1, <1>2, <1>3, <1>4, <1>5, <1>6, <1>7, <1>8, <1>9, <1>10, <1>11, <1>12, <1>13, <1>14, <1>15, <1>16
     DEF Next, BootStep, KeychainStep, LoginAnswered

-----------------------------------------------------------------------------
(* Three kinds of steps: those that leave the queue alone, those that issue *)
(* operations, and those of the keychain.                                   *)

QuietStep ==
  \/ LoadNothing \/ LoadSession \/ LoadExpired \/ LoadFails \/ AutoLoginRefused
  \/ Login \/ LoginRefused \/ AskLogout \/ CancelLogout
  \/ \E s \in Sessions : Expire(s)
  \/ \E c \in Logouts : ConfirmLogout(c) /\ session # Nothing

IssueStep ==
  \/ LoadDamaged \/ BootObtains \/ RefreshRefused \/ LoginObtains
  \/ \E c \in Logouts : LogoutAnswered(c) \/ (ConfirmLogout(c) /\ session = Nothing)

TailStep == EntryWritten \/ SessionSaved \/ EntryKept \/ Cleared \/ DamageErased

LEMMA Kinds ==
  ASSUME Next
  PROVE  QuietStep \/ IssueStep \/ TailStep \/ SaveRejected \/ Crash
BY DEF Next, BootStep, KeychainStep, LoginAnswered, QuietStep, IssueStep, TailStep

LEMMA QuietStepIs ==
  ASSUME TypeOK, Control, QuietStep
  PROVE  /\ UNCHANGED <<operations, keychain, issued, ended>> /\ (faults' = 0 => faults = 0)
         /\ \A c \in Calls : Waits(c) /\ (SavesBy(c)' => SavesBy(c))
         /\ status' = "authed" => \/ status = "authed" /\ session' = session
                                  \/ LoadSession /\ operations = <<>>
<1> USE CallsAre DEF TypeOK, Control, BootLabels, LoginLabels, Goto, Waits, SavesBy, ClearsBy, store, served, counters
<1>1. CASE LoadNothing
  BY <1>1 DEF LoadNothing, Anonymous
<1>2. CASE LoadSession
  BY <1>2 DEF LoadSession, Authed
<1>3. CASE LoadExpired
  BY <1>3 DEF LoadExpired
<1>4. CASE LoadFails
  <2>1. faults' # 0
    BY <1>4 DEF LoadFails
  <2> QED BY <1>4, <2>1 DEF LoadFails, Anonymous
<1>5. CASE AutoLoginRefused
  BY <1>5 DEF AutoLoginRefused, Anonymous
<1>6. CASE Login
  BY <1>6 DEF Login
<1>7. CASE LoginRefused
  BY <1>7 DEF LoginRefused
<1>8. CASE AskLogout \/ CancelLogout \/ \E s \in Sessions : Expire(s)
  <2>1. UNCHANGED <<operations, keychain, pc, issued, ended, faults, status, session>>
    BY <1>8 DEF AskLogout, CancelLogout, Expire
  <2> QED BY <2>1
<1>9. CASE \E c \in Logouts : ConfirmLogout(c) /\ session # Nothing
  <2>1. PICK c \in Logouts : ConfirmLogout(c) /\ session # Nothing
    BY <1>9
  <2>2. /\ UNCHANGED <<operations, keychain, issued, ended, faults, status, session>>
        /\ pc[c] = "none" /\ pc' = [pc EXCEPT ![c] = "server"]
    BY <2>1 DEF ConfirmLogout
  <2> QED BY <2>2
<1> QED BY <1>1, <1>2, <1>3, <1>4, <1>5, <1>6, <1>7, <1>8, <1>9 DEF QuietStep

\* A call that waits for nothing issues the writes of a new session, or erasures.
Issuing(c, s) ==
  /\ Issue(c, s)
  /\ issued' \in Nat /\ issued <= issued' /\ s <= issued'
  /\ ~SavesBy(c) /\ ~ClearsBy(c) /\ \A d \in Calls : Waits(d) /\ (SavesBy(d)' => SavesBy(d) \/ d = c)
  /\ (\E d \in Calls : SavesBy(d)) => c \in Logouts
  /\ \/ SavesBy(c)' /\ s = issued' /\ s = issued + 1
     \/ ClearsBy(c)' /\ ~SavesBy(c)' /\ s = None /\ issued' = issued

LEMMA IssueStepIs ==
  ASSUME TypeOK, Control, Queue, IssueStep
  PROVE  \E c \in Calls, s \in Entry :
           /\ Issuing(c, s) /\ UNCHANGED <<keychain, ended>> /\ (faults' = 0 => faults = 0)
           /\ status' = "authed" => status = "authed" /\ session' = session /\ c \in Logouts
<1> USE CallsAre DEF Control, BootLabels, LoginLabels, Goto, Issuing, Waits, SavesBy, ClearsBy, store, served, counters
<1>0. /\ issued \in Nat /\ faults \in Nat /\ None \in Entry /\ None = 0 /\ Sessions \subseteq Entry
      /\ pc \in [Calls -> Labels]
  BY DEF TypeOK, None, Entry
<1>1. CASE LoadDamaged
  <2>1. faults' # 0
    BY <1>0, <1>1 DEF LoadDamaged
  <2>2. Issuing("boot", None) /\ UNCHANGED <<keychain, ended>> /\ status' # "authed"
    BY <1>0, <1>1 DEF LoadDamaged
  <2> QED BY <1>0, <2>1, <2>2
<1>2. CASE BootObtains
  <2>1. PICK s \in Sessions : Fresh(s) /\ Issue("boot", s)
    BY <1>2 DEF BootObtains
  <2>2. s \in Entry /\ s = issued + 1 /\ issued' = s
    BY <1>0, <2>1 DEF Fresh
  <2>3. Issuing("boot", s) /\ UNCHANGED <<keychain, ended, faults>> /\ status' # "authed"
    BY <1>0, <1>2, <2>1, <2>2 DEF BootObtains
  <2> QED BY <2>2, <2>3
<1>3. CASE RefreshRefused
  <2>1. Issuing("boot", None) /\ UNCHANGED <<keychain, ended, faults>> /\ status' # "authed"
    BY <1>0, <1>3 DEF RefreshRefused
  <2> QED BY <1>0, <2>1
<1>4. CASE LoginObtains
  <2>1. PICK s \in Sessions : Fresh(s) /\ Issue("login", s)
    BY <1>4 DEF LoginObtains
  <2>2. s \in Entry /\ s = issued + 1 /\ issued' = s
    BY <1>0, <2>1 DEF Fresh
  <2>3. Issuing("login", s) /\ UNCHANGED <<keychain, ended, faults>> /\ status' # "authed"
    BY <1>0, <1>4, <2>1, <2>2 DEF LoginObtains
  <2> QED BY <2>2, <2>3
<1>5. ASSUME NEW c \in Logouts, LogoutAnswered(c) \/ (ConfirmLogout(c) /\ session = Nothing)
      PROVE  /\ Issuing(c, None) /\ UNCHANGED <<keychain, ended>> /\ (faults' = 0 => faults = 0)
             /\ status' = "authed" => status = "authed" /\ session' = session
  <2>1. /\ pc[c] \in {"none", "server"} /\ pc' = [pc EXCEPT ![c] = "clear"] /\ Issue(c, None)
        /\ UNCHANGED <<keychain, ended, issued, faults, status, session>>
    BY <1>5 DEF LogoutAnswered, ConfirmLogout
  <2> QED BY <1>0, <2>1
<1>6. CASE \E c \in Logouts : LogoutAnswered(c) \/ (ConfirmLogout(c) /\ session = Nothing)
  BY <1>0, <1>5, <1>6
<1> QED BY <1>1, <1>2, <1>3, <1>4, <1>6 DEF IssueStep

LEMMA TailStepIs ==
  ASSUME TypeOK, Control, Queue, TailStep
  PROVE  /\ operations # <<>> /\ operations' = Tail(operations) /\ issued' = issued /\ (faults' = 0 => faults = 0)
         /\ \A c \in Calls : /\ c # Op.call \/ Op.entry # "meta" => Waits(c)
                             /\ SavesBy(c)' => SavesBy(c)
         /\ \/ keychain' = [keychain EXCEPT ![Op.entry] = Op.value]
            \/ keychain' = keychain /\ faults' # 0 /\ ~Saving
         /\ status' = "authed" => \/ SessionSaved
                                  \/ /\ status = "authed" /\ session' = session
                                     /\ Op.entry # "meta" \/ Op.call = "nobody"
         /\ Cleared \/ UNCHANGED ended
<1> USE DEF Goto, store, served, counters, Last, Entries
<1>0. /\ pc \in [Calls -> Labels] /\ faults \in Nat /\ Control
      /\ operations # <<>> /\ Op.call # "nobody" => Op.call \in Calls
      /\ Settles => Op.entry = "meta" /\ Op.call # "nobody" /\ operations # <<>>
  BY Heads DEF TypeOK, Operation, Settles
<1>1. \A c \in Calls : pc'[c] = pc[c] /\ issued' = issued => Waits(c) /\ (SavesBy(c)' => SavesBy(c))
  BY DEF Waits, SavesBy, ClearsBy
<1>2. \A c \in Calls : pc'[c] \in {"none", "erased"} => ~SavesBy(c)'
  BY DEF SavesBy
<1>3. crashes + faults < MaxMishaps /\ faults' = faults + 1 => faults' # 0
  BY <1>0
<1>4. CASE EntryWritten
  BY <1>0, <1>1, <1>4 DEF EntryWritten, Execute, Settles
<1>5. CASE SessionSaved
  BY <1>0, <1>1, <1>2, <1>5 DEF SessionSaved, Saving, Execute
<1>6. CASE EntryKept
  BY <1>0, <1>1, <1>3, <1>6 DEF EntryKept, Skip, Ignored, Settles
<1>7. CASE Cleared \/ DamageErased
  <2>1. /\ operations # <<>> /\ Op.call \in Calls /\ Op.entry = "meta" /\ ~Saving
        /\ issued' = issued
        /\ \/ keychain' = [keychain EXCEPT ![Op.entry] = Op.value] /\ operations' = Tail(operations) /\ faults' = faults
           \/ keychain' = keychain /\ operations' = Tail(operations) /\ crashes + faults < MaxMishaps /\ faults' = faults + 1
    BY <1>0, <1>7 DEF Cleared, DamageErased, Settles, Execute, Skip, Ignored, Anonymous
  <2>2. pc' = [pc EXCEPT ![Op.call] = "none"] \/ pc' = [pc EXCEPT ![Op.call] = "erased"]
    BY <1>7 DEF Cleared, DamageErased
  <2>3. \A c \in Calls : (c # Op.call => pc'[c] = pc[c]) /\ (c = Op.call => pc'[c] \in {"none", "erased"})
    BY <1>0, <2>1, <2>2
  <2>4. status' # "authed"
    <3>1. CASE Cleared
      BY <3>1 DEF Cleared, Anonymous
    <3>2. CASE DamageErased
      <4>1. pc[Op.call] = "eraseDamaged" /\ status' = status
        BY <3>2 DEF DamageErased
      <4>2. Op.call = "boot"
        BY <1>0, <2>1, <4>1, CallsAre DEF Control, LoginLabels
      <4> QED BY <1>0, <4>1, <4>2 DEF Control
    <3> QED BY <1>7, <3>1, <3>2
  <2>5. Cleared \/ UNCHANGED ended
    BY <1>7 DEF DamageErased
  <2>6. \A c \in Calls : /\ c # Op.call \/ Op.entry # "meta" => Waits(c)
                         /\ SavesBy(c)' => SavesBy(c)
    BY <1>1, <1>2, <2>1, <2>3
  <2>7. faults' = 0 => faults = 0
    BY <1>3, <2>1
  <2> QED BY <1>3, <2>1, <2>4, <2>5, <2>6, <2>7
<1> QED BY <1>4, <1>5, <1>6, <1>7 DEF TailStep

-----------------------------------------------------------------------------
(* The queue.                                                               *)

\* A rejected save is given up; a refresh also erases.
LEMMA RejectedIs ==
  ASSUME TypeOK, Control, Queue, SaveRejected
  PROVE  /\ Queue' /\ operations' \in Seq(Operation)
         /\ operations' # <<>> => Op'.call = "nobody" \/ Op'.entry = "access"
         /\ status' # "authed" /\ faults' # 0 /\ UNCHANGED <<keychain, issued, ended, current>>
         /\ \A c \in Calls : SavesBy(c)' => SavesBy(c)
<1>. PICK c : c = Op.call
  OBVIOUS
<1>. PICK t : t = Tail(operations)
  OBVIOUS
<1>. PICK rest : rest = Abandoned(t, c)
  OBVIOUS
<1>1. /\ operations # <<>> /\ Op = operations[1] /\ Op \in Operation
      /\ c \in Calls /\ c \notin Logouts /\ SavesBy(c) /\ c # "nobody"
  BY Heads, CallsAre DEF SaveRejected, Saving
<1>2. /\ operations \in Seq(Operation) /\ issued \in Nat /\ faults \in Nat /\ pc \in [Calls -> Labels]
      /\ None \in Entry /\ Together(operations) /\ LastOfCall(operations)
  BY DEF TypeOK, Operation, Entry, Queue
<1>3. /\ IsQueue(t) /\ Len(operations) \in Nat \ {0} /\ Len(t) = Len(operations) - 1
      /\ \A n \in 1..Len(t) : t[n] = operations[n + 1] /\ n + 1 \in 1..Len(operations)
  BY <1>1, <1>2, TailFacts, TailKeeps DEF IsQueue
<1>4. /\ IsQueue(rest) /\ rest \in Seq(Operation) /\ Len(rest) = Len(t) /\ Together(rest) /\ LastOfCall(rest)
      /\ \A n \in 1..Len(t) : /\ rest[n].value = t[n].value /\ rest[n].entry = t[n].entry
                              /\ rest[n].call = IF t[n].call = c THEN "nobody" ELSE t[n].call
  <2>1. IsQueue(rest) /\ GivenUp(rest, t, c)
    BY <1>1, <1>3, AbandonedKeeps
  <2> QED BY <2>1 DEF IsQueue, GivenUp
<1>5. /\ faults' # 0 /\ status' # "authed" /\ UNCHANGED <<keychain, issued, ended, current>>
      /\ \/ /\ c = "boot" /\ pc' = [pc EXCEPT !["boot"] = "clear"]
            /\ operations' = rest \o Batch("boot", None)
         \/ pc' = [pc EXCEPT ![c] = "none"] /\ operations' = rest
  <2>1. status' # "authed"
    BY <1>1 DEF SaveRejected, Anonymous, store, Control, SavesBy
  <2>2. faults' # 0
    BY <1>2 DEF SaveRejected
  <2>3. pc[c] = "saveRefreshed" => c = "boot"
    BY <1>1 DEF SavesBy, Control, LoginLabels
  <2> QED BY <2>1, <2>2, <2>3 DEF SaveRejected, served, Goto
<1>6. /\ pc' \in [Calls -> Labels] /\ \A d \in Calls : d # c => pc'[d] = pc[d]
      /\ pc'[c] \in {"none", "clear"}
  BY <1>1, <1>2, <1>5 DEF Labels
<1>7. /\ \A d \in Calls : d # c => Waits(d)
      /\ \A d \in Calls : SavesBy(d)' => SavesBy(d)
  BY <1>1, <1>5, <1>6 DEF Waits, SavesBy, ClearsBy
<1>8. ASSUME NEW n \in 1..Len(rest)
      PROVE  Awaited(rest[n])' /\ rest[n].value <= issued' /\ rest[n].call # c
  <2>. PICK o : o = operations[n + 1]
    OBVIOUS
  <2>1. o \in Operation /\ Awaited(o) /\ o.value <= issued /\ t[n] = o
    BY <1>2, <1>3, <1>4 DEF Queue
  <2>2. /\ rest[n].value = o.value /\ rest[n].call = IF o.call = c THEN "nobody" ELSE o.call
    BY <1>4, <2>1
  <2>3. o.call # "nobody" => o.call \in Calls
    BY <2>1 DEF Operation
  <2>4. rest[n].call # "nobody" => /\ rest[n].call = o.call /\ o.call # "nobody" /\ o.call # c /\ Waits(o.call)
    BY <1>7, <2>2, <2>3
  <2> QED BY <1>1, <1>5, <2>1, <2>2, <2>4 DEF Awaited, Waits
<1>9. CASE operations' = rest
  <2>1. Queue'
    BY <1>4, <1>8, <1>9 DEF Queue, Together, LastOfCall
  <2>2. operations' # <<>> => Op'.call = "nobody" \/ Op'.entry = "access"
    <3>1. SUFFICES ASSUME rest # <<>> PROVE rest[1].call = "nobody" \/ rest[1].entry = "access"
      BY <1>4, <1>9, TailFacts DEF Op
    <3>2. 1 \in 1..Len(t) /\ t[1] = operations[2] /\ 1 \in 1..Len(operations) /\ 1 < Len(operations) /\ 1 + 1 = 2
      BY <1>3, <1>4, <3>1
    <3>3. \/ operations[2] = [operations[1] EXCEPT !.entry = "refresh"]
          \/ operations[2] = [operations[1] EXCEPT !.entry = "meta"]
          \/ operations[2].entry = "access"
      BY <1>1, <1>2, <3>2 DEF Together, Operation, Services
    <3> QED BY <1>1, <1>4, <3>2, <3>3 DEF Operation
  <2> QED BY <1>4, <1>5, <1>7, <1>9, <2>1, <2>2
<1>10. CASE c = "boot" /\ pc' = [pc EXCEPT !["boot"] = "clear"] /\ operations' = rest \o Batch("boot", None)
  <2>1. \A n \in 1..Len(rest) : rest[n].call # "nobody" /\ rest[n].value # None => "boot" \in Logouts
    <3>1. ASSUME NEW n \in 1..Len(rest), rest[n].call # "nobody", rest[n].value # None PROVE FALSE
      <4>1. SavesBy(rest[n].call)' /\ rest[n].call \in Calls /\ rest[n].call # c
        <5>1. rest[n] \in Operation
          BY <1>4, <3>1
        <5> QED BY <1>8, <3>1, <5>1 DEF Awaited, Operation
      <4>2. SavesBy("login")
        BY <1>7, <1>10, <4>1 DEF SavesBy
      <4> QED BY <1>1, <1>10, <4>2 DEF SavesBy, Control
    <3> QED BY <3>1
  <2>2. IsQueue(operations') /\ Extends(operations', rest, "boot", None)
    <3>1. "boot" \in Calls /\ MayIssue(rest, "boot")
      BY <1>8, <1>10, <2>1, CallsAre DEF MayIssue
    <3> QED BY <1>2, <1>4, <1>10, <3>1, IssueKeeps
  <2>3. ClearsBy("boot")'
    BY <1>2, <1>10, CallsAre DEF ClearsBy
  <2>4. ASSUME NEW n \in 1..Len(operations')
        PROVE  Awaited(operations[n])' /\ operations'[n].value <= issued'
    <3>1. CASE operations'[n].call = "boot" /\ operations'[n].value = None
      BY <1>2, <1>5, <2>3, <3>1 DEF Awaited, None
    <3>2. CASE n \in 1..Len(rest) /\ operations'[n] = rest[n]
      BY <1>8, <3>2 DEF Awaited
    <3> QED BY <2>2, <3>1, <3>2 DEF Extends
  <2>5. Queue'
    BY <2>2, <2>4 DEF Queue, IsQueue, Together, LastOfCall
  <2>6. Op'.call = "nobody" \/ Op'.entry = "access"
    <3>1. Op' = operations'[1] /\ 1 \in 1..Len(operations')
      BY <2>2, TailFacts DEF Op, IsQueue, Extends
    <3>2. CASE 1 \in 1..Len(rest) /\ operations'[1] = rest[1]
      <4>1. 1 \in 1..Len(t) /\ t[1] = operations[2] /\ 1 \in 1..Len(operations) /\ 1 < Len(operations) /\ 1 + 1 = 2
        BY <1>3, <1>4, <3>2
      <4>2. \/ operations[2] = [operations[1] EXCEPT !.entry = "refresh"]
            \/ operations[2] = [operations[1] EXCEPT !.entry = "meta"]
            \/ operations[2].entry = "access"
        BY <1>1, <1>2, <4>1 DEF Together, Operation, Services
      <4>3. operations[2].call = c \/ operations[2].entry = "access"
        BY <1>1, <4>2 DEF Operation
      <4>4. rest[1].call = "nobody" \/ rest[1].entry = "access"
        BY <1>4, <4>1, <4>3
      <4> QED BY <3>1, <3>2, <4>4
    <3> QED BY <2>2, <3>1, <3>2 DEF Extends
  <2> QED BY <1>5, <1>7, <2>2, <2>5, <2>6 DEF IsQueue
<1> QED BY <1>5, <1>9, <1>10

LEMMA QueueStep ==
  ASSUME TypeOK, Control, Queue, Next
  PROVE  Queue'
<1>0. operations \in Seq(Operation) /\ issued \in Nat
  BY DEF TypeOK, Operation
<1>1. CASE QuietStep
  BY <1>0, <1>1, QuietStepIs, QueueStays
<1>2. CASE IssueStep
  <2>1. PICK c \in Calls, s \in Entry : Issuing(c, s)
    BY <1>2, IssueStepIs
  <2>2. s = issued + 1 => s # None
    BY <1>0 DEF None
  <2> QED BY <2>1, <2>2, QueueIssued DEF Issuing
<1>3. CASE TailStep
  BY <1>3, TailStepIs, QueueTail
<1>4. CASE SaveRejected
  BY <1>4, RejectedIs
<1>5. CASE Crash
  <2>1. operations' = <<>>
    BY <1>5 DEF Crash
  <2> QED BY <2>1 DEF Queue, Together, LastOfCall
<1> QED BY <1>1, <1>2, <1>3, <1>4, <1>5, Kinds

\* An operation executed, the next one of its batch is due.
LEMMA ExecutedStep ==
  ASSUME TypeOK, Control, Queue, Executed, Next
  PROVE  Executed'
<1>0. /\ operations \in Seq(Operation) /\ issued \in Nat /\ keychain \in [Services -> Entry]
      /\ operations # <<>> => Op = operations[1] /\ Op \in Operation
  BY Heads DEF TypeOK, Operation
<1>1. CASE QuietStep
  BY <1>1, QuietStepIs DEF Executed, Op
<1>2. CASE IssueStep
  <2>1. PICK c \in Calls, s \in Entry : Issuing(c, s) /\ UNCHANGED keychain /\ (faults' = 0 => faults = 0)
    BY <1>2, IssueStepIs
  <2>2. s = issued + 1 => s # None
    BY <1>0 DEF None
  <2>3. operations' \in Seq(Operation) /\ Extends(operations', operations, c, s)
    BY <2>1, <2>2, QueueIssued DEF Issuing
  <2>4. Op' = operations'[1] /\ 1 \in 1..Len(operations')
    BY <2>3, TailFacts DEF Op, Extends
  <2>5. (operations # <<>> /\ Op' = Op) \/ Op'.entry = "access"
    BY <1>0, <2>3, <2>4 DEF Extends
  <2> QED BY <2>1, <2>5 DEF Executed
<1>3. CASE TailStep
  <2>1. SUFFICES ASSUME operations' # <<>>, Op'.call # "nobody", Op'.value # None \/ faults' = 0
                 PROVE  /\ Op'.entry # "access" => keychain'["access"] = Op'.value
                        /\ Op'.entry = "meta" => keychain'["refresh"] = Op'.value
    BY DEF Executed
  <2>2. /\ operations # <<>> /\ Op.entry \in Services /\ (faults' = 0 => faults = 0)
        /\ \/ keychain' = [keychain EXCEPT ![Op.entry] = Op.value]
           \/ faults' # 0 /\ ~Saving
    BY <1>0, <1>3, TailStepIs DEF Operation
  <2>3. /\ Op.entry # "meta" => Op' = [Op EXCEPT !.entry = Op'.entry]
        /\ Op.entry = "access" => Op'.entry = "refresh"
        /\ Op.entry = "refresh" => Op'.entry = "meta"
        /\ Op.entry = "meta" => Op'.entry = "access"
    BY <1>3, <2>1, TailStepIs, QueueTail
  <2>4. CASE Op.entry = "meta"
    BY <2>3, <2>4
  <2>5. CASE Op.entry # "meta"
    <3>1. Op'.call = Op.call /\ Op'.value = Op.value
      BY <1>0, <2>2, <2>3, <2>5 DEF Operation
    <3>2. ~Saving => Op.value = None
      BY <2>1, <2>2, <3>1, Heads
    <3>3. keychain' = [keychain EXCEPT ![Op.entry] = Op.value]
      BY <2>1, <2>2, <3>1, <3>2
    <3>4. Op.entry # "access" => keychain["access"] = Op.value
      BY <2>1, <2>2, <3>1 DEF Executed
    <3> QED BY <1>0, <2>2, <2>3, <2>5, <3>1, <3>3, <3>4 DEF Services
  <2> QED BY <2>4, <2>5
<1>4. CASE SaveRejected
  BY <1>4, RejectedIs DEF Executed
<1>5. CASE Crash
  BY <1>5 DEF Crash, Executed
<1> QED BY <1>1, <1>2, <1>3, <1>4, <1>5, Kinds

-----------------------------------------------------------------------------
(* The session in use.                                                      *)

\* The last write of a save: the three entries are those of the session, and only logouts are at work.
LEMMA SavedIs ==
  ASSUME TypeOK, Control, Queue, Executed, SessionSaved
  PROVE  /\ keychain' = Whole(Op.value) /\ session' = Whole(Op.value)
         /\ Op.value = issued /\ Op.value \in Sessions
         /\ \A n \in 1..Len(operations') : operations'[n].call \in Logouts
<1>0. /\ operations \in Seq(Operation) /\ operations # <<>> /\ keychain \in [Services -> Entry]
      /\ Op = operations[1] /\ Op \in Operation /\ Saving
      /\ Op.call # "nobody" /\ Op.value = issued /\ Op.value \in Sessions /\ Op.value # None
  BY Heads DEF TypeOK, Operation, SessionSaved, Settles, Sessions, None
<1>1. Op.entry = "meta"
  BY DEF SessionSaved, Settles, Last, Entries
<1>2. keychain["access"] = Op.value /\ keychain["refresh"] = Op.value
  BY <1>0, <1>1 DEF Executed
<1>3. keychain' = [keychain EXCEPT !["meta"] = Op.value]
  BY <1>1 DEF SessionSaved, Execute
<1>4. keychain' = Whole(Op.value)
  <2>1. \A e \in Services : keychain'[e] = Op.value
    BY <1>0, <1>2, <1>3 DEF Services
  <2>2. keychain' = [e \in Services |-> keychain'[e]]
    BY <1>0, <1>3
  <2> QED BY <2>1, <2>2 DEF Whole
<1>5. ASSUME NEW n \in 1..Len(operations') PROVE operations'[n].call \in Logouts
  <2>1. /\ Len(operations) \in Nat \ {0} /\ n + 1 \in 1..Len(operations) /\ 1 \in 1..Len(operations) /\ 1 < n + 1
        /\ operations'[n] = operations[n + 1]
    BY <1>0, TailFacts DEF SessionSaved, Execute
  <2> QED BY <1>0, <1>1, <2>1 DEF Queue, LastOfCall
<1> QED BY <1>0, <1>4, <1>5 DEF SessionSaved, Authed

LEMMA StoredStep ==
  ASSUME TypeOK, Control, Queue, Executed, Stored, Next
  PROVE  Stored'
<1>0. /\ operations \in Seq(Operation) /\ issued \in Nat
      /\ operations # <<>> => Op = operations[1] /\ Op \in Operation /\ 1 \in 1..Len(operations)
  BY Heads, TailFacts DEF TypeOK, Operation
<1>1. CASE QuietStep
  BY <1>1, QuietStepIs DEF Stored, LoadSession, Authed
<1>2. CASE IssueStep
  <2>1. PICK c \in Calls, s \in Entry :
          Issuing(c, s) /\ (status' = "authed" => status = "authed" /\ c \in Logouts)
    BY <1>2, IssueStepIs
  <2>2. s = issued + 1 => s # None
    BY <1>0 DEF None
  <2>3. Extends(operations', operations, c, s)
    BY <2>1, <2>2, QueueIssued DEF Issuing
  <2> QED BY <2>1, <2>3 DEF Extends, Stored
<1>3. CASE TailStep
  <2>1. CASE SessionSaved
    BY <2>1, SavedIs DEF Stored
  <2>2. CASE status = "authed" /\ session' = session /\ (Op.entry # "meta" \/ Op.call = "nobody")
    <3>1. Op.call # "nobody" /\ operations # <<>>
      BY <1>0, <1>3, <2>2, TailStepIs, CallsAre DEF Stored
    <3>2. operations' # <<>> /\ \A n \in 1..Len(operations') : n + 1 \in 1..Len(operations) /\ operations'[n] = operations[n + 1]
      BY <1>3, <2>2, <3>1, TailStepIs, QueueTail
    <3> QED BY <2>2, <3>2 DEF Stored
  <2> QED BY <1>3, <2>1, <2>2, TailStepIs DEF Stored
<1>4. CASE SaveRejected
  BY <1>4, RejectedIs DEF Stored
<1>5. CASE Crash
  BY <1>5 DEF Crash, Stored
<1> QED BY <1>1, <1>2, <1>3, <1>4, <1>5, Kinds

\* The session in use changes only by bootstrap and by a save, or is dropped.
LEMMA SessionStep ==
  ASSUME Next
  PROVE  \/ session' = session \/ session' = Nothing
         \/ LoadSession /\ session' = keychain /\ UNCHANGED <<keychain, issued>>
         \/ SessionSaved
<1> USE DEF store, served
<1>1. CASE BootStep
  BY <1>1 DEF BootStep, LoadNothing, LoadSession, LoadExpired, LoadDamaged, LoadFails, BootObtains,
              RefreshRefused, AutoLoginRefused, Anonymous, Authed
<1>2. CASE KeychainStep
  BY <1>2 DEF KeychainStep, EntryWritten, SaveRejected, EntryKept, Cleared, DamageErased, Anonymous
<1>3. CASE LoginAnswered \/ Login \/ AskLogout \/ CancelLogout
  BY <1>3 DEF LoginAnswered, LoginObtains, LoginRefused, Login, AskLogout, CancelLogout
<1>4. ASSUME NEW c \in Logouts, ConfirmLogout(c) \/ LogoutAnswered(c) PROVE session' = session
  BY <1>4 DEF ConfirmLogout, LogoutAnswered
<1>5. CASE Crash \/ \E s \in Sessions : Expire(s)
  BY <1>5 DEF Crash, Expire
<1> QED BY <1>1, <1>2, <1>3, <1>4, <1>5 DEF Next

\* What a call remembers: the session it obtained, or a logout the one that was in use.
LEMMA CurrentStep ==
  ASSUME TypeOK, Control, Next
  PROVE  \A c \in Calls : \/ current'[c] = current[c] \/ current'[c] = None
                          \/ current'[c] = issued' /\ c \notin Logouts
                          \/ current'[c] = session["access"] /\ issued' = issued /\ ~\E d \in Calls : SavesBy(d)
<1> USE CallsAre DEF served
<1>0. current \in [Calls -> Entry]
  BY DEF TypeOK
<1>1. CASE BootObtains
  <2>1. PICK s \in Sessions : Fresh(s) /\ Hold("boot", s)
    BY <1>1 DEF BootObtains
  <2> QED BY <1>0, <2>1 DEF Fresh, Hold
<1>2. CASE LoginObtains
  <2>1. PICK s \in Sessions : Fresh(s) /\ Hold("login", s)
    BY <1>2 DEF LoginObtains
  <2> QED BY <1>0, <2>1 DEF Fresh, Hold
<1>3. ASSUME NEW c \in Logouts, ConfirmLogout(c)
      PROVE  /\ current' = [current EXCEPT ![c] = session["access"]] /\ issued' = issued
             /\ (\E d \in Calls : SavesBy(d)) => session["access"] = None
  <2>1. /\ confirming /\ current' = [current EXCEPT ![c] = session["access"]] /\ issued' = issued
    BY <1>3 DEF ConfirmLogout, Hold
  <2>2. ASSUME NEW d \in Calls, SavesBy(d) PROVE status # "authed"
    BY <2>1, <2>2 DEF SavesBy, Control
  <2>3. status # "authed" => session["access"] = None
    BY DEF TypeOK, Nothing, Services
  <2> QED BY <2>1, <2>2, <2>3
<1>4. CASE \E c \in Logouts : ConfirmLogout(c)
  <2>1. PICK c \in Logouts : ConfirmLogout(c)
    BY <1>4
  <2>2. \A d \in Calls : d # c => current'[d] = current[d]
    BY <1>0, <1>3, <2>1
  <2>3. current'[c] = session["access"]
    BY <1>0, <1>3, <2>1
  <2> QED BY <1>3, <2>1, <2>2, <2>3
<1>5. CASE Crash
  BY <1>5 DEF Crash
<1>6. CASE \E c \in Logouts : LogoutAnswered(c)
  BY <1>6 DEF LogoutAnswered
<1>7. CASE \E s \in Sessions : Expire(s)
  BY <1>7 DEF Expire
<1>8. CASE KeychainStep
  BY <1>8 DEF KeychainStep, EntryWritten, SessionSaved, SaveRejected, EntryKept, Cleared, DamageErased
<1>9. CASE LoadNothing \/ LoadSession \/ LoadExpired \/ LoadDamaged \/ LoadFails \/ RefreshRefused \/ AutoLoginRefused
  BY <1>9 DEF LoadNothing, LoadSession, LoadExpired, LoadDamaged, LoadFails, RefreshRefused, AutoLoginRefused
<1>10. CASE Login \/ LoginRefused \/ AskLogout \/ CancelLogout
  BY <1>10 DEF Login, LoginRefused, AskLogout, CancelLogout
<1> QED BY <1>1, <1>2, <1>4, <1>5, <1>6, <1>7, <1>8, <1>9, <1>10 DEF Next, BootStep, LoginAnswered

-----------------------------------------------------------------------------
(* The keychain and the sessions that ended.                                *)

\* A step writes the head of the queue to the keychain, or leaves it; a clear ends the session it was for.
LEMMA KeychainIs ==
  ASSUME TypeOK, Control, Queue, Next
  PROVE  /\ \/ keychain' = keychain
            \/ operations # <<>> /\ keychain' = [keychain EXCEPT ![Op.entry] = Op.value]
         /\ issued' \in Nat /\ issued <= issued'
         /\ ended' = ended \/ Cleared
         /\ (\E c \in Calls : SavesBy(c)') =>
              \/ (\E c \in Calls : SavesBy(c)) /\ issued' = issued
              \/ issued' = issued + 1 /\ ended' = ended
         /\ faults' = 0 => faults = 0 /\ ~SaveRejected
<1>0. issued \in Nat /\ faults \in Nat
  BY DEF TypeOK
<1>1. CASE QuietStep
  <2>1. faults' = 0 => ~SaveRejected
    BY <1>0 DEF SaveRejected
  <2> QED BY <1>0, <1>1, <2>1, QuietStepIs
<1>2. CASE IssueStep
  <2>1. faults' = 0 => ~SaveRejected
    BY <1>0 DEF SaveRejected
  <2>2. PICK c \in Calls, s \in Entry : Issuing(c, s) /\ UNCHANGED <<keychain, ended>> /\ (faults' = 0 => faults = 0)
    BY <1>2, IssueStepIs
  <2>3. (\E d \in Calls : SavesBy(d)') => ((\E d \in Calls : SavesBy(d)) /\ issued' = issued) \/ issued' = issued + 1
    BY <2>2 DEF Issuing, Waits
  <2> QED BY <1>0, <2>1, <2>2, <2>3 DEF Issuing
<1>3. CASE TailStep
  <2>1. faults' = 0 => ~SaveRejected
    BY <1>0 DEF SaveRejected
  <2> QED BY <1>0, <1>3, <2>1, TailStepIs
<1>4. CASE SaveRejected
  BY <1>0, <1>4, RejectedIs
<1>5. CASE Crash
  <2>1. ~\E c \in Calls : SavesBy(c)'
    BY <1>5, CallsAre DEF Crash, SavesBy
  <2>2. UNCHANGED <<keychain, issued, ended, faults>>
    BY <1>5 DEF Crash, served
  <2>3. faults' = 0 => ~SaveRejected
    BY <1>0 DEF SaveRejected
  <2> QED BY <1>0, <2>1, <2>2, <2>3
<1> QED BY <1>1, <1>2, <1>3, <1>4, <1>5, Kinds

\* The call whose clear ends is a logout while some call saves a session.
LEMMA ClearedIs ==
  ASSUME TypeOK, Control, Queue, Cleared
  PROVE  /\ operations # <<>> /\ Op.call \in Calls /\ Op.entry = "meta" /\ Op.value = None /\ ~Saving
         /\ ended' = ended \cup ({current[Op.call]} \ {None}) /\ issued' = issued
         /\ (\E c \in Calls : SavesBy(c)) => Op.call \in Logouts
         /\ faults' = 0 => keychain' = [keychain EXCEPT ![Op.entry] = Op.value] /\ faults = 0
<1>1. operations # <<>> /\ Op.call # "nobody" /\ Op.entry = "meta" /\ ~Saving /\ pc[Op.call] = "clear"
  BY DEF Cleared, Settles, Last, Entries
<1>2. Op.call \in Calls /\ Op.value = None
  BY <1>1, Heads DEF Operation
<1>3. (\E c \in Calls : SavesBy(c)) => Op.call \in Logouts
  BY <1>1, <1>2, CallsAre DEF SavesBy, Control, LoginLabels
<1>4. faults' = 0 => keychain' = [keychain EXCEPT ![Op.entry] = Op.value] /\ faults = 0
  <2>1. faults \in Nat
    BY DEF TypeOK
  <2> QED BY <2>1 DEF Cleared, Execute, Ignored, counters
<1> QED BY <1>1, <1>2, <1>3, <1>4 DEF Cleared, served

LEMMA OrderStep ==
  ASSUME TypeOK, Control, Queue, Executed, Order, Next
  PROVE  Order'
<1>0. /\ issued \in Nat /\ issued' \in Nat /\ issued <= issued' /\ keychain \in [Services -> Entry]
      /\ current \in [Calls -> Entry] /\ None = 0 /\ Entry \subseteq Nat /\ "access" \in Services
      /\ ended \subseteq 1..issued
  BY KeychainIs DEF TypeOK, Order, Entry, Sessions, None, Services
<1>1. ASSUME NEW e \in Services PROVE keychain'[e] <= issued'
  <2>1. operations # <<>> => Op.value <= issued /\ Op.value \in Nat
    BY <1>0, Heads DEF Operation
  <2>2. keychain[e] <= issued /\ keychain[e] \in Nat
    BY <1>0 DEF Order
  <2>3. CASE keychain' = keychain
    BY <1>0, <2>2, <2>3
  <2>4. CASE operations # <<>> /\ keychain' = [keychain EXCEPT ![Op.entry] = Op.value]
    <3>1. keychain'[e] = keychain[e] \/ keychain'[e] = Op.value
      BY <1>0, <2>4
    <3> QED BY <1>0, <2>1, <2>2, <2>4, <3>1
  <2> QED BY <2>3, <2>4, KeychainIs
<1>2. ASSUME NEW c \in Calls PROVE current'[c] <= issued'
  <2>1. current[c] \in Nat /\ current[c] <= issued
    BY <1>0 DEF Order
  <2>2. session["access"] <= issued
    BY DEF Order
  <2> QED BY <1>0, <2>1, <2>2, CurrentStep
<1>3. ended' \subseteq 1..issued'
  <2>1. CASE ended' = ended
    BY <1>0, <2>1
  <2>2. CASE Cleared
    <3>1. ended' = ended \cup ({current[Op.call]} \ {None}) /\ Op.call \in Calls /\ issued' = issued
      BY <2>2, ClearedIs
    <3>2. current[Op.call] \in Nat /\ current[Op.call] <= issued
      BY <1>0, <3>1 DEF Order
    <3>3. {current[Op.call]} \ {None} \subseteq 1..issued
      BY <1>0, <3>2
    <3> QED BY <1>0, <3>1, <3>3
  <2> QED BY <2>1, <2>2, KeychainIs
<1>4. session'["access"] <= issued'
  <2>1. session["access"] <= issued /\ session["access"] \in Nat
    BY <1>0 DEF Order, TypeOK, Nothing, Sessions
  <2>2. CASE session' = session
    BY <1>0, <2>1, <2>2
  <2>3. CASE session' = Nothing
    BY <1>0, <2>3 DEF Nothing
  <2>4. CASE session' = keychain /\ issued' = issued
    BY <1>0, <2>4 DEF Order
  <2>5. CASE SessionSaved
    <3>1. session'["access"] = issued
      BY <1>0, <2>5, SavedIs DEF Whole
    <3> QED BY <1>0, <3>1
  <2> QED BY <2>2, <2>3, <2>4, <2>5, SessionStep
<1>5. ASSUME NEW d \in Calls, SavesBy(d)'
      PROVE  issued' # 0 /\ issued' \notin ended' /\ \A c \in Logouts : current'[c] # issued'
  <2>1. CASE (\E c \in Calls : SavesBy(c)) /\ issued' = issued
    <3>1. issued # 0 /\ issued \notin ended /\ \A c \in Logouts : current[c] # issued
      BY <2>1 DEF Order
    <3>2. \A c \in Logouts : current'[c] = current[c] \/ current'[c] = None
      BY <2>1, CurrentStep, CallsAre
    <3>3. issued \notin ended'
      <4>1. CASE Cleared
        BY <2>1, <3>1, <4>1, ClearedIs
      <4> QED BY <3>1, <4>1, KeychainIs
    <3> QED BY <1>0, <2>1, <3>1, <3>2, <3>3
  <2>2. CASE issued' = issued + 1 /\ ended' = ended
    <3>1. \A c \in Logouts : current[c] <= issued /\ current[c] \in Nat
      BY <1>0, CallsAre DEF Order
    <3>2. \A c \in Logouts : current'[c] = current[c] \/ current'[c] = None
      <4>1. issued' # issued
        BY <1>0, <2>2
      <4> QED BY <4>1, CurrentStep, CallsAre
    <3> QED BY <1>0, <2>2, <3>1, <3>2
  <2> QED BY <1>5, <2>1, <2>2, KeychainIs
<1> QED BY <1>1, <1>2, <1>3, <1>4, <1>5 DEF Order

LEMMA FaultlessStep ==
  ASSUME TypeOK, Control, Queue, Executed, Order, Faultless, Next
  PROVE  Faultless'
<1>. SUFFICES ASSUME faults' = 0 PROVE Faultless'
  BY DEF Faultless
<1>0. /\ operations \in Seq(Operation) /\ issued \in Nat /\ keychain \in [Services -> Entry]
      /\ None = 0 /\ Entry \subseteq Nat /\ Services = {"access", "refresh", "meta"}
      /\ faults = 0 /\ ~SaveRejected
      /\ \A n \in 1..Len(operations) : operations[n].call # "nobody"
      /\ \A e \in Services : keychain[e] <= issued /\ (keychain[e] # None => keychain["meta"] <= keychain[e])
  BY KeychainIs DEF TypeOK, Operation, Faultless, Order, Entry, Sessions, None, Services
<1>1. \A n \in 1..Len(operations') : operations'[n].call # "nobody"
  <2>1. CASE QuietStep
    BY <1>0, <2>1, QuietStepIs
  <2>2. CASE IssueStep
    <3>1. PICK c \in Calls, s \in Entry : Issuing(c, s)
      BY <2>2, IssueStepIs
    <3>2. s = issued + 1 => s # None
      BY <1>0
    <3>3. Extends(operations', operations, c, s)
      BY <3>1, <3>2, QueueIssued DEF Issuing
    <3> QED BY <1>0, <3>3, CallsAre DEF Extends
  <2>3. CASE TailStep
    BY <1>0, <2>3, TailStepIs, QueueTail
  <2>4. CASE Crash
    BY <2>4 DEF Crash
  <2> QED BY <1>0, <2>1, <2>2, <2>3, <2>4, Kinds
<1>2. ASSUME NEW e \in Services, keychain'[e] # None PROVE keychain'["meta"] <= keychain'[e]
  <2>1. CASE keychain' = keychain
    BY <1>0, <1>2, <2>1
  <2>2. CASE operations # <<>> /\ keychain' = [keychain EXCEPT ![Op.entry] = Op.value]
    <3>1. /\ Op = operations[1] /\ Op \in Operation /\ 1 \in 1..Len(operations)
          /\ Op.value = issued \/ Op.value = None
      BY <1>0, <2>2, Heads, TailFacts
    <3>2. Op.call # "nobody" /\ Op.entry \in Services /\ Op.value \in Nat /\ Op.value <= issued
      BY <1>0, <3>1 DEF Operation
    <3>3. CASE Op.entry = "meta"
      <4>1. keychain["access"] = Op.value /\ keychain["refresh"] = Op.value
        BY <1>0, <2>2, <3>2, <3>3 DEF Executed
      <4>2. \A d \in Services : keychain'[d] = Op.value
        BY <1>0, <2>2, <3>3, <4>1
      <4> QED BY <1>0, <3>2, <4>2
    <3>4. CASE Op.entry # "meta"
      <4>1. keychain'["meta"] = keychain["meta"] /\ keychain["meta"] <= issued
        BY <1>0, <2>2, <3>4
      <4>2. CASE e = Op.entry
        <5>1. keychain'[e] = issued
          BY <1>0, <1>2, <2>2, <3>1, <4>2
        <5> QED BY <4>1, <5>1
      <4>3. CASE e # Op.entry
        <5>1. keychain'[e] = keychain[e]
          BY <1>0, <2>2, <4>3
        <5> QED BY <1>0, <1>2, <4>1, <5>1
      <4> QED BY <4>2, <4>3
    <3> QED BY <3>3, <3>4
  <2> QED BY <2>1, <2>2, KeychainIs
<1> QED BY <1>1, <1>2 DEF Faultless

LEMMA OldestStep ==
  ASSUME TypeOK, Control, Queue, Executed, Faultless, MetaIsOldest, Next
  PROVE  MetaIsOldest'
<1>. SUFFICES ASSUME session' # Nothing, faults' = 0
              PROVE  session'["meta"] <= session'["access"] /\ session'["meta"] <= session'["refresh"]
  BY DEF MetaIsOldest
<1>0. faults = 0
  BY KeychainIs
<1>1. CASE session' = session
  BY <1>0, <1>1 DEF MetaIsOldest
<1>2. CASE LoadSession /\ session' = keychain
  <2>1. keychain["access"] # None /\ keychain["refresh"] # None /\ {"access", "refresh"} \subseteq Services
    BY <1>2 DEF LoadSession, Incomplete, Services
  <2> QED BY <1>0, <1>2, <2>1 DEF Faultless
<1>3. CASE SessionSaved
  <2>1. session' = Whole(Op.value) /\ Op.value \in Nat
    BY <1>3, SavedIs DEF Sessions
  <2> QED BY <2>1 DEF Whole, Services
<1> QED BY <1>1, <1>2, <1>3, SessionStep

LEMMA ErasedStep ==
  ASSUME TypeOK, Control, Queue, Executed, Order, Faultless, LogoutErases, Next
  PROVE  LogoutErases'
<1>. SUFFICES ASSUME faults' = 0, NEW e \in Services PROVE keychain'[e] \notin ended'
  BY DEF LogoutErases
<1>0. /\ operations \in Seq(Operation) /\ issued \in Nat /\ keychain \in [Services -> Entry]
      /\ None = 0 /\ None \notin ended /\ Services = {"access", "refresh", "meta"}
      /\ faults = 0 /\ keychain[e] \notin ended
      /\ \A n \in 1..Len(operations) : operations[n].call # "nobody"
  BY KeychainIs DEF TypeOK, Operation, Faultless, Order, None, Services, LogoutErases
<1>1. operations # <<>> => /\ Op = operations[1] /\ Op.call # "nobody" /\ Op.call \in Calls
                           /\ Op.value = None \/ (Op.value = issued /\ SavesBy(Op.call))
  <2>1. operations # <<>> => Op = operations[1] /\ Op \in Operation /\ 1 \in 1..Len(operations)
    BY <1>0, Heads, TailFacts
  <2>2. operations # <<>> => Op.call # "nobody" /\ Op.call \in Calls
    BY <1>0, <2>1 DEF Operation
  <2> QED BY <2>1, <2>2, Heads
<1>2. CASE Cleared
  <2>1. /\ operations # <<>> /\ Op.entry = "meta" /\ Op.value = None /\ keychain' = [keychain EXCEPT !["meta"] = None]
    BY <1>2, ClearedIs
  <2>2. keychain["access"] = None /\ keychain["refresh"] = None
    BY <1>0, <1>1, <2>1 DEF Executed
  <2>3. keychain'[e] = None
    BY <1>0, <2>1, <2>2
  <2>4. ended' = ended \cup ({current[Op.call]} \ {None})
    BY <1>2, ClearedIs
  <2> QED BY <1>0, <2>3, <2>4
<1>3. CASE ended' = ended
  <2>1. keychain'[e] = keychain[e] \/ (operations # <<>> /\ keychain'[e] = Op.value)
    BY <1>0, KeychainIs
  <2>2. operations # <<>> => Op.value \notin ended
    BY <1>0, <1>1 DEF Order
  <2> QED BY <1>0, <1>3, <2>1, <2>2
<1> QED BY <1>2, <1>3, KeychainIs

-----------------------------------------------------------------------------
(* Every call that waits for the keychain is answered by it.                *)

Answer(q, c, n) == n \in DOMAIN q /\ q[n].call = c /\ q[n].entry = Last

LEMMA IssueAnswers ==
  ASSUME NEW q \in Seq(Operation), NEW c \in Calls, NEW s \in Entry
  PROVE  /\ Answer(q \o Batch(c, s), c, Len(q) + 3)
         /\ \A d, n : Answer(q, d, n) => Answer(q \o Batch(c, s), d, n)
<1> DEFINE b == Batch(c, s)
           r == q \o b
<1>1. b \in Seq(Operation) /\ Len(b) = 3 /\ b[3] = [call |-> c, entry |-> "meta", value |-> s]
  BY BatchFacts
<1> HIDE DEF b
<1>2. Len(r) = Len(q) + 3 /\ \A n \in 1..(Len(q) + 3) : r[n] = IF n <= Len(q) THEN q[n] ELSE b[n - Len(q)]
  <2>1. Len(r) = Len(q) + Len(b) /\ \A n \in 1..(Len(q) + Len(b)) : r[n] = IF n <= Len(q) THEN q[n] ELSE b[n - Len(q)]
    <3>1. q \in Seq(Operation) /\ b \in Seq(Operation)
      BY <1>1
    <3> QED BY ONLY <3>1, ConcatProperties
  <2> QED BY <1>1, <2>1
<1>3. r \in Seq(Operation) /\ DOMAIN r = 1..Len(r) /\ DOMAIN q = 1..Len(q) /\ Len(q) \in Nat
  BY <1>1, ConcatProperties
<1> HIDE DEF r
<1>4. r[Len(q) + 3] = b[3]
  BY <1>2, <1>3
<1>5. Answer(r, c, Len(q) + 3)
  BY <1>1, <1>2, <1>3, <1>4 DEF Answer, Last, Entries
<1>6. \A d, n : Answer(q, d, n) => Answer(r, d, n)
  BY <1>2, <1>3 DEF Answer
<1> QED BY <1>5, <1>6 DEF r, b

LEMMA TailAnswers ==
  ASSUME NEW q \in Seq(Operation), q # <<>>, NEW d, NEW n, Answer(q, d, n),
         ~(q[1].call = d /\ q[1].entry = Last)
  PROVE  Answer(Tail(q), d, n - 1)
<1>1. Tail(q) \in Seq(Operation) /\ Len(q) \in Nat \ {0} /\ Len(Tail(q)) = Len(q) - 1
      /\ \A k \in 1..(Len(q) - 1) : Tail(q)[k] = q[k + 1]
  BY TailFacts
<1>2. n \in 1..Len(q) /\ n # 1
  BY DEF Answer
<1>3. n - 1 \in 1..Len(Tail(q)) /\ Tail(q)[n - 1] = q[n]
  BY <1>1, <1>2
<1> QED BY <1>1, <1>3 DEF Answer

LEMMA GivenUpAnswers ==
  ASSUME NEW q \in Seq(Operation), NEW r \in Seq(Operation), NEW c, GivenUp(r, q, c),
         NEW d, NEW n, d # c, Answer(q, d, n)
  PROVE  Answer(r, d, n)
BY DEF Answer, GivenUp

\* A quiet step starts no wait for the keychain.
LEMMA QuietWaiters ==
  ASSUME TypeOK, QuietStep, NEW c \in Calls, pc'[c] \in Awaiting
  PROVE  pc[c] = pc'[c] /\ operations' = operations
<1>0. pc \in [Calls -> Labels]
  BY DEF TypeOK
<1>1. operations' = operations /\ (UNCHANGED pc \/ \E d \in Calls, l \in {"none", "autoLogin", "refresh", "provider", "server"} : Goto(d, l))
  BY CallsAre DEF QuietStep, LoadNothing, LoadSession, LoadExpired, LoadFails, AutoLoginRefused, Login, LoginRefused,
     AskLogout, CancelLogout, Expire, ConfirmLogout
<1> QED BY <1>0, <1>1 DEF Goto, Awaiting

\* Only the call that issues operations starts to wait.
LEMMA IssueWaiters ==
  ASSUME TypeOK, IssueStep
  PROVE  \E c \in Calls, s \in Entry : Issue(c, s) /\ \A d \in Calls \ {c} : pc'[d] = pc[d]
<1>1. \E c \in Calls, s \in Entry, l \in Labels : Issue(c, s) /\ Goto(c, l)
  <2>1. None \in Entry /\ Sessions \subseteq Entry
    BY DEF Entry
  <2>2. CASE BootObtains \/ LoginObtains
    BY <2>1, <2>2, CallsAre DEF BootObtains, LoginObtains, Labels
  <2>3. CASE LoadDamaged \/ RefreshRefused
    BY <2>1, <2>3, CallsAre DEF LoadDamaged, RefreshRefused, Labels
  <2>4. CASE \E c \in Logouts : LogoutAnswered(c) \/ (ConfirmLogout(c) /\ session = Nothing)
    BY <2>1, <2>4, CallsAre DEF LogoutAnswered, ConfirmLogout, Labels
  <2> QED BY <2>2, <2>3, <2>4 DEF IssueStep
<1> QED BY <1>1 DEF Goto, TypeOK

\* The call whose last operation is executed goes on; the others still wait.
LEMMA TailWaiters ==
  ASSUME TypeOK, Control, Queue, TailStep, NEW c \in Calls, pc'[c] \in Awaiting
  PROVE  pc[c] = pc'[c] /\ ~(Op.call = c /\ Op.entry = Last)
<1>0. pc \in [Calls -> Labels] /\ c # "nobody"
  BY CallsAre DEF TypeOK
<1>1. CASE EntryWritten \/ EntryKept
  BY <1>0, <1>1 DEF EntryWritten, EntryKept, Settles
<1>2. CASE SessionSaved \/ Cleared \/ DamageErased
  <2>1. Goto(Op.call, "none") \/ Goto(Op.call, "erased")
    BY <1>2 DEF SessionSaved, Cleared, DamageErased
  <2> QED BY <1>0, <2>1 DEF Goto, Awaiting
<1> QED BY <1>1, <1>2 DEF TailStep

\* A login is the call that disabled the buttons, and enables them when it ends.
LEMMA SubmittingStep ==
  ASSUME TypeOK, Control, Queue, isSubmitting => pc["login"] # "none", Next
  PROVE  isSubmitting' => pc'["login"] # "none"
<1> USE CallsAre DEF TypeOK, Goto, store
<1>1. CASE BootStep
  BY <1>1 DEF BootStep, LoadNothing, LoadSession, LoadExpired, LoadDamaged, LoadFails, BootObtains,
     RefreshRefused, AutoLoginRefused
<1>2. CASE LoginAnswered \/ Login \/ AskLogout \/ CancelLogout
  BY <1>2 DEF LoginAnswered, LoginObtains, LoginRefused, Login, AskLogout, CancelLogout
<1>3. ASSUME NEW c \in Logouts, ConfirmLogout(c) \/ LogoutAnswered(c) PROVE isSubmitting' => pc'["login"] # "none"
  BY <1>3 DEF ConfirmLogout, LogoutAnswered
<1>4. CASE Crash \/ \E s \in Sessions : Expire(s)
  BY <1>4 DEF Crash, Expire
<1>5. CASE EntryWritten \/ EntryKept
  BY <1>5 DEF EntryWritten, EntryKept
<1>6. CASE SessionSaved
  BY <1>6 DEF SessionSaved
<1>7. CASE SaveRejected
  <2>1. Op.call \in {"boot", "login"} /\ SavesBy(Op.call)
    BY <1>7, Heads DEF SaveRejected, Saving
  <2>2. \/ pc[Op.call] # "save" /\ UNCHANGED isSubmitting /\ \E l \in Labels : Goto(Op.call, l)
        \/ isSubmitting' = FALSE
    BY <1>7 DEF SaveRejected, Labels
  <2> QED BY <2>1, <2>2 DEF SavesBy
<1>8. CASE Cleared \/ DamageErased
  <2>1. Op.call # "login" /\ UNCHANGED isSubmitting /\ \E l \in Labels : Goto(Op.call, l)
    BY <1>8 DEF Cleared, DamageErased, Control, LoginLabels, Labels
  <2> QED BY <2>1
<1> QED BY <1>1, <1>2, <1>3, <1>4, <1>5, <1>6, <1>7, <1>8 DEF Next, KeychainStep

\* No step takes the answer away from a call that waits for it, whatever fails.
LEMMA ServedStep ==
  ASSUME TypeOK, Control, Queue, CallsAreServed, Next
  PROVE  CallsAreServed'
<1>0. /\ operations \in Seq(Operation) /\ pc \in [Calls -> Labels]
      /\ \A c \in Calls : pc[c] \in Awaiting => \E n : Answer(operations, c, n)
  BY DEF TypeOK, Operation, CallsAreServed, BusyHasCall, Answer
<1>1. status' = "booting" => pc'["boot"] # "none"
  BY ControlStep DEF Control
<1>2. isSubmitting' => pc'["login"] # "none"
  BY SubmittingStep DEF CallsAreServed, BusyHasCall
<1>3. ASSUME NEW c \in Calls, pc'[c] \in Awaiting PROVE \E n : Answer(operations', c, n)
  <2>1. CASE QuietStep
    BY <1>0, <1>3, <2>1, QuietWaiters
  <2>2. CASE IssueStep
    <3>1. PICK d \in Calls, s \in Entry : operations' = operations \o Batch(d, s) /\ \A e \in Calls \ {d} : pc'[e] = pc[e]
      BY <2>2, IssueWaiters DEF Issue
    <3>2. CASE c = d
      BY <1>0, <3>1, <3>2, IssueAnswers
    <3>3. CASE c # d
      <4>1. PICK n : Answer(operations, c, n)
        BY <1>0, <1>3, <3>1, <3>3
      <4> QED BY <1>0, <3>1, <4>1, IssueAnswers
    <3> QED BY <3>2, <3>3
  <2>3. CASE TailStep
    <3>1. operations # <<>> /\ operations' = Tail(operations) /\ Op = operations[1]
      BY <2>3, TailStepIs, Heads
    <3>2. PICK n : Answer(operations, c, n)
      BY <1>0, <1>3, <2>3, TailWaiters
    <3>3. ~(Op.call = c /\ Op.entry = Last)
      BY <1>3, <2>3, TailWaiters
    <3>4. Answer(operations', c, n - 1)
      BY <1>0, <3>1, <3>2, <3>3, TailAnswers
    <3> QED BY <3>4
  <2>4. CASE SaveRejected
    <3> DEFINE d == Op.call
               rest == Abandoned(Tail(operations), d)
    <3>1. operations # <<>> /\ Op = operations[1] /\ d \in Calls \ Logouts
      BY <2>4, Heads, CallsAre DEF SaveRejected, Saving
    <3>2. Tail(operations) \in Seq(Operation) /\ IsQueue(Tail(operations))
      BY <1>0, <3>1, TailFacts, TailKeeps DEF Queue, IsQueue
    <3>3. rest \in Seq(Operation) /\ GivenUp(rest, Tail(operations), d)
      BY <3>1, <3>2, AbandonedKeeps DEF IsQueue
    <3>4. \/ operations' = rest \o Batch(d, None)
          \/ operations' = rest /\ Goto(d, "none")
      BY <2>4 DEF SaveRejected
    <3>5. \A e \in Calls \ {d} : pc'[e] = pc[e]
      BY <1>0, <2>4 DEF SaveRejected, Goto
    <3> HIDE DEF rest, d
    <3>6. None \in Entry
      BY DEF Entry
    <3>7. CASE c # d
      <4>1. PICK n : Answer(operations, c, n)
        BY <1>0, <1>3, <3>5, <3>7
      <4>2. operations[1].call # c
        BY <3>1, <3>7 DEF d
      <4>3. Answer(Tail(operations), c, n - 1)
        BY <1>0, <3>1, <4>1, <4>2, TailAnswers
      <4>4. Answer(rest, c, n - 1)
        BY <3>2, <3>3, <3>7, <4>3, GivenUpAnswers
      <4> QED BY <3>1, <3>3, <3>4, <3>6, <4>4, IssueAnswers
    <3>8. CASE c = d
      <4>1. pc'[d] # "none"
        BY <1>3, <3>8 DEF Awaiting
      <4>2. operations' = rest \o Batch(d, None)
        BY <1>0, <3>1, <3>4, <4>1 DEF Goto
      <4> QED BY <3>1, <3>3, <3>6, <3>8, <4>2, IssueAnswers
    <3> QED BY <3>7, <3>8
  <2>5. CASE Crash
    BY <1>3, <2>5 DEF Crash, Awaiting
  <2> QED BY <2>1, <2>2, <2>3, <2>4, <2>5, Kinds
<1> QED BY <1>1, <1>2, <1>3 DEF CallsAreServed, BusyHasCall, Answer

-----------------------------------------------------------------------------
(* What the first kill in the middle of a save or clear leaves.             *)

\* Kills are counted where they lose operations, and nothing else is counted.
LEMMA CutsAre ==
  ASSUME TypeOK, Next
  PROVE  /\ cuts \in Nat /\ cuts' \in Nat /\ expired \subseteq expired'
         /\ cuts' = cuts \/ (Crash /\ cuts' = IF operations = <<>> THEN cuts ELSE cuts + 1)
<1>1. cuts \in Nat
  BY DEF TypeOK
<1> USE DEF counters, served
<1>2. CASE Crash
  BY <1>1, <1>2 DEF Crash
<1>3. CASE BootStep
  BY <1>1, <1>3 DEF BootStep, LoadNothing, LoadSession, LoadExpired, LoadDamaged, LoadFails, BootObtains,
     RefreshRefused, AutoLoginRefused, Fresh
<1>4. CASE KeychainStep
  BY <1>1, <1>4 DEF KeychainStep, EntryWritten, SessionSaved, SaveRejected, EntryKept, Cleared, DamageErased, Ignored
<1>5. CASE LoginAnswered \/ Login \/ AskLogout \/ CancelLogout
  BY <1>1, <1>5 DEF LoginAnswered, LoginObtains, LoginRefused, Login, AskLogout, CancelLogout, Fresh
<1>6. ASSUME NEW c \in Logouts, ConfirmLogout(c) \/ LogoutAnswered(c)
      PROVE  UNCHANGED cuts /\ expired \subseteq expired'
  BY <1>6 DEF ConfirmLogout, LogoutAnswered
<1>7. ASSUME NEW s \in Sessions, Expire(s) PROVE UNCHANGED cuts /\ expired \subseteq expired'
  BY <1>7 DEF Expire
<1> QED BY <1>1, <1>2, <1>3, <1>4, <1>5, <1>6, <1>7 DEF Next

\* As long as no keychain call fails: the last operation of a save or clear completes it, and one
\* before the last leaves the expiry time alone.
LEMMA ExecutedIs ==
  ASSUME TypeOK, Control, Queue, Executed, Order, Faultless, TailStep, faults' = 0
  PROVE  /\ operations # <<>> /\ keychain' = [keychain EXCEPT ![Op.entry] = Op.value]
         /\ Op.entry \in Services /\ (Op.value = None \/ Saving)
         /\ Op.entry = "meta" => keychain' = Nothing \/ KeychainWhole'
         /\ operations' = <<>> => Op.entry = "meta"
<1>0. /\ operations \in Seq(Operation) /\ operations # <<>> /\ keychain \in [Services -> Entry]
      /\ Services = {"access", "refresh", "meta"}
      /\ Op = operations[1] /\ Op \in Operation /\ 1 \in 1..Len(operations)
      /\ faults = 0 /\ issued' = issued /\ issued \in Nat
  BY TailStepIs, Heads, TailFacts DEF TypeOK, Operation, Services
<1>1. Op.call # "nobody" /\ Op.entry \in Services /\ Op.value \in Entry
  BY <1>0 DEF Faultless, Operation
<1>2. (Op.value = None \/ Saving) /\ (Op.value # None => Op.value \in 1..issued)
  BY <1>0, <1>1, Heads DEF Entry, Sessions, None
<1>3. keychain' = [keychain EXCEPT ![Op.entry] = Op.value]
  BY TailStepIs
<1>4. ASSUME Op.entry = "meta" PROVE keychain' = Nothing \/ KeychainWhole'
  <2>1. keychain["access"] = Op.value /\ keychain["refresh"] = Op.value
    BY <1>0, <1>1, <1>4 DEF Executed
  <2>2. \A e \in Services : keychain'[e] = Op.value
    BY <1>0, <1>3, <1>4, <2>1
  <2>3. keychain' = [e \in Services |-> keychain'[e]]
    BY <1>0, <1>3
  <2>4. keychain' = Whole(Op.value)
    BY <2>2, <2>3 DEF Whole
  <2>5. Whole(None) = Nothing
    BY DEF Whole, Nothing
  <2> QED BY <1>0, <1>2, <2>4, <2>5 DEF KeychainWhole
<1>5. operations' = <<>> => Op.entry = "meta"
  BY TailStepIs, QueueTail
<1> QED BY <1>0, <1>1, <1>2, <1>3, <1>4, <1>5

\* A keychain left alone stays as good as it was.
LEMMA WholeStays ==
  ASSUME TypeOK, Control, Queue, Next, UNCHANGED keychain
  PROVE  /\ KeychainWhole => KeychainWhole'
         /\ Incomplete => Incomplete'
         /\ ExpiredOrSoon => ExpiredOrSoon'
<1>1. issued \in Nat /\ issued' \in Nat /\ issued <= issued' /\ expired \subseteq expired'
  BY KeychainIs, CutsAre DEF TypeOK
<1> QED BY <1>1 DEF KeychainWhole, Incomplete, ExpiredOrSoon

\* Bootstrap goes on without a session only over a keychain that holds none, or an expired one.
LEMMA BootGoesOn ==
  ASSUME TypeOK, Control, QuietStep, faults' = 0, status' # "authed", pc'["boot"] # "load"
  PROVE  \/ status # "authed" /\ pc["boot"] # "load"
         \/ operations = <<>> /\ (Incomplete \/ ExpiredOrSoon)
<1> USE CallsAre DEF Control, Goto, store
<1>0. pc \in [Calls -> Labels] /\ faults \in Nat
  BY DEF TypeOK
<1>1. CASE LoadNothing \/ LoadSession \/ LoadExpired
  BY <1>0, <1>1 DEF LoadNothing, LoadSession, LoadExpired, Authed
<1>2. CASE LoadFails
  BY <1>0, <1>2 DEF LoadFails
<1>3. CASE AutoLoginRefused
  BY <1>0, <1>3 DEF AutoLoginRefused
<1>4. CASE Login \/ LoginRefused \/ AskLogout \/ CancelLogout \/ \E s \in Sessions : Expire(s)
  BY <1>0, <1>4 DEF Login, LoginRefused, AskLogout, CancelLogout, Expire
<1>5. CASE \E c \in Logouts : ConfirmLogout(c) /\ session # Nothing
  BY <1>0, <1>5 DEF ConfirmLogout
<1> QED BY <1>1, <1>2, <1>3, <1>4, <1>5 DEF QuietStep

\* Whoever uses no session writes over an expiry time that is erased or past.
LEMMA CutOnceUnused ==
  ASSUME TypeOK, Control, Queue, Executed, Order, Faultless, CutOnce, Next,
         faults' = 0, cuts' = 0, status' # "authed", pc'["boot"] # "load"
  PROVE  keychain'["meta"] = None \/ ExpiredOrSoon'
<1>0. /\ faults = 0 /\ ~SaveRejected /\ cuts \in Nat /\ cuts = 0
      /\ Services = {"access", "refresh", "meta"} /\ keychain \in [Services -> Entry]
  BY KeychainIs, CutsAre DEF TypeOK, Services
<1>1. ASSUME UNCHANGED keychain, keychain["meta"] = None \/ ExpiredOrSoon
      PROVE  keychain'["meta"] = None \/ ExpiredOrSoon'
  BY <1>1, WholeStays
<1>2. CASE QuietStep
  <2>1. UNCHANGED keychain
    BY <1>2, QuietStepIs
  <2>2. CASE operations = <<>> /\ Incomplete /\ ~ExpiredOrSoon
    <3>1. keychain = Nothing \/ KeychainWhole
      BY <1>0, <2>2 DEF CutOnce
    <3>2. ~KeychainWhole
      BY <2>2 DEF Incomplete, KeychainWhole, Whole, None
    <3>3. keychain["meta"] = None
      BY <1>0, <3>1, <3>2 DEF Nothing
    <3> QED BY <1>1, <2>1, <3>3
  <2> QED BY <1>0, <1>1, <1>2, <2>1, <2>2, BootGoesOn DEF CutOnce
<1>3. CASE IssueStep
  <2>1. UNCHANGED keychain
    BY <1>3, IssueStepIs
  <2>2. status # "authed" /\ pc["boot"] # "load"
    BY <1>0, <1>3, CallsAre DEF TypeOK, IssueStep, LoadDamaged, BootObtains, RefreshRefused, LoginObtains, LogoutAnswered,
       ConfirmLogout, Control, Goto, store
  <2> QED BY <1>0, <1>1, <2>1, <2>2 DEF CutOnce
<1>4. CASE TailStep
  <2>1. /\ keychain' = [keychain EXCEPT ![Op.entry] = Op.value] /\ (Op.value = None \/ Saving) /\ Op.entry \in Services
        /\ operations # <<>>
    BY <1>4, ExecutedIs
  <2>2. CASE Op.entry = "meta"
    <3>1. ~Saving
      <4>1. CASE Saving
        <5>1. Op.call # "nobody" /\ operations # <<>> /\ Op.entry = Last
          BY <2>1, <2>2, <4>1 DEF Saving, Last, Entries
        <5>2. SessionSaved
          BY <1>4, <4>1, <5>1 DEF TailStep, EntryWritten, EntryKept, Cleared, DamageErased, Settles
        <5> QED BY <5>2 DEF SessionSaved, Authed
      <4> QED BY <4>1
    <3> QED BY <1>0, <2>1, <2>2, <3>1
  <2>3. CASE Op.entry # "meta"
    <3>1. keychain'["meta"] = keychain["meta"] /\ expired \subseteq expired'
      BY <1>0, <2>1, <2>3, CutsAre
    <3>2. pc["boot"] # "load"
      BY <2>1 DEF Control
    <3>3. status # "authed"
      BY <1>4, <2>3 DEF TailStep, EntryWritten, EntryKept, SessionSaved, Cleared, DamageErased, Settles, Last, Entries, store
    <3> QED BY <1>0, <3>1, <3>2, <3>3 DEF CutOnce, ExpiredOrSoon
  <2> QED BY <2>2, <2>3
<1>5. CASE Crash
  BY <1>5, CallsAre DEF Crash
<1> QED BY <1>0, <1>2, <1>3, <1>4, <1>5, Kinds

\* One kill leaves the keychain between two whole batches, of which bootstrap uses neither.
LEMMA CutOnceStep ==
  ASSUME TypeOK, Control, Queue, Executed, Order, Faultless, CutOnce, Next
  PROVE  CutOnce'
<1> SUFFICES ASSUME faults' = 0 PROVE CutOnce'
  BY DEF CutOnce
<1>0. /\ faults = 0 /\ ~SaveRejected /\ cuts \in Nat /\ cuts' \in Nat
      /\ Services = {"access", "refresh", "meta"} /\ keychain \in [Services -> Entry]
      /\ cuts' = cuts \/ (Crash /\ cuts' = IF operations = <<>> THEN cuts ELSE cuts + 1)
  BY KeychainIs, CutsAre DEF TypeOK, Services
<1>1. Nothing["meta"] = None /\ (keychain' = Nothing => Incomplete')
  BY <1>0 DEF Nothing, Incomplete
<1>2. ASSUME UNCHANGED keychain,
             cuts' = 0 /\ operations' = <<>> => cuts = 0 /\ operations = <<>>,
             cuts' = 0 \/ (cuts' = 1 /\ operations' = <<>>) => cuts = 0 \/ (cuts = 1 /\ operations = <<>>)
      PROVE  CutOnce'
  BY <1>0, <1>2, WholeStays, CutOnceUnused DEF CutOnce
<1>3. CASE QuietStep
  <2>1. UNCHANGED <<keychain, operations, cuts>>
    BY <1>0, <1>3, QuietStepIs, CutsAre DEF Crash, QuietStep
  <2> QED BY <1>2, <2>1
<1>4. CASE IssueStep
  <2>1. PICK c \in Calls, s \in Entry : Issuing(c, s) /\ UNCHANGED keychain
    BY <1>4, IssueStepIs
  <2>2. s = issued + 1 => s # None
    BY DEF TypeOK, None
  <2>3. operations' # <<>>
    BY <2>1, <2>2, QueueIssued DEF Issuing, Extends
  <2>4. cuts' = cuts
    BY <1>0, <2>3 DEF Crash
  <2> QED BY <1>2, <2>1, <2>3, <2>4
<1>5. CASE TailStep
  <2>1. CASE Op.entry = "meta"
    BY <1>0, <1>1, <1>5, <2>1, ExecutedIs, CutOnceUnused DEF CutOnce
  <2>2. CASE Op.entry # "meta"
    <3>1. /\ keychain' = [keychain EXCEPT ![Op.entry] = Op.value] /\ (Op.value = None \/ Saving) /\ Op.entry \in Services
          /\ operations' # <<>>
      BY <1>0, <1>5, <2>2, ExecutedIs
    <3>2. ASSUME cuts' = 0 PROVE Incomplete' \/ ExpiredOrSoon'
      <4>1. CASE Op.value = None
        <5>1. keychain'[Op.entry] = None
          BY <1>0, <3>1, <4>1
        <5> QED BY <3>1, <5>1 DEF Incomplete
      <4>2. CASE Saving
        <5>1. status # "authed"
          BY <4>2, Heads DEF Saving, SavesBy, Control
        <5>2. status' = status
          BY <1>5, <2>2 DEF TailStep, EntryWritten, EntryKept, SessionSaved, Cleared, DamageErased, Settles, Last, Entries, store
        <5>3. pc'["boot"] # "load"
          BY <3>1, ControlStep DEF Control
        <5>4. keychain'["meta"] = None \/ ExpiredOrSoon'
          BY <3>2, <5>1, <5>2, <5>3, CutOnceUnused
        <5> QED BY <1>0, <5>4 DEF Incomplete
      <4> QED BY <3>1, <4>1, <4>2
    <3> QED BY <1>0, <3>1, <3>2, CutOnceUnused DEF CutOnce
  <2> QED BY <2>1, <2>2
<1>6. CASE Crash
  <2>1. UNCHANGED keychain /\ operations' = <<>> /\ cuts' = IF operations = <<>> THEN cuts ELSE cuts + 1
    BY <1>6 DEF Crash
  <2> QED BY <1>0, <1>2, <2>1
<1> QED BY <1>0, <1>3, <1>4, <1>5, <1>6, Kinds

\* The session in use is the whole one bootstrap found, or was just saved as a whole.
LEMMA WholeStep ==
  ASSUME TypeOK, Control, Queue, Executed, CutOnce, WholeUnlessCutTwice, Next
  PROVE  WholeUnlessCutTwice'
<1> SUFFICES ASSUME session' # Nothing, faults' = 0, cuts' <= 1
             PROVE  \E s \in 1..issued' : session' = Whole(s)
  BY DEF WholeUnlessCutTwice
<1>0. /\ faults = 0 /\ cuts \in Nat /\ cuts <= 1 /\ issued \in Nat /\ issued' \in Nat /\ issued <= issued'
  BY KeychainIs, CutsAre DEF TypeOK
<1>1. CASE session' = session
  BY <1>0, <1>1 DEF WholeUnlessCutTwice
<1>2. CASE LoadSession /\ session' = keychain
  <2>1. operations = <<>> /\ ~Incomplete /\ ~ExpiredOrSoon
    BY <1>2 DEF LoadSession, Control
  <2>2. KeychainWhole
    BY <1>0, <2>1 DEF CutOnce
  <2> QED BY <1>0, <1>2, <2>2 DEF KeychainWhole
<1>3. CASE SessionSaved
  <2>1. session' = Whole(issued) /\ issued \in Sessions
    BY <1>3, SavedIs
  <2> QED BY <1>0, <2>1 DEF Sessions
<1> QED BY <1>1, <1>2, <1>3, SessionStep

-----------------------------------------------------------------------------
(* The theorems.                                                            *)

LEMMA Initially == Init => IInv
<1> SUFFICES ASSUME Init PROVE IInv
  OBVIOUS
<1> USE CallsAre DEF Init
<1>1. TypeOK
  <2>1. 0 \in 0..MaxSessions /\ 0 \in 0..MaxMishaps /\ 0 \in 0..0
    BY AuthBounds
  <2>2. Nothing \in [Services -> Entry] /\ current \in [Calls -> Entry] /\ pc \in [Calls -> Labels]
    BY DEF Nothing, Entry, Labels
  <2>3. operations \in Seq(Operation)
    OBVIOUS
  <2> QED BY <2>1, <2>2, <2>3 DEF TypeOK, Operation
<1>2. Control
  BY DEF Control, BootLabels, LoginLabels
<1>3. Queue /\ Executed /\ Stored
  BY DEF Queue, Together, LastOfCall, Executed, Stored
<1>4. Order
  BY DEF Order, Nothing, None, SavesBy, Services
<1>5. Faultless /\ MetaIsOldest /\ LogoutErases
  BY DEF Faultless, MetaIsOldest, LogoutErases, Nothing
<1>6. CallsAreServed /\ CutOnce /\ WholeUnlessCutTwice
  BY DEF CallsAreServed, BusyHasCall, Awaiting, CutOnce, WholeUnlessCutTwice, Incomplete, Nothing, Services
<1> QED BY <1>1, <1>2, <1>3, <1>4, <1>5, <1>6 DEF IInv

LEMMA Inductive == IInv /\ [Next]_vars => IInv'
<1> SUFFICES ASSUME IInv, [Next]_vars PROVE IInv'
  OBVIOUS
<1>1. CASE Next
  BY <1>1, TypeStep, ControlStep, QueueStep, ExecutedStep, StoredStep, OrderStep, FaultlessStep, OldestStep,
     ErasedStep, ServedStep, CutOnceStep, WholeStep DEF IInv
<1>2. CASE UNCHANGED vars
  <2>1. UNCHANGED <<autoLogin, status, session, isSubmitting, confirming, keychain, operations, pc, current,
                    issued, expired, ended, crashes, faults, cuts>>
    BY <1>2 DEF vars, store, served, counters
  <2>2. TypeOK' /\ Control'
    BY <2>1 DEF IInv, TypeOK, Control
  <2>3. Queue' /\ Executed' /\ Stored'
    BY <2>1 DEF IInv, Queue, Awaited, SavesBy, ClearsBy, Together, LastOfCall, Executed, Op, Stored
  <2>4. Order' /\ Faultless' /\ MetaIsOldest' /\ LogoutErases'
    BY <2>1 DEF IInv, Order, SavesBy, Faultless, MetaIsOldest, LogoutErases
  <2>5. CallsAreServed' /\ CutOnce' /\ WholeUnlessCutTwice'
    BY <2>1 DEF IInv, CallsAreServed, BusyHasCall, CutOnce, Incomplete, ExpiredOrSoon, KeychainWhole, WholeUnlessCutTwice
  <2> QED BY <2>2, <2>3, <2>4, <2>5 DEF IInv
<1> QED BY <1>1, <1>2

\* The inductive invariant holds in every run of authentication, with or without kills of the app
\* and failing keychain calls.
THEOREM Invariance == Spec => []IInv
BY Initially, Inductive, PTL DEF Spec

\* Every variable of the store, the keychain and the suspended calls has its type.
THEOREM Typed == Spec => []TypeOK
<1>1. IInv => TypeOK
  BY DEF IInv
<1> QED BY <1>1, Invariance, PTL

\* While the app shows a user as logged in and nothing is on its way to the keychain, the keychain
\* holds the session in use: of saveSession, clear and any number of logouts none leaves them apart.
THEOREM StoredIsUsed == Spec => []AuthedIsStored
<1>1. IInv => AuthedIsStored
  BY DEF IInv, Stored, AuthedIsStored
<1> QED BY <1>1, Invariance, PTL

\* As long as no keychain call fails, the expiry time bootstrap goes by is never later than that of
\* the tokens it restored, wherever a kill cut saveSession or clear short.
THEOREM OldestExpiry == Spec => []MetaIsOldest
<1>1. IInv => MetaIsOldest
  BY DEF IInv
<1> QED BY <1>1, Invariance, PTL

\* As long as no keychain call fails, no token of a session that was logged out of is in the
\* keychain, or comes back to it.
THEOREM LoggedOutErased == Spec => []LogoutErases
<1>1. IInv => LogoutErases
  BY DEF IInv
<1> QED BY <1>1, Invariance, PTL

\* As long as no keychain call fails, a session that mixes the tokens of two takes two kills, each
\* in the middle of a save or clear: the expiry time written last makes bootstrap drop or refresh
\* what one of them leaves.
THEOREM WholeUntilCutTwice == Spec => []WholeUnlessCutTwice
<1>1. IInv => WholeUnlessCutTwice
  BY DEF IInv
<1> QED BY <1>1, Invariance, PTL

\* The splash screen and the disabled buttons belong to a bootstrap or a login that runs, whatever
\* failed: the safety half of what BootEnds and SubmittingEnds promise.
THEOREM BusyCallsRun == Spec => []BusyHasCall
<1>1. IInv => BusyHasCall
  BY DEF IInv, CallsAreServed
<1> QED BY <1>1, Invariance, PTL

\* Every save or clear in progress has its answer on its way: neither a write that failed, nor a
\* logout next to a login, nor the operations of another call take it away.
THEOREM CallsServed == Spec => []CallsAreServed
<1>1. IInv => CallsAreServed
  BY DEF IInv
<1> QED BY <1>1, Invariance, PTL
=============================================================================
