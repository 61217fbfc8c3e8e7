-------------------------- MODULE SshWaiterProofs --------------------------
(***************************************************************************)
(* Proofs about SshWaiter, for any number of prompts and of complaints of  *)
(* ssh, in any order and any number in one read: ssh never waits for an    *)
(* answer that nobody has been asked for, and after cancel nothing is      *)
(* heard of the attempt.                                                   *)
(*                                                                         *)
(* One lemma per function of the handlers, on [w, t, s]; the actions put   *)
(* them together.                                                          *)
(***************************************************************************)
EXTENDS SshWaiter, SequenceTheorems, WellFoundedInduction, TLAPS

State == [w : Waiter, t : Tunnel, s : Ssh]

\* A tunnel that heeds what ssh writes has its delegate, the waiter, which has
\* it and has not been cancelled.
Heeded(w, t) ==
    t.state \in {"opening", "prompt", "tunneling"} =>
        t.delegate /\ w.delegate /\ w.tunnel

Asked(w, t) == t.state = "prompt" => w.auth \/ w.keySheet

Works == {x \in State : Heeded(x.w, x.t) /\ Asked(x.w, x.t)}

\* Without a delegate nothing new is told or shown, and none comes.
Silent(v, w) ==
    ~w.delegate =>
        /\ ~v.delegate
        /\ v.told = w.told
        /\ v.errors <= w.errors
        /\ v.auth => w.auth
        /\ v.keySheet => w.keySheet
        /\ v.passphraseSheet => w.passphraseSheet

\* What a function of the handlers makes of x.
Follows(y, x) == y \in Works /\ Silent(y.w, x.w)

LEMMA FollowsTwice ==
    ASSUME NEW x \in State, NEW y, NEW z, Follows(y, x), Follows(z, y)
    PROVE  Follows(z, x)
<1>1. /\ x.w.errors \in Nat /\ y.w.errors \in Nat /\ z.w.errors \in Nat
  BY DEF Follows, Works, State, Waiter
<1>. QED BY <1>1 DEF Follows, Silent

LEMMA FollowsItself == \A x \in Works : Follows(x, x)
<1>1. \A x \in Works : x.w.errors \in Nat
  BY DEF Works, State, Waiter
<1>. QED BY <1>1 DEF Follows, Silent

\* A state of the handlers, and one with another waiter, tunnel or ssh.
LEMMA Parts ==
    ASSUME NEW x \in State
    PROVE  x.w \in Waiter /\ x.t \in Tunnel /\ x.s \in Ssh
BY DEF State

LEMMA OtherWaiter ==
    ASSUME NEW x \in State, NEW w \in Waiter, NEW y, y = [x EXCEPT !.w = w]
    PROVE  y \in State /\ y.w = w /\ y.t = x.t /\ y.s = x.s
BY DEF State

LEMMA OtherTunnel ==
    ASSUME NEW x \in State, NEW t \in Tunnel, NEW y, y = [x EXCEPT !.t = t]
    PROVE  y \in State /\ y.w = x.w /\ y.t = t /\ y.s = x.s
BY DEF State

LEMMA OtherSsh ==
    ASSUME NEW x \in State, NEW s \in Ssh, NEW y, y = [x EXCEPT !.s = s]
    PROVE  y \in State /\ y.w = x.w /\ y.t = x.t /\ y.s = s
BY DEF State

\* A state that follows another.
LEMMA Made ==
    ASSUME NEW x \in State, NEW y \in State,
           Heeded(y.w, y.t), Asked(y.w, y.t), Silent(y.w, x.w)
    PROVE  Follows(y, x)
BY DEF Follows, Works

\* A tunnel that is closing heeds nothing, and waits for no answer.
LEMMA ClosingWorks ==
    ASSUME NEW w, NEW t, t.state = "closing"
    PROVE  Heeded(w, t) /\ Asked(w, t)
BY DEF Heeded, Asked

LEMMA SilentItself ==
    ASSUME NEW w \in Waiter
    PROVE  Silent(w, w)
BY DEF Silent, Waiter

-----------------------------------------------------------------------------
\* An error is shown to the delegate, if there is one, which then hears of it.
LEMMA ErrorIs ==
    ASSUME NEW x \in State
    PROVE  LET y == Error(x)
           IN  /\ y \in State /\ y.t = x.t /\ y.s = x.s
               /\ y.w.delegate = x.w.delegate /\ y.w.tunnel = x.w.tunnel
               /\ y.w.auth = x.w.auth /\ y.w.keySheet = x.w.keySheet
               /\ Silent(y.w, x.w)
<1>1. CASE ~x.w.delegate
  BY <1>1, Parts, SilentItself DEF Error
<1>2. CASE x.w.delegate
  <2>. DEFINE w == [x.w EXCEPT !.errors = x.w.errors + 1]
  <2>1. /\ w \in Waiter /\ w.delegate = x.w.delegate /\ w.tunnel = x.w.tunnel
        /\ w.auth = x.w.auth /\ w.keySheet = x.w.keySheet
    BY Parts DEF Waiter
  <2>2. Error(x) = [x EXCEPT !.w = w]
    BY <1>2 DEF Error
  <2>. HIDE DEF w
  <2>. DEFINE y == Error(x)
  <2>3. y \in State /\ y.w = w /\ y.t = x.t /\ y.s = x.s
    BY <2>1, <2>2, OtherWaiter
  <2>. HIDE DEF y
  <2>4. Silent(w, x.w)
    BY <1>2 DEF Silent
  <2>. QED BY <2>1, <2>3, <2>4 DEF y
<1>. QED BY <1>1, <1>2

LEMMA TellFailedFollows ==
    ASSUME NEW x \in Works
    PROVE  Follows(TellFailed(x), x)
<1>1. CASE ~x.w.delegate
  BY <1>1, FollowsItself DEF TellFailed
<1>2. CASE x.w.delegate
  <2>0. x \in State /\ x.w \in Waiter /\ Heeded(x.w, x.t) /\ Asked(x.w, x.t)
    BY Parts DEF Works
  <2>. DEFINE told == Append(x.w.told, "failed")
              w == [x.w EXCEPT !.told = told]
  <2>1. TellFailed(x) = [x EXCEPT !.w = w]
    BY <1>2 DEF TellFailed
  <2>2. told \in Seq({"succeeded", "failed"})
    <3>1. x.w.told \in Seq({"succeeded", "failed"})
      BY <2>0 DEF Waiter
    <3>. QED BY <3>1, AppendProperties
  <2>. HIDE DEF told
  <2>3. /\ w \in Waiter /\ w.delegate = x.w.delegate /\ w.tunnel = x.w.tunnel
        /\ w.auth = x.w.auth /\ w.keySheet = x.w.keySheet
    BY <2>0, <2>2 DEF Waiter
  <2>. HIDE DEF w
  <2>4. Heeded(w, x.t) /\ Asked(w, x.t) /\ Silent(w, x.w)
    BY <1>2, <2>0, <2>3 DEF Heeded, Asked, Silent
  <2>. DEFINE y == TellFailed(x)
  <2>5. y \in State /\ y.w = w /\ y.t = x.t
    BY <2>0, <2>1, <2>3, OtherWaiter
  <2>. HIDE DEF y
  <2>. QED BY <2>0, <2>4, <2>5, Made DEF y
<1>. QED BY <1>1, <1>2

\* close, of the tunnel, leaves the waiter as it is.
LEMMA CloseIs ==
    ASSUME NEW x \in State
    PROVE  Close(x) \in State /\ Close(x).w = x.w /\ Close(x).t.state = "closing"
<1>1. CASE x.t.state = "closing"
  BY <1>1 DEF Close
<1>2. CASE x.t.state # "closing"
  <2>. DEFINE t == [x.t EXCEPT !.state = "closing"]
              y == [x EXCEPT !.t.state = "closing"]
              u == [t EXCEPT !.delegate = FALSE]
              z == [y EXCEPT !.t.delegate = FALSE]
              s == [x.s EXCEPT !.terminate = TRUE]
  <2>1. Close(x) = [z EXCEPT !.s.terminate = TRUE]
    BY <1>2 DEF Close
  <2>2. /\ t \in Tunnel /\ t.state = "closing" /\ s \in Ssh
        /\ u \in Tunnel /\ u.state = "closing"
    BY Parts DEF Tunnel, Ssh
  <2>3. y = [x EXCEPT !.t = t]
    OBVIOUS
  <2>4. z = [y EXCEPT !.t = [y.t EXCEPT !.delegate = FALSE]]
    OBVIOUS
  <2>. HIDE DEF t, y
  <2>5. y \in State /\ y.t = t /\ y.w = x.w /\ y.s = x.s
    BY <2>2, <2>3, OtherTunnel
  <2>. HIDE DEF z
  <2>6. z \in State /\ z.t = u /\ z.w = x.w /\ z.s = x.s
    <3>1. z = [y EXCEPT !.t = u]
      BY <2>4, <2>5
    <3>. HIDE DEF u
    <3>. QED BY <2>2, <2>5, <3>1, OtherTunnel
  <2>7. Close(x) = [z EXCEPT !.s = s]
    BY <2>1, <2>6
  <2>. DEFINE c == Close(x)
  <2>. HIDE DEF s, c, u
  <2>8. c \in State /\ c.w = z.w /\ c.t = z.t
    BY <2>2, <2>6, <2>7, OtherSsh DEF c
  <2>. QED BY <2>2, <2>6, <2>8 DEF c
<1>. QED BY <1>1, <1>2

LEMMA CloseFollows ==
    ASSUME NEW x \in Works
    PROVE  Follows(Close(x), x) /\ Follows(CloseIfAny(x), x)
<1>1. x \in State /\ x.w \in Waiter
  BY Parts DEF Works
<1>2. Follows(Close(x), x)
  BY <1>1, CloseIs, ClosingWorks, SilentItself, Made
<1>. QED BY <1>2, FollowsItself DEF CloseIfAny

\* The state of the tunnel alone.
LEMMA StateIs ==
    ASSUME NEW x \in State, NEW st \in {"opening", "prompt", "tunneling", "open", "closing"}
    PROVE  LET y == [x EXCEPT !.t.state = st]
           IN  /\ y \in State /\ y.w = x.w /\ y.s = x.s /\ y.t.state = st
               /\ y.t.delegate = x.t.delegate
<1>. DEFINE t == [x.t EXCEPT !.state = st]
            y == [x EXCEPT !.t.state = st]
<1>1. t \in Tunnel /\ t.state = st /\ t.delegate = x.t.delegate
  BY Parts DEF Tunnel
<1>2. y = [x EXCEPT !.t = t]
  OBVIOUS
<1>. HIDE DEF t, y
<1>3. y \in State /\ y.w = x.w /\ y.t = t /\ y.s = x.s
  BY <1>1, <1>2, OtherTunnel
<1>4. y.t.state = st /\ y.t.delegate = x.t.delegate
  BY <1>1, <1>3
<1>. QED BY <1>3, <1>4 DEF y

\* Changes of the waiter that show nothing.
LEMMA SmallChanges ==
    ASSUME NEW w \in Waiter
    PROVE  /\ LET v == [w EXCEPT !.auth = FALSE]
              IN  v \in Waiter /\ v.delegate = w.delegate /\ Silent(v, w)
           /\ LET v == [w EXCEPT !.timer = FALSE]
              IN  v \in Waiter /\ v.delegate = w.delegate /\ Silent(v, w)
           /\ LET v == [w EXCEPT !.tunnelHasFailed = TRUE]
              IN  v \in Waiter /\ v.delegate = w.delegate /\ Silent(v, w)
<1>0. w.errors \in Nat
  BY DEF Waiter
<1>1. LET v == [w EXCEPT !.auth = FALSE]
      IN  v \in Waiter /\ v.delegate = w.delegate /\ Silent(v, w)
  <2>. DEFINE v == [w EXCEPT !.auth = FALSE]
  <2>1. /\ v \in Waiter /\ v.delegate = w.delegate /\ v.told = w.told
        /\ v.errors = w.errors /\ v.auth = FALSE /\ v.keySheet = w.keySheet
        /\ v.passphraseSheet = w.passphraseSheet
    BY DEF Waiter
  <2>. HIDE DEF v
  <2>2. Silent(v, w)
    BY <1>0, <2>1 DEF Silent
  <2>. QED BY <2>1, <2>2 DEF v
<1>2. LET v == [w EXCEPT !.timer = FALSE]
      IN  v \in Waiter /\ v.delegate = w.delegate /\ Silent(v, w)
  <2>. DEFINE v == [w EXCEPT !.timer = FALSE]
  <2>1. /\ v \in Waiter /\ v.delegate = w.delegate /\ v.told = w.told
        /\ v.errors = w.errors /\ v.auth = w.auth /\ v.keySheet = w.keySheet
        /\ v.passphraseSheet = w.passphraseSheet
    BY DEF Waiter
  <2>. HIDE DEF v
  <2>2. Silent(v, w)
    BY <1>0, <2>1 DEF Silent
  <2>. QED BY <2>1, <2>2 DEF v
<1>3. LET v == [w EXCEPT !.tunnelHasFailed = TRUE]
      IN  v \in Waiter /\ v.delegate = w.delegate /\ Silent(v, w)
  <2>. DEFINE v == [w EXCEPT !.tunnelHasFailed = TRUE]
  <2>1. /\ v \in Waiter /\ v.delegate = w.delegate /\ v.told = w.told
        /\ v.errors = w.errors /\ v.auth = w.auth /\ v.keySheet = w.keySheet
        /\ v.passphraseSheet = w.passphraseSheet
    BY DEF Waiter
  <2>. HIDE DEF v
  <2>2. Silent(v, w)
    BY <1>0, <2>1 DEF Silent
  <2>. QED BY <2>1, <2>2 DEF v
<1>. QED BY <1>1, <1>2, <1>3

\* A failure of ssh, and one of the tunnel, close the tunnel.
LEMMA SshFailedFollows ==
    ASSUME NEW x \in State
    PROVE  Follows(SshFailed(x), x)
<1>. DEFINE y == [x EXCEPT !.t.state = "closing"]
            w == [x.w EXCEPT !.auth = FALSE]
            z == [y EXCEPT !.w.auth = FALSE]
            r == Error(z)
<1>1. /\ y \in State /\ y.w = x.w /\ y.s = x.s /\ y.t.state = "closing"
  BY StateIs
<1>2. SshFailed(x) = IF y.t.delegate THEN r ELSE y
  BY DEF SshFailed, SshFailedWithError
<1>. HIDE DEF y
<1>3. /\ x.w \in Waiter /\ w \in Waiter /\ w.delegate = x.w.delegate /\ Silent(w, x.w)
  <2>1. x.w \in Waiter
    BY Parts
  <2>. QED BY <2>1, SmallChanges
<1>4. z = [y EXCEPT !.w = w]
  BY <1>1
<1>. HIDE DEF w, z
<1>5. z \in State /\ z.w = w /\ z.t = y.t
  BY <1>1, <1>3, <1>4, OtherWaiter
<1>6. Follows(r, z) /\ Follows(z, x) /\ Follows(y, x)
  <2>1. r \in State /\ r.t = z.t /\ Silent(r.w, z.w)
    BY <1>5, ErrorIs
  <2>. HIDE DEF r
  <2>. QED BY <1>1, <1>3, <1>5, <2>1, ClosingWorks, SilentItself, Made
<1>. HIDE DEF r
<1>. QED BY <1>2, <1>6, FollowsTwice

LEMMA TunnelErrorFollows ==
    ASSUME NEW x \in State
    PROVE  Follows(TunnelError(x), x)
<1>. DEFINE y == [x EXCEPT !.t.state = "closing"]
            w == [x.w EXCEPT !.timer = FALSE]
            z == [y EXCEPT !.w.timer = FALSE]
            e == Error(z)
            v == [e.w EXCEPT !.tunnelHasFailed = TRUE]
            r == [e EXCEPT !.w.tunnelHasFailed = TRUE]
<1>1. /\ y \in State /\ y.w = x.w /\ y.s = x.s /\ y.t.state = "closing"
  BY StateIs
<1>2. TunnelError(x) = IF y.t.delegate THEN r ELSE y
  BY DEF TunnelError, TunnelFailed
<1>. HIDE DEF y
<1>3. /\ x.w \in Waiter /\ w \in Waiter /\ w.delegate = x.w.delegate /\ Silent(w, x.w)
  <2>1. x.w \in Waiter
    BY Parts
  <2>. QED BY <2>1, SmallChanges
<1>4. z = [y EXCEPT !.w = w]
  BY <1>1
<1>. HIDE DEF w, z
<1>5. z \in State /\ z.w = w /\ z.t = y.t
  BY <1>1, <1>3, <1>4, OtherWaiter
<1>6. Follows(e, z) /\ Follows(z, x) /\ Follows(y, x) /\ e \in State /\ e.t = y.t
  <2>1. e \in State /\ e.t = z.t /\ Silent(e.w, z.w)
    BY <1>5, ErrorIs
  <2>. HIDE DEF e
  <2>. QED BY <1>1, <1>3, <1>5, <2>1, ClosingWorks, SilentItself, Made
<1>. HIDE DEF e
<1>7. v \in Waiter /\ Silent(v, e.w)
  <2>1. e.w \in Waiter
    BY <1>6, Parts
  <2>. QED BY <2>1, SmallChanges
<1>8. r = [e EXCEPT !.w = v]
  OBVIOUS
<1>. HIDE DEF v, r
<1>9. Follows(r, e)
  <2>1. r \in State /\ r.w = v /\ r.t = e.t
    BY <1>6, <1>7, <1>8, OtherWaiter
  <2>. QED BY <1>1, <1>6, <1>7, <2>1, ClosingWorks, Made
<1>. QED BY <1>2, <1>6, <1>9, FollowsTwice DEF Follows, Works

\* What ssh writes is heeded only with a delegate: a sheet goes up for it.
LEMMA LineFollows ==
    ASSUME NEW x \in Works, NEW line \in Lines
    PROVE  Follows(ProcessStringFromStderr(x, line), x)
<1>. DEFINE r == ProcessStringFromStderr(x, line)
<1>0. x \in State /\ x.w \in Waiter /\ Heeded(x.w, x.t) /\ Asked(x.w, x.t)
  BY Parts DEF Works
<1>1. CASE line = "password" /\ x.t.state = "opening"
  <2>. DEFINE y == [x EXCEPT !.t.state = "prompt"]
              w == [x.w EXCEPT !.auth = TRUE]
  <2>1. r = [y EXCEPT !.w = [y.w EXCEPT !.auth = TRUE]]
    BY <1>1 DEF ProcessStringFromStderr, GetPassword
  <2>2. /\ y \in State /\ y.w = x.w /\ y.t.state = "prompt"
        /\ y.t.delegate = x.t.delegate
    BY <1>0, StateIs
  <2>3. /\ w \in Waiter /\ w.auth /\ w.delegate = x.w.delegate
        /\ w.tunnel = x.w.tunnel
    BY <1>0 DEF Waiter
  <2>. HIDE DEF y, r
  <2>4. r = [y EXCEPT !.w = w]
    BY <2>1, <2>2
  <2>. HIDE DEF w
  <2>5. r \in State /\ r.w = w /\ r.t = y.t
    BY <2>2, <2>3, <2>4, OtherWaiter
  <2>6. Heeded(r.w, r.t) /\ Asked(r.w, r.t) /\ Silent(r.w, x.w)
    BY <1>0, <1>1, <2>2, <2>3, <2>5 DEF Heeded, Asked, Silent
  <2>. QED BY <1>0, <2>5, <2>6, Made DEF r
<1>2. CASE line = "hostkey" /\ x.t.state = "opening"
  <2>. DEFINE y == [x EXCEPT !.t.state = "prompt"]
              w == [x.w EXCEPT !.keySheet = TRUE]
  <2>1. r = [y EXCEPT !.w = [y.w EXCEPT !.keySheet = TRUE]]
    BY <1>2 DEF ProcessStringFromStderr, FirstTimeConnecting
  <2>2. /\ y \in State /\ y.w = x.w /\ y.t.state = "prompt"
        /\ y.t.delegate = x.t.delegate
    BY <1>0, StateIs
  <2>3. /\ w \in Waiter /\ w.keySheet /\ w.delegate = x.w.delegate
        /\ w.tunnel = x.w.tunnel
    BY <1>0 DEF Waiter
  <2>. HIDE DEF y, r
  <2>4. r = [y EXCEPT !.w = w]
    BY <2>1, <2>2
  <2>. HIDE DEF w
  <2>5. r \in State /\ r.w = w /\ r.t = y.t
    BY <2>2, <2>3, <2>4, OtherWaiter
  <2>6. Heeded(r.w, r.t) /\ Asked(r.w, r.t) /\ Silent(r.w, x.w)
    BY <1>0, <1>2, <2>2, <2>3, <2>5 DEF Heeded, Asked, Silent
  <2>. QED BY <1>0, <2>5, <2>6, Made DEF r
<1>3. CASE line = "passphrase" /\ x.t.state \in {"opening", "prompt"}
  <2>. DEFINE y == [x EXCEPT !.t.state = "closing"]
              s == [y.s EXCEPT !.terminate = TRUE]
              z == [y EXCEPT !.s.terminate = TRUE]
              w == [z.w EXCEPT !.auth = FALSE]
              u == [z EXCEPT !.w.auth = FALSE]
              v == [u.w EXCEPT !.passphraseSheet = TRUE]
  <2>1. r = [u EXCEPT !.w.passphraseSheet = TRUE]
    BY <1>3 DEF ProcessStringFromStderr, SshPassphraseRequired
  <2>a. r = [u EXCEPT !.w = v]
    BY <2>1
  <2>b. u = [z EXCEPT !.w = w]
    OBVIOUS
  <2>c. z = [y EXCEPT !.s = s]
    OBVIOUS
  <2>3. y \in State /\ y.w = x.w /\ y.t.state = "closing"
    BY <1>0, StateIs
  <2>. HIDE DEF r, u, z, y
  <2>4. s \in Ssh
    BY <2>3, Parts DEF Ssh
  <2>. HIDE DEF s
  <2>5. z \in State /\ z.w = x.w /\ z.t = y.t
    BY <2>c, <2>3, <2>4, OtherSsh
  <2>6. w \in Waiter
    BY <1>0, <2>5, SmallChanges
  <2>. HIDE DEF w
  <2>7. u \in State /\ u.t = y.t
    <3>. HIDE DEF v
    <3>1. u \in State /\ u.t = z.t
      BY <2>b, <2>5, <2>6, OtherWaiter
    <3>. QED BY <2>5, <3>1
  <2>8. v \in Waiter
    <3>1. u.w \in Waiter
      BY <2>7, Parts
    <3>. QED BY <3>1 DEF Waiter
  <2>. HIDE DEF v
  <2>9. r \in State /\ r.t.state = "closing"
    <3>1. r \in State /\ r.t = u.t
      BY <2>a, <2>7, <2>8, OtherWaiter
    <3>. QED BY <2>3, <2>7, <3>1
  <2>10. Silent(r.w, x.w)
    BY <1>0, <1>3 DEF Heeded, Silent
  <2>. QED BY <1>0, <2>9, <2>10, ClosingWorks, Made DEF r
<1>4. CASE line \in {"failure", "channel"}
  BY <1>0, <1>4, SshFailedFollows, TunnelErrorFollows DEF ProcessStringFromStderr
<1>5. CASE \/ line \in {"password", "hostkey"} /\ x.t.state # "opening"
           \/ line = "passphrase" /\ x.t.state \notin {"opening", "prompt"}
  <2>1. r = x
    BY <1>5 DEF ProcessStringFromStderr
  <2>. QED BY <2>1, FollowsItself
<1>. QED BY <1>1, <1>2, <1>3, <1>4, <1>5 DEF Lines

-----------------------------------------------------------------------------
(* The lines of one read.                                                  *)

Less == {p \in Nat \X Nat : p[1] < p[2]}

\* Induction, from the least number that is not in G.
LEMMA InductionTo ==
    ASSUME NEW n \in Nat, NEW G, 0 \in G,
           \A i \in 1 .. n : i - 1 \in G => i \in G
    PROVE  \A i \in 0 .. n : i \in G
<1>. SUFFICES ASSUME \E i \in 0 .. n : i \notin G PROVE FALSE
  OBVIOUS
<1>. DEFINE T == {i \in 0 .. n : i \notin G}
<1>1. T \subseteq Nat /\ T # {}
  OBVIOUS
<1>2. IsWellFoundedOn(Less, Nat)
  <2>1. OpToRel(<, Nat) = Less
    BY Zenon DEF OpToRel, Less
  <2>. QED BY <2>1, NatLessThanWellFounded, Zenon
<1>3. PICK x \in T : \A y \in T : <<y, x>> \notin Less
  <2>. HIDE DEF T
  <2>. QED BY <1>1, <1>2, WFMin
<1>4. x \in 1 .. n /\ x - 1 \in 0 .. n /\ <<x - 1, x>> \in Less
  BY DEF Less
<1>5. x - 1 \notin T
  BY <1>3, <1>4
<1>. QED BY <1>3, <1>4, <1>5

\* What one line keeps, all keep: from x on, everything stays in K.
LEMMA LinesKeep ==
    ASSUME NEW K, NEW x \in K, NEW lines \in Seq(Lines),
           \A y \in K, line \in Lines : ProcessStringFromStderr(y, line) \in K
    PROVE  ProcessLines(x, lines) \in K
<1>. DEFINE L == Len(lines)
            P(y, n) == ProcessStringFromStderr(y, lines[n])
            By(k, g) == g[0] = x /\ \A i \in 1 .. k : g[i] = P(g[i - 1], i)
            G == {k \in 0 .. L : \E g \in [0 .. k -> K] : By(k, g)}
<1>0. L \in Nat /\ \A n \in 1 .. L : lines[n] \in Lines
  BY ElementOfSeq
<1>. HIDE DEF L
<1>1. 0 \in G
  <2>. DEFINE h == [i \in 0 .. 0 |-> x]
  <2>1. h \in [0 .. 0 -> K] /\ h[0] = x
    OBVIOUS
  <2>. HIDE DEF h, P
  <2>2. By(0, h)
    BY <2>1
  <2>. HIDE DEF By
  <2>. QED BY <1>0, <2>1, <2>2
<1>2. ASSUME NEW k \in 1 .. L, k - 1 \in G PROVE k \in G
  <2>1. PICK g \in [0 .. k - 1 -> K] : By(k - 1, g)
    BY <1>2
  <2>. DEFINE new == P(g[k - 1], k)
              h == [i \in 0 .. k |-> IF i = k THEN new ELSE g[i]]
  <2>2. new \in K
    <3>1. g[k - 1] \in K
      BY <1>0
    <3>. QED BY <1>0, <3>1
  <2>3. h[k] = new /\ \A i \in 0 .. k - 1 : h[i] = g[i]
    OBVIOUS
  <2>4. h \in [0 .. k -> K]
    BY <2>2
  <2>. HIDE DEF h, P
  <2>5. By(k, h)
    <3>1. h[0] = x
      BY <2>1, <2>3
    <3>2. ASSUME NEW i \in 1 .. k PROVE h[i] = P(h[i - 1], i)
      <4>1. h[i - 1] = g[i - 1]
        BY <2>3
      <4>2. CASE i = k
        BY <2>3, <4>1, <4>2
      <4>3. CASE i # k
        BY <2>1, <2>3, <4>1, <4>3
      <4>. QED BY <4>2, <4>3
    <3>. QED BY <3>1, <3>2
  <2>. HIDE DEF By
  <2>. QED BY <2>4, <2>5
<1>3. \A k \in 0 .. L : k \in G
  <2>. HIDE DEF G
  <2>. QED BY <1>0, <1>1, <1>2, InductionTo
<1>4. L \in 0 .. L
  BY <1>0
<1>5. PICK g \in [0 .. L -> K] : By(L, g)
  <2>1. L \in G
    <3>. HIDE DEF G
    <3>. QED BY <1>3, <1>4
  <2>. HIDE DEF By
  <2>. QED BY <2>1
\* The recursive function is this one.
<1>. DEFINE Next1(f) == [n \in 0 .. L |-> IF n = 0 THEN x
                                         ELSE ProcessStringFromStderr(f[n - 1], lines[n])]
            after == CHOOSE f : f = Next1(f)
<1>6. ProcessLines(x, lines) = after[L]
  BY DEF ProcessLines, L
<1>7. g = Next1(g)
  <2>1. ASSUME NEW n \in 0 .. L PROVE Next1(g)[n] = g[n]
    BY <1>5
  <2>. HIDE DEF By
  <2>. QED BY <2>1
<1>8. after = Next1(after)
  <2>. HIDE DEF Next1
  <2>. QED BY <1>7
<1>. HIDE DEF after
<1>9. By(L, after)
  <2>1. \A n \in 0 .. L : after[n] = Next1(after)[n]
    BY <1>8
  <2>2. 0 \in 0 .. L /\ \A n \in 1 .. L : n \in 0 .. L /\ n # 0
    BY <1>0
  <2>. QED BY <2>1, <2>2
<1>. DEFINE E == {n \in 0 .. L : after[n] = g[n]}
<1>10. \A n \in 0 .. L : n \in E
  <2>1. 0 \in E
    BY <1>0, <1>5, <1>9
  <2>2. ASSUME NEW n \in 1 .. L, n - 1 \in E PROVE n \in E
    BY <1>5, <1>9, <2>2
  <2>. HIDE DEF E
  <2>. QED BY <1>0, <2>1, <2>2, InductionTo
<1>. QED BY <1>4, <1>6, <1>10

LEMMA LinesFollow ==
    ASSUME NEW x \in Works, NEW lines \in Seq(Lines)
    PROVE  Follows(ProcessLines(x, lines), x)
<1>. DEFINE K == {y \in Works : Follows(y, x)}
<1>1. x \in K
  BY FollowsItself
<1>2. ASSUME NEW y \in K, NEW line \in Lines
      PROVE  ProcessStringFromStderr(y, line) \in K
  <2>. DEFINE z == ProcessStringFromStderr(y, line)
  <2>1. Follows(z, y) /\ Follows(y, x)
    BY LineFollows
  <2>. HIDE DEF z
  <2>2. Follows(z, x)
    BY <2>1, FollowsTwice DEF Works
  <2>. QED BY <2>2 DEF Follows, z
<1>. HIDE DEF K
<1>3. ProcessLines(x, lines) \in K
  BY <1>1, <1>2, LinesKeep
<1>. QED BY <1>3 DEF K

-----------------------------------------------------------------------------
(* The other functions.                                                    *)

\* Another waiter, with as many sheets that answer ssh.
LEMMA WaiterFollows ==
    ASSUME NEW x \in Works, NEW v \in Waiter, NEW y, y = [x EXCEPT !.w = v],
           v.delegate = x.w.delegate, v.tunnel = x.w.tunnel,
           x.w.auth => v.auth, x.w.keySheet => v.keySheet, Silent(v, x.w)
    PROVE  Follows(y, x)
<1>1. x \in State /\ Heeded(x.w, x.t) /\ Asked(x.w, x.t)
  BY DEF Works
<1>2. y \in State /\ y.w = v /\ y.t = x.t
  BY <1>1, OtherWaiter
<1>3. Heeded(v, x.t) /\ Asked(v, x.t)
  BY <1>1 DEF Heeded, Asked
<1>. QED BY <1>1, <1>2, <1>3, Made

\* Another ssh, and a tunnel that only stops to read.
LEMMA SshFollows ==
    ASSUME NEW x \in Works, NEW s \in Ssh, NEW y, y = [x EXCEPT !.s = s]
    PROVE  Follows(y, x) /\ y.t = x.t
<1>1. x \in State /\ x.w \in Waiter /\ Heeded(x.w, x.t) /\ Asked(x.w, x.t)
  BY Parts DEF Works
<1>2. y \in State /\ y.w = x.w /\ y.t = x.t
  BY <1>1, OtherSsh
<1>. QED BY <1>1, <1>2, SilentItself, Made

LEMMA ReadingOverFollows ==
    ASSUME NEW x \in Works
    PROVE  Follows([x EXCEPT !.t.reading = FALSE], x)
<1>. DEFINE t == [x.t EXCEPT !.reading = FALSE]
            y == [x EXCEPT !.t.reading = FALSE]
<1>1. x \in State /\ x.w \in Waiter /\ Heeded(x.w, x.t) /\ Asked(x.w, x.t)
  BY Parts DEF Works
<1>2. t \in Tunnel /\ t.state = x.t.state /\ t.delegate = x.t.delegate
  BY <1>1, Parts DEF Tunnel
<1>3. y = [x EXCEPT !.t = t]
  OBVIOUS
<1>4. Heeded(x.w, t) /\ Asked(x.w, t)
  BY <1>1, <1>2 DEF Heeded, Asked
<1>. HIDE DEF t, y
<1>5. y \in State /\ y.w = x.w /\ y.t = t
  BY <1>1, <1>2, <1>3, OtherTunnel
<1>. QED BY <1>1, <1>4, <1>5, SilentItself, Made DEF y

\* An answer takes the tunnel out of the prompt.
LEMMA WriteToHelperIs ==
    ASSUME NEW x \in State
    PROVE  LET y == WriteToHelper(x)
           IN  /\ y \in State /\ y.w = x.w /\ y.t.delegate = x.t.delegate
               /\ y.t.state = IF x.t.state = "prompt" THEN "opening" ELSE x.t.state
<1>1. CASE x.t.state # "prompt"
  BY <1>1 DEF WriteToHelper
<1>2. CASE x.t.state = "prompt"
  <2>. DEFINE y == [x EXCEPT !.t.state = "opening"]
              at == IF y.s.at = "asks" THEN "connecting" ELSE y.s.at
              s == [y.s EXCEPT !.at = at]
              r == WriteToHelper(x)
  <2>1. r = [y EXCEPT !.s.at = at]
    BY <1>2 DEF WriteToHelper
  <2>2. /\ y \in State /\ y.w = x.w /\ y.t.state = "opening"
        /\ y.t.delegate = x.t.delegate
    BY StateIs
  <2>3. r = [y EXCEPT !.s = s]
    BY <2>1
  <2>. HIDE DEF y, r
  <2>4. s \in Ssh
    <3>1. y.s \in Ssh
      BY <2>2, Parts
    <3>2. at \in {"connecting", "asks", "connected", "ended", "none"}
      BY <3>1 DEF Ssh
    <3>. HIDE DEF at
    <3>. QED BY <3>1, <3>2 DEF Ssh
  <2>. HIDE DEF s
  <2>5. r \in State /\ r.w = y.w /\ r.t = y.t
    BY <2>2, <2>3, <2>4, OtherSsh
  <2>. QED BY <1>2, <2>2, <2>5 DEF r
<1>. QED BY <1>1, <1>2

\* After an answer the tunnel does not wait any more, whoever gave it.
LEMMA AnsweredFollows ==
    ASSUME NEW x \in Works, NEW y \in State, y.t = x.t, y.w.delegate = x.w.delegate,
           y.w.tunnel = x.w.tunnel, Silent(y.w, x.w)
    PROVE  /\ Follows(WriteToHelper(y), x)
           /\ Follows(AcceptKey(y, FALSE), x)
<1>. DEFINE z == WriteToHelper(y)
            c == [z EXCEPT !.t.state = "closing"]
            s == [c.s EXCEPT !.terminate = c.s.terminate \/ y.t.state = "prompt"]
            r == AcceptKey(y, FALSE)
<1>1. x \in State /\ Heeded(x.w, x.t) /\ Asked(x.w, x.t)
  BY DEF Works
<1>2. /\ z \in State /\ z.w = y.w /\ z.t.delegate = y.t.delegate
      /\ z.t.state = IF y.t.state = "prompt" THEN "opening" ELSE y.t.state
  BY WriteToHelperIs
<1>3. r = [c EXCEPT !.s.terminate = c.s.terminate \/ y.t.state = "prompt"]
  BY DEF AcceptKey
<1>4. r = [c EXCEPT !.s = s]
  BY <1>3
<1>. HIDE DEF z, r
<1>5. Heeded(z.w, z.t) /\ Asked(z.w, z.t)
  BY <1>1, <1>2 DEF Heeded, Asked
<1>6. Follows(z, x)
  BY <1>1, <1>2, <1>5, Made
<1>7. c \in State /\ c.w = z.w /\ c.t.state = "closing"
  BY <1>2, StateIs
<1>. HIDE DEF c
<1>8. s \in Ssh
  BY <1>7, Parts DEF Ssh
<1>. HIDE DEF s
<1>9. r \in State /\ r.w = c.w /\ r.t = c.t
  BY <1>4, <1>7, <1>8, OtherSsh
<1>10. Follows(r, x)
  BY <1>1, <1>2, <1>7, <1>9, ClosingWorks, Made
<1>. QED BY <1>6, <1>10 DEF z, r

\* Who has a tunnel closes it, and whoever has none has none that heeds ssh.
LEMMA CloseIfAnyFollows ==
    ASSUME NEW x \in Works, NEW y \in State, y.t = x.t,
           y.w.tunnel = x.w.tunnel, Silent(y.w, x.w)
    PROVE  Follows(CloseIfAny(y), x)
<1>1. x \in State /\ Heeded(x.w, x.t)
  BY DEF Works
<1>2. CASE y.w.tunnel
  <2>. DEFINE z == Close(y)
  <2>1. z \in State /\ z.w = y.w /\ z.t.state = "closing"
    BY CloseIs
  <2>2. CloseIfAny(y) = z
    BY <1>2 DEF CloseIfAny
  <2>. HIDE DEF z
  <2>. QED BY <1>1, <2>1, <2>2, ClosingWorks, Made
<1>3. CASE ~y.w.tunnel
  <2>1. CloseIfAny(y) = y
    BY <1>3 DEF CloseIfAny
  <2>2. Heeded(y.w, y.t) /\ Asked(y.w, y.t)
    BY <1>1, <1>3 DEF Heeded, Asked
  <2>. QED BY <1>1, <2>1, <2>2, Made
<1>. QED BY <1>2, <1>3

\* The outcome "succeeded" leaves the tunnel to the session.
LEMMA FinishConnectionFollows ==
    ASSUME NEW x \in Works
    PROVE  Follows(FinishConnection(x), x)
<1>0. x \in State /\ x.w \in Waiter
  BY Parts DEF Works
<1>1. CASE ~x.w.delegate
  BY <1>1, FollowsItself DEF FinishConnection
<1>2. CASE x.w.delegate
  <2>. DEFINE told == Append(x.w.told, "succeeded")
              a == [x EXCEPT !.w.told = told]
              b == [a EXCEPT !.w.tunnel = FALSE]
              c == [b EXCEPT !.w.sock = FALSE]
              d == [c EXCEPT !.t.state = "open"]
              t == [d.t EXCEPT !.delegate = FALSE]
              r == FinishConnection(x)
  <2>1. r = [d EXCEPT !.t.delegate = FALSE]
    BY <1>2 DEF FinishConnection, SshTunnelConnected
  <2>2. told \in Seq({"succeeded", "failed"})
    <3>1. x.w.told \in Seq({"succeeded", "failed"})
      BY <1>0 DEF Waiter
    <3>. QED BY <3>1, AppendProperties
  <2>. HIDE DEF told
  <2>3. a \in State
    <3>. DEFINE w == [x.w EXCEPT !.told = told]
    <3>1. w \in Waiter
      BY <1>0, <2>2 DEF Waiter
    <3>2. a = [x EXCEPT !.w = w]
      OBVIOUS
    <3>. HIDE DEF w, a
    <3>. QED BY <1>0, <3>1, <3>2, OtherWaiter
  <2>. HIDE DEF a
  <2>4. b \in State
    <3>. DEFINE w == [a.w EXCEPT !.tunnel = FALSE]
    <3>1. w \in Waiter
      BY <2>3, Parts DEF Waiter
    <3>2. b = [a EXCEPT !.w = w]
      OBVIOUS
    <3>. HIDE DEF w, b
    <3>. QED BY <2>3, <3>1, <3>2, OtherWaiter
  <2>. HIDE DEF b
  <2>5. c \in State
    <3>. DEFINE w == [b.w EXCEPT !.sock = FALSE]
    <3>1. w \in Waiter
      BY <2>4, Parts DEF Waiter
    <3>2. c = [b EXCEPT !.w = w]
      OBVIOUS
    <3>. HIDE DEF w, c
    <3>. QED BY <2>4, <3>1, <3>2, OtherWaiter
  <2>. HIDE DEF c
  <2>6. d \in State /\ d.t.state = "open"
    BY <2>5, StateIs
  <2>7. r = [d EXCEPT !.t = t]
    BY <2>1
  <2>. HIDE DEF d, r
  <2>8. t \in Tunnel /\ t.state = "open"
    <3>1. d.t \in Tunnel
      BY <2>6, Parts
    <3>. QED BY <2>6, <3>1 DEF Tunnel
  <2>. HIDE DEF t
  <2>9. r \in State /\ r.t = t
    BY <2>6, <2>7, <2>8, OtherTunnel
  <2>10. Heeded(r.w, r.t) /\ Asked(r.w, r.t) /\ Silent(r.w, x.w)
    BY <1>2, <2>8, <2>9 DEF Heeded, Asked, Silent
  <2>. QED BY <1>0, <2>9, <2>10, Made DEF r
<1>. QED BY <1>1, <1>2

-----------------------------------------------------------------------------
(* The actions.                                                            *)

IInv == TypeOK /\ Heeded(waiter, tunnel) /\ PromptIsAsked

LEMMA InvWorks ==
    ASSUME IInv
    PROVE  /\ All \in Works /\ All \in State
           /\ All.w = waiter /\ All.t = tunnel /\ All.s = ssh
           /\ waiter \in Waiter /\ tunnel \in Tunnel /\ ssh \in Ssh
BY DEF IInv, TypeOK, PromptIsAsked, Asked, Works, State, All

\* What an action does not do with the record of the handlers.
Rest ==
    /\ protocol' = protocol
    /\ thread' \in {"none", "waits", "over"}
    /\ mainQueue' \in Seq({"finishConnection", "serverClosed"})

Kept == IInv' /\ Silent(waiter', waiter)

\* A state of the handlers that follows is the next one.
LEMMA BecomeKeeps ==
    ASSUME IInv, NEW r, Follows(r, All), Become(r), Rest
    PROVE  Kept
<1>1. waiter' = r.w /\ tunnel' = r.t /\ ssh' = r.s
  BY DEF Become
<1>2. r \in State /\ Heeded(r.w, r.t) /\ Asked(r.w, r.t) /\ Silent(r.w, waiter)
  BY InvWorks DEF Follows, Works
<1>3. r.w \in Waiter /\ r.t \in Tunnel /\ r.s \in Ssh
  BY <1>2, Parts
<1>4. TypeOK'
  BY <1>1, <1>3 DEF IInv, TypeOK, Rest
<1>. QED BY <1>1, <1>2, <1>4 DEF Kept, IInv, Heeded, Asked, PromptIsAsked

\* A step that leaves the rest as it is.
LEMMA RestKept ==
    ASSUME IInv, UNCHANGED <<protocol, thread, mainQueue>>
    PROVE  Rest
BY DEF IInv, TypeOK, Rest

\* ssh writes, and ends.
LEMMA ReadErrKeeps == ASSUME IInv, ReadErr PROVE Kept
<1>1. PICK n \in 1 .. Len(ssh.err) :
         LET x == [All EXCEPT !.s.err = SubSeq(ssh.err, n + 1, Len(ssh.err))]
         IN  Become(IF tunnel.state = "closing" THEN [x EXCEPT !.t.reading = FALSE]
                    ELSE ProcessLines(x, SubSeq(ssh.err, 1, n)))
  BY InvWorks DEF ReadErr
<1>. DEFINE left == SubSeq(ssh.err, n + 1, Len(ssh.err))
            lines == SubSeq(ssh.err, 1, n)
            s == [All.s EXCEPT !.err = left]
            x == [All EXCEPT !.s.err = left]
<1>2. /\ All \in Works /\ All \in State /\ All.s = ssh /\ ssh \in Ssh
      /\ ssh.err \in Seq(Lines)
  BY InvWorks DEF Ssh
<1>3. left \in Seq(Lines) /\ lines \in Seq(Lines)
  BY <1>2, SubSeqProperties
<1>4. Become(IF tunnel.state = "closing" THEN [x EXCEPT !.t.reading = FALSE]
             ELSE ProcessLines(x, lines))
  BY <1>1
<1>5. x = [All EXCEPT !.s = s]
  OBVIOUS
<1>. HIDE DEF left, lines
<1>6. s \in Ssh
  BY <1>2, <1>3 DEF Ssh
<1>. HIDE DEF s, x
<1>7. Follows(x, All) /\ x \in Works
  BY <1>2, <1>5, <1>6, SshFollows DEF Follows
<1>8. Follows([x EXCEPT !.t.reading = FALSE], All) /\ Follows(ProcessLines(x, lines), All)
  BY <1>2, <1>3, <1>7, ReadingOverFollows, LinesFollow, FollowsTwice
<1>9. Rest
  BY RestKept DEF ReadErr
<1>. QED BY <1>4, <1>8, <1>9, BecomeKeeps

LEMMA ReadErrEndKeeps == ASSUME IInv, ReadErrEnd PROVE Kept
<1>. DEFINE x == [All EXCEPT !.t.reading = FALSE]
<1>1. Become(IF tunnel.state = "closing" THEN x ELSE SshFailed(x))
  BY DEF ReadErrEnd
<1>2. Follows(x, All) /\ All \in State
  BY InvWorks, ReadingOverFollows
<1>. HIDE DEF x
<1>3. x \in State
  BY <1>2 DEF Follows, Works
<1>4. Follows(SshFailed(x), All)
  BY <1>2, <1>3, SshFailedFollows, FollowsTwice
<1>5. Rest
  BY RestKept DEF ReadErrEnd
<1>. QED BY <1>1, <1>2, <1>4, <1>5, BecomeKeeps

\* The tunnel is established only out of a state in which it has its waiter.
LEMMA EstablishedFollows ==
    ASSUME NEW x \in Works, x.t.state = "opening",
           NEW r \in TunnelEstablished([x EXCEPT !.t.state = "tunneling",
                                                 !.t.fifo = FALSE])
    PROVE  Follows(r.x, x) /\ r.thread \in {"none", "waits"}
<1>. DEFINE a == [x EXCEPT !.t.state = "tunneling"]
            t == [a.t EXCEPT !.fifo = FALSE]
            y == [a EXCEPT !.t.fifo = FALSE]
            w == [y.w EXCEPT !.sock = TRUE]
            z == [y EXCEPT !.w.sock = TRUE]
<1>0. x \in State /\ x.w \in Waiter /\ Heeded(x.w, x.t)
  BY Parts DEF Works
<1>1. r \in {[x |-> Error(y), thread |-> "none"], [x |-> Error(z), thread |-> "none"],
             [x |-> z, thread |-> "waits"]}
  BY DEF TunnelEstablished
<1>2. y = [a EXCEPT !.t = t]
  OBVIOUS
<1>3. z = [y EXCEPT !.w = w]
  OBVIOUS
<1>4. /\ a \in State /\ a.w = x.w /\ a.t.state = "tunneling"
      /\ a.t.delegate = x.t.delegate
  BY <1>0, StateIs
<1>. HIDE DEF a, y, z
<1>5. t \in Tunnel /\ t.state = "tunneling" /\ t.delegate = x.t.delegate
  <2>1. a.t \in Tunnel
    BY <1>4, Parts
  <2>. QED BY <1>4, <2>1 DEF Tunnel
<1>. HIDE DEF t
<1>6. y \in State /\ y.w = x.w /\ y.t = t
  BY <1>2, <1>4, <1>5, OtherTunnel
<1>7. /\ w \in Waiter /\ w.delegate = x.w.delegate /\ w.tunnel = x.w.tunnel
  BY <1>0, <1>6 DEF Waiter
<1>. HIDE DEF w
<1>8. z \in State /\ z.w = w /\ z.t = t
  BY <1>3, <1>6, <1>7, OtherWaiter
<1>9. ASSUME NEW u \in State, u.t = t, u.w.delegate = x.w.delegate,
             u.w.tunnel = x.w.tunnel
      PROVE  Follows(u, x)
  <2>1. Heeded(u.w, u.t) /\ Asked(u.w, u.t) /\ Silent(u.w, x.w)
    BY <1>0, <1>5, <1>9 DEF Heeded, Asked, Silent
  <2>. QED BY <1>0, <2>1, Made
<1>. DEFINE ey == Error(y)
            ez == Error(z)
<1>10. /\ ey \in State /\ ey.t = t /\ ey.w.delegate = x.w.delegate
       /\ ey.w.tunnel = x.w.tunnel
       /\ ez \in State /\ ez.t = t /\ ez.w.delegate = x.w.delegate
       /\ ez.w.tunnel = x.w.tunnel
  BY <1>6, <1>7, <1>8, ErrorIs
<1>. HIDE DEF ey, ez
<1>11. Follows(ey, x) /\ Follows(ez, x) /\ Follows(z, x)
  BY <1>7, <1>8, <1>9, <1>10
<1>12. /\ r.x \in {ey, ez, z}
       /\ r.thread \in {"none", "waits"}
  BY <1>1 DEF ey, ez
<1>. QED BY <1>11, <1>12

LEMMA ReadOutKeeps == ASSUME IInv, ReadOut PROVE Kept
<1>. DEFINE s == [All.s EXCEPT !.out = FALSE]
            x == [All EXCEPT !.s.out = FALSE]
<1>1. /\ All \in Works /\ All \in State /\ All.s = ssh /\ ssh \in Ssh /\ All.t = tunnel
  BY InvWorks
<1>2. x = [All EXCEPT !.s = s]
  OBVIOUS
<1>3. s \in Ssh
  BY <1>1 DEF Ssh
<1>4. \/ Become(x) /\ UNCHANGED thread
      \/ /\ tunnel.state = "opening"
         /\ \E r \in TunnelEstablished([x EXCEPT !.t.state = "tunneling",
                                                 !.t.fifo = FALSE]) :
               Become(r.x) /\ thread' = r.thread
  BY DEF ReadOut
<1>. HIDE DEF s, x
<1>5. Follows(x, All) /\ x \in Works /\ x.t = tunnel
  BY <1>1, <1>2, <1>3, SshFollows DEF Follows
<1>6. UNCHANGED <<protocol, mainQueue>>
  BY DEF ReadOut
<1>7. CASE Become(x) /\ UNCHANGED thread
  BY <1>5, <1>6, <1>7, RestKept, BecomeKeeps
<1>8. CASE /\ tunnel.state = "opening"
           /\ \E r \in TunnelEstablished([x EXCEPT !.t.state = "tunneling",
                                                   !.t.fifo = FALSE]) :
                 Become(r.x) /\ thread' = r.thread
  <2>1. PICK r \in TunnelEstablished([x EXCEPT !.t.state = "tunneling",
                                               !.t.fifo = FALSE]) :
           Become(r.x) /\ thread' = r.thread
    BY <1>8
  <2>2. Follows(r.x, x) /\ r.thread \in {"none", "waits"}
    BY <1>5, <1>8, EstablishedFollows
  <2>3. Follows(r.x, All)
    BY <1>1, <1>5, <2>2, FollowsTwice
  <2>4. Rest
    BY <1>6, <2>1, <2>2 DEF Rest, IInv, TypeOK
  <2>. QED BY <2>1, <2>3, <2>4, BecomeKeeps
<1>. QED BY <1>4, <1>7, <1>8

LEMMA SshTerminatedKeeps == ASSUME IInv, SshTerminated PROVE Kept
<1>. DEFINE r == [All EXCEPT !.s.reported = TRUE, !.t.state = "closing",
                             !.t.port = FALSE, !.t.fifo = FALSE]
            s == [All.s EXCEPT !.reported = TRUE]
            a == [All EXCEPT !.s.reported = TRUE]
            b == [a EXCEPT !.t.state = "closing"]
            t == [b.t EXCEPT !.port = FALSE]
            c == [b EXCEPT !.t.port = FALSE]
            u == [c.t EXCEPT !.fifo = FALSE]
<1>1. /\ All \in Works /\ All \in State /\ All.s = ssh /\ ssh \in Ssh
  BY InvWorks
<1>2. a = [All EXCEPT !.s = s]
  OBVIOUS
<1>3. c = [b EXCEPT !.t = t]
  OBVIOUS
<1>4. r = [c EXCEPT !.t = u]
  OBVIOUS
<1>5. s \in Ssh
  BY <1>1 DEF Ssh
<1>6. Become(r)
  BY DEF SshTerminated
<1>. HIDE DEF s, a, r, c
<1>7. a \in State /\ a.w = All.w
  BY <1>1, <1>2, <1>5, OtherSsh
<1>8. b \in State /\ b.w = a.w /\ b.t.state = "closing"
  BY <1>7, StateIs
<1>. HIDE DEF b
<1>9. t \in Tunnel /\ t.state = "closing"
  <2>1. b.t \in Tunnel
    BY <1>8, Parts
  <2>. QED BY <1>8, <2>1 DEF Tunnel
<1>. HIDE DEF t
<1>10. c \in State /\ c.w = b.w /\ c.t.state = "closing"
  BY <1>3, <1>8, <1>9, OtherTunnel
<1>11. u \in Tunnel /\ u.state = "closing"
  <2>1. c.t \in Tunnel
    BY <1>10, Parts
  <2>. QED BY <1>10, <2>1 DEF Tunnel
<1>. HIDE DEF u
<1>12. r \in State /\ r.w = All.w /\ r.t.state = "closing"
  BY <1>4, <1>7, <1>8, <1>10, <1>11, OtherTunnel
<1>13. Follows(r, All)
  BY <1>1, <1>12, Parts, ClosingWorks, SilentItself, Made
<1>14. Rest
  BY RestKept DEF SshTerminated
<1>. QED BY <1>6, <1>13, <1>14, BecomeKeeps

\* The thread, and what it asks of the main thread.
LEMMA WaitForDataKeeps == ASSUME IInv, WaitForData PROVE Kept
<1>1. /\ waiter \in Waiter /\ mainQueue \in Seq({"finishConnection", "serverClosed"})
      /\ Heeded(waiter, tunnel) /\ Asked(waiter, tunnel)
  BY DEF IInv, TypeOK, PromptIsAsked, Asked
<1>2. /\ waiter' \in Waiter /\ waiter'.delegate = waiter.delegate
      /\ waiter'.tunnel = waiter.tunnel /\ waiter'.auth = waiter.auth
      /\ waiter'.keySheet = waiter.keySheet /\ waiter'.told = waiter.told
      /\ waiter'.errors = waiter.errors
      /\ waiter'.passphraseSheet = waiter.passphraseSheet
  <2>1. waiter' = waiter \/ waiter' = [waiter EXCEPT !.sock = FALSE]
    BY DEF WaitForData
  <2>. QED BY <1>1, <2>1 DEF Waiter
<1>3. mainQueue' \in Seq({"finishConnection", "serverClosed"})
  <2>1. \E m \in {"finishConnection", "serverClosed"} : mainQueue' = Append(mainQueue, m)
    BY DEF WaitForData
  <2>. QED BY <1>1, <2>1, AppendProperties
<1>4. /\ thread' = "over" /\ protocol' = protocol /\ tunnel' = tunnel /\ ssh' = ssh
  BY DEF WaitForData
<1>5. waiter.errors \in Nat
  BY <1>1 DEF Waiter
<1>6. Silent(waiter', waiter)
  BY <1>2, <1>5 DEF Silent
<1>7. TypeOK'
  BY <1>2, <1>3, <1>4 DEF IInv, TypeOK
<1>. QED BY <1>1, <1>2, <1>4, <1>6, <1>7 DEF Kept, IInv, Heeded, Asked, PromptIsAsked

LEMMA MainPerformsKeeps == ASSUME IInv, MainPerforms PROVE Kept
<1>. DEFINE w == [All.w EXCEPT !.timer = TRUE]
            x == [All EXCEPT !.w.timer = TRUE]
<1>1. /\ All \in Works /\ All \in State /\ All.w = waiter /\ waiter \in Waiter
      /\ waiter.errors \in Nat
  BY InvWorks DEF Waiter
<1>2. Follows(x, All)
  <2>1. x = [All EXCEPT !.w = w]
    OBVIOUS
  <2>2. /\ w \in Waiter /\ w.delegate = All.w.delegate /\ w.tunnel = All.w.tunnel
        /\ w.auth = All.w.auth /\ w.keySheet = All.w.keySheet
        /\ w.told = All.w.told /\ w.errors = All.w.errors
        /\ w.passphraseSheet = All.w.passphraseSheet
    BY <1>1 DEF Waiter
  <2>. HIDE DEF w, x
  <2>3. Silent(w, All.w)
    BY <1>1, <2>2 DEF Silent
  <2>. QED BY <1>1, <2>1, <2>2, <2>3, WaiterFollows
<1>3. Become(ServerClosed(All)) \/ Become(FinishConnection(All))
  BY DEF MainPerforms
<1>4. ServerClosed(All) = All \/ ServerClosed(All) = x
  BY DEF ServerClosed
<1>. HIDE DEF x
<1>5. Follows(ServerClosed(All), All) /\ Follows(FinishConnection(All), All)
  BY <1>1, <1>2, <1>4, FollowsItself, FinishConnectionFollows
<1>6. Rest
  <2>1. mainQueue \in Seq({"finishConnection", "serverClosed"}) /\ mainQueue # <<>>
    BY DEF IInv, TypeOK, MainPerforms
  <2>2. Tail(mainQueue) \in Seq({"finishConnection", "serverClosed"})
    BY <2>1, HeadTailProperties
  <2>. QED BY <2>2 DEF MainPerforms, Rest, IInv, TypeOK
<1>. QED BY <1>3, <1>5, <1>6, BecomeKeeps

LEMMA ServerClosedNoReasonKeeps == ASSUME IInv, ServerClosedNoReason PROVE Kept
<1>. DEFINE w == [All.w EXCEPT !.timer = FALSE]
            x == [All EXCEPT !.w.timer = FALSE]
            e == Error(x)
<1>1. /\ All \in Works /\ All \in State /\ All.w = waiter /\ waiter \in Waiter
      /\ waiter.errors \in Nat
  BY InvWorks DEF Waiter
<1>2. Become(CloseIfAny(e))
  BY DEF ServerClosedNoReason
<1>3. x = [All EXCEPT !.w = w]
  OBVIOUS
<1>4. w \in Waiter /\ w.tunnel = All.w.tunnel
  BY <1>1 DEF Waiter
<1>5. w.delegate = All.w.delegate /\ Silent(w, All.w)
  BY <1>1, SmallChanges
<1>. HIDE DEF w, x
<1>6. x \in State /\ x.w = w /\ x.t = All.t
  BY <1>1, <1>3, <1>4, OtherWaiter
<1>7. e \in State /\ e.t = x.t /\ e.w.tunnel = x.w.tunnel /\ Silent(e.w, x.w)
  BY <1>6, ErrorIs
<1>. HIDE DEF e
<1>8. Silent(e.w, All.w)
  <2>1. e.w.errors \in Nat /\ w.errors \in Nat
    BY <1>4, <1>7, Parts DEF Waiter
  <2>. QED BY <1>1, <1>5, <1>6, <1>7, <2>1 DEF Silent
<1>9. Follows(CloseIfAny(e), All)
  BY <1>1, <1>4, <1>6, <1>7, <1>8, CloseIfAnyFollows
<1>10. Rest
  BY RestKept DEF ServerClosedNoReason
<1>. QED BY <1>2, <1>9, <1>10, BecomeKeeps

\* The sheets.  One that ends is no longer up, and shows nothing.
LEMMA SheetOver ==
    ASSUME IInv
    PROVE  \A x \in {[All EXCEPT !.w.auth = FALSE], [All EXCEPT !.w.keySheet = FALSE]} :
              /\ x \in State /\ x.t = All.t /\ x.w.delegate = All.w.delegate
              /\ x.w.tunnel = All.w.tunnel /\ Silent(x.w, All.w)
<1>1. /\ All \in Works /\ All \in State /\ All.w = waiter /\ waiter \in Waiter
      /\ waiter.errors \in Nat
  BY InvWorks DEF Waiter
<1>2. ASSUME NEW x, NEW w \in Waiter, x = [All EXCEPT !.w = w],
             w.delegate = All.w.delegate, w.tunnel = All.w.tunnel,
             Silent(w, All.w)
      PROVE  /\ x \in State /\ x.t = All.t /\ x.w.delegate = All.w.delegate
             /\ x.w.tunnel = All.w.tunnel /\ Silent(x.w, All.w)
  BY <1>1, <1>2, OtherWaiter
<1>3. CASE TRUE
  <2>. DEFINE x == [All EXCEPT !.w.auth = FALSE]
              w == [All.w EXCEPT !.auth = FALSE]
              y == [All EXCEPT !.w.keySheet = FALSE]
              v == [All.w EXCEPT !.keySheet = FALSE]
  <2>1. x = [All EXCEPT !.w = w] /\ y = [All EXCEPT !.w = v]
    OBVIOUS
  <2>2. w \in Waiter /\ w.delegate = All.w.delegate /\ Silent(w, All.w)
    BY <1>1, SmallChanges
  <2>3. w.tunnel = All.w.tunnel
    BY <1>1 DEF Waiter
  <2>4. /\ v \in Waiter /\ v.delegate = All.w.delegate /\ v.tunnel = All.w.tunnel
        /\ v.auth = All.w.auth /\ v.keySheet = FALSE
        /\ v.told = All.w.told /\ v.errors = All.w.errors
        /\ v.passphraseSheet = All.w.passphraseSheet
    BY <1>1 DEF Waiter
  <2>. HIDE DEF v, w, x, y
  <2>5. Silent(v, All.w)
    BY <1>1, <2>4 DEF Silent
  <2>6. /\ x \in State /\ x.t = All.t /\ x.w.delegate = All.w.delegate
        /\ x.w.tunnel = All.w.tunnel /\ Silent(x.w, All.w)
    BY <1>2, <2>1, <2>2, <2>3
  <2>7. /\ y \in State /\ y.t = All.t /\ y.w.delegate = All.w.delegate
        /\ y.w.tunnel = All.w.tunnel /\ Silent(y.w, All.w)
    BY <1>2, <2>1, <2>4, <2>5
  <2>. QED BY <2>6, <2>7 DEF x, y
<1>. QED BY <1>3

LEMMA AnswerKeyKeeps == ASSUME IInv, AnswerKey PROVE Kept
<1>. DEFINE x == [All EXCEPT !.w.keySheet = FALSE]
            yes == AcceptKey(x, TRUE)
            no == AcceptKey(x, FALSE)
<1>1. Become(yes) \/ Become(TellFailed(no))
  BY DEF AnswerKey
<1>2. /\ x \in State /\ x.t = All.t /\ x.w.delegate = All.w.delegate
      /\ x.w.tunnel = All.w.tunnel /\ Silent(x.w, All.w)
  BY SheetOver
<1>3. yes = WriteToHelper(x)
  BY DEF AcceptKey
<1>. HIDE DEF x, yes, no
<1>4. Follows(yes, All) /\ Follows(no, All) /\ no \in Works /\ All \in State
  BY <1>2, <1>3, InvWorks, AnsweredFollows DEF no, Follows
<1>5. Follows(TellFailed(no), All)
  BY <1>4, TellFailedFollows, FollowsTwice
<1>6. Rest
  BY RestKept DEF AnswerKey
<1>. QED BY <1>1, <1>4, <1>5, <1>6, BecomeKeeps

LEMMA AuthPasswordEnteredKeeps == ASSUME IInv, AuthPasswordEntered PROVE Kept
<1>. DEFINE x == [All EXCEPT !.w.auth = FALSE]
<1>1. Become(WriteToHelper(x))
  BY DEF AuthPasswordEntered
<1>2. /\ x \in State /\ x.t = All.t /\ x.w.delegate = All.w.delegate
      /\ x.w.tunnel = All.w.tunnel /\ Silent(x.w, All.w)
  BY SheetOver
<1>. HIDE DEF x
<1>3. Follows(WriteToHelper(x), All)
  BY <1>2, InvWorks, AnsweredFollows
<1>4. Rest
  BY RestKept DEF AuthPasswordEntered
<1>. QED BY <1>1, <1>3, <1>4, BecomeKeeps

LEMMA AuthCancelledKeeps == ASSUME IInv, AuthCancelled PROVE Kept
<1>. DEFINE x == [All EXCEPT !.w.auth = FALSE]
            c == CloseIfAny(x)
<1>1. Become(TellFailed(c))
  BY DEF AuthCancelled
<1>2. /\ x \in State /\ x.t = All.t /\ x.w.delegate = All.w.delegate
      /\ x.w.tunnel = All.w.tunnel /\ Silent(x.w, All.w)
  BY SheetOver
<1>. HIDE DEF x
<1>3. Follows(c, All) /\ c \in Works /\ All \in State
  BY <1>2, InvWorks, CloseIfAnyFollows DEF Follows
<1>. HIDE DEF c
<1>4. Follows(TellFailed(c), All)
  BY <1>3, TellFailedFollows, FollowsTwice
<1>5. Rest
  BY RestKept DEF AuthCancelled
<1>. QED BY <1>1, <1>4, <1>5, BecomeKeeps

LEMMA PassphraseSheetOverKeeps == ASSUME IInv, PassphraseSheetOver PROVE Kept
<1>. DEFINE x == [All EXCEPT !.w.passphraseSheet = FALSE]
            w == [All.w EXCEPT !.passphraseSheet = FALSE]
<1>1. /\ All \in Works /\ All \in State /\ All.w = waiter /\ waiter \in Waiter
      /\ waiter.errors \in Nat
  BY InvWorks DEF Waiter
<1>2. Become(TellFailed(x))
  BY DEF PassphraseSheetOver
<1>3. x = [All EXCEPT !.w = w]
  OBVIOUS
<1>4. /\ w \in Waiter /\ w.delegate = All.w.delegate /\ w.tunnel = All.w.tunnel
      /\ w.auth = All.w.auth /\ w.keySheet = All.w.keySheet
      /\ w.told = All.w.told /\ w.errors = All.w.errors /\ w.passphraseSheet = FALSE
  BY <1>1 DEF Waiter
<1>. HIDE DEF w, x
<1>5. Silent(w, All.w)
  BY <1>1, <1>4 DEF Silent
<1>6. Follows(x, All) /\ x \in Works
  BY <1>1, <1>3, <1>4, <1>5, WaiterFollows DEF Follows
<1>7. Follows(TellFailed(x), All)
  BY <1>1, <1>6, TellFailedFollows, FollowsTwice
<1>8. Rest
  BY RestKept DEF PassphraseSheetOver
<1>. QED BY <1>2, <1>7, <1>8, BecomeKeeps

LEMMA ErrorDidEndKeeps == ASSUME IInv, ErrorDidEnd PROVE Kept
<1>. DEFINE w == [All.w EXCEPT !.errors = All.w.errors - 1]
            x == [All EXCEPT !.w = w]
<1>1. /\ All \in Works /\ All \in State /\ All.w = waiter /\ waiter \in Waiter
      /\ waiter.errors \in Nat /\ waiter.errors > 0
  BY InvWorks DEF Waiter, ErrorDidEnd
<1>2. Become(TellFailed(x))
  BY DEF ErrorDidEnd
<1>4. /\ w \in Waiter /\ w.delegate = All.w.delegate /\ w.tunnel = All.w.tunnel
      /\ w.auth = All.w.auth /\ w.keySheet = All.w.keySheet
      /\ w.told = All.w.told /\ w.errors = All.w.errors - 1
      /\ w.passphraseSheet = All.w.passphraseSheet
  BY <1>1 DEF Waiter
<1>. HIDE DEF w
<1>5. Silent(w, All.w)
  BY <1>1, <1>4 DEF Silent
<1>6. Follows(x, All) /\ x \in Works
  BY <1>1, <1>4, <1>5, WaiterFollows DEF Follows
<1>. HIDE DEF x
<1>7. Follows(TellFailed(x), All)
  BY <1>1, <1>6, TellFailedFollows, FollowsTwice
<1>8. Rest
  BY RestKept DEF ErrorDidEnd
<1>. QED BY <1>2, <1>7, <1>8, BecomeKeeps

\* cancel and the end of the waiter close a tunnel that it has.
LEMMA CancelKeeps == ASSUME IInv, Cancel PROVE Kept
<1>. DEFINE a == [All EXCEPT !.w.delegate = FALSE]
            w == [All.w EXCEPT !.delegate = FALSE]
            x == [a EXCEPT !.w.sock = FALSE]
            v == [a.w EXCEPT !.sock = FALSE]
<1>1. /\ All \in Works /\ All \in State /\ All.w = waiter /\ waiter \in Waiter
      /\ waiter.delegate
  BY InvWorks DEF Cancel
<1>2. Become(CloseIfAny(x))
  BY DEF Cancel
<1>3. a = [All EXCEPT !.w = w]
  OBVIOUS
<1>4. x = [a EXCEPT !.w = v]
  OBVIOUS
<1>5. w \in Waiter /\ w.tunnel = All.w.tunnel
  BY <1>1 DEF Waiter
<1>. HIDE DEF a, w, x
<1>6. a \in State /\ a.w = w /\ a.t = All.t
  BY <1>1, <1>3, <1>5, OtherWaiter
<1>7. v \in Waiter /\ v.tunnel = All.w.tunnel
  BY <1>5, <1>6 DEF Waiter
<1>. HIDE DEF v
<1>8. x \in State /\ x.w = v /\ x.t = All.t
  BY <1>4, <1>6, <1>7, OtherWaiter
<1>9. Silent(x.w, All.w)
  BY <1>1 DEF Silent
<1>10. Follows(CloseIfAny(x), All)
  BY <1>1, <1>7, <1>8, <1>9, CloseIfAnyFollows
<1>11. Rest
  BY RestKept DEF Cancel
<1>. QED BY <1>2, <1>10, <1>11, BecomeKeeps

LEMMA DeallocKeeps == ASSUME IInv, Dealloc PROVE Kept
<1>. DEFINE c == Close(All)
            a == [c EXCEPT !.w.tunnel = FALSE]
            w == [c.w EXCEPT !.tunnel = FALSE]
            x == [a EXCEPT !.w.auth = FALSE]
            v == [a.w EXCEPT !.auth = FALSE]
<1>1. /\ All \in Works /\ All \in State /\ All.w = waiter /\ waiter \in Waiter
      /\ waiter.errors \in Nat
  BY InvWorks DEF Waiter
<1>2. Become(x)
  BY DEF Dealloc
<1>3. a = [c EXCEPT !.w = w]
  OBVIOUS
<1>4. x = [a EXCEPT !.w = v]
  OBVIOUS
<1>5. c \in State /\ c.w = All.w /\ c.t.state = "closing"
  BY <1>1, CloseIs
<1>. HIDE DEF c, a, x
<1>6. /\ w \in Waiter /\ w.delegate = All.w.delegate
      /\ w.auth = All.w.auth /\ w.keySheet = All.w.keySheet
      /\ w.told = All.w.told /\ w.errors = All.w.errors
      /\ w.passphraseSheet = All.w.passphraseSheet
  BY <1>1, <1>5 DEF Waiter
<1>. HIDE DEF w
<1>7. a \in State /\ a.w = w /\ a.t.state = "closing"
  BY <1>3, <1>5, <1>6, OtherWaiter
<1>8. v \in Waiter /\ Silent(v, a.w) /\ v.delegate = a.w.delegate
  BY <1>6, <1>7, SmallChanges
<1>. HIDE DEF v
<1>9. x \in State /\ x.w = v /\ x.t.state = "closing"
  BY <1>4, <1>7, <1>8, OtherWaiter
<1>10. Silent(x.w, All.w)
  BY <1>1, <1>6, <1>7, <1>8, <1>9 DEF Silent
<1>11. Follows(x, All)
  BY <1>1, <1>9, <1>10, ClosingWorks, Made
<1>12. Rest
  BY RestKept DEF Dealloc
<1>. QED BY <1>2, <1>11, <1>12, BecomeKeeps

LEMMA SessionClosesKeeps == ASSUME IInv, SessionCloses PROVE Kept
<1>1. Follows(Close(All), All)
  BY InvWorks, CloseFollows
<1>2. Rest
  BY RestKept DEF SessionCloses
<1>. QED BY <1>1, <1>2, BecomeKeeps DEF SessionCloses

\* ssh alone.
LEMMA SshKeeps ==
    ASSUME IInv, SshAsks \/ SshComplains \/ SshConnects \/ SshRefuses \/ SshEnds
    PROVE  Kept
<1>1. /\ ssh \in Ssh /\ ssh.err \in Seq(Lines) /\ waiter \in Waiter
      /\ \A line \in Lines : Append(ssh.err, line) \in Seq(Lines)
  <2>1. ssh \in Ssh /\ ssh.err \in Seq(Lines) /\ waiter \in Waiter
    BY InvWorks DEF Ssh
  <2>. QED BY <2>1, AppendProperties
<1>2. ssh' \in Ssh
  <2>1. CASE SshAsks
    <3>1. PICK line \in {"password", "hostkey", "passphrase"} :
             ssh' = [ssh EXCEPT !.at = "asks", !.prompts = @ + 1,
                                !.err = Append(@, line)]
      BY <2>1 DEF SshAsks
    <3>. DEFINE n == ssh.prompts + 1
                e == Append(ssh.err, line)
    <3>2. n \in 0 .. MaxPrompts
      BY <1>1, <2>1, SshWaiterAssumption DEF SshAsks, Ssh
    <3>3. e \in Seq(Lines)
      BY <1>1 DEF Lines
    <3>4. ssh' = [ssh EXCEPT !.at = "asks", !.prompts = n, !.err = e]
      BY <1>1, <3>1 DEF Ssh
    <3>. HIDE DEF n, e
    <3>. QED BY <1>1, <3>2, <3>3, <3>4 DEF Ssh
  <2>2. CASE SshComplains
    <3>. DEFINE n == ssh.lines + 1
                e == Append(ssh.err, "failure")
    <3>1. n \in 0 .. MaxLines
      BY <1>1, <2>2, SshWaiterAssumption DEF SshComplains, Ssh
    <3>2. e \in Seq(Lines)
      BY <1>1 DEF Lines
    <3>3. ssh' = [ssh EXCEPT !.lines = n, !.err = e]
      BY <1>1, <2>2 DEF SshComplains, Ssh
    <3>. HIDE DEF n, e
    <3>. QED BY <1>1, <3>1, <3>2, <3>3 DEF Ssh
  <2>3. CASE SshConnects
    BY <1>1, <2>3 DEF SshConnects, Ssh
  <2>4. CASE SshRefuses
    <3>. DEFINE e == Append(ssh.err, "channel")
    <3>1. e \in Seq(Lines)
      BY <1>1 DEF Lines
    <3>2. ssh' = [ssh EXCEPT !.refused = TRUE, !.err = e]
      BY <1>1, <2>4 DEF SshRefuses, Ssh
    <3>. HIDE DEF e
    <3>. QED BY <1>1, <3>1, <3>2 DEF Ssh
  <2>5. CASE SshEnds
    BY <1>1, <2>5 DEF SshEnds, Ssh
  <2>. QED BY <2>1, <2>2, <2>3, <2>4, <2>5
<1>3. SshOnly
  BY DEF SshAsks, SshComplains, SshConnects, SshRefuses, SshEnds
<1>. QED
  BY <1>1, <1>2, <1>3, SilentItself
  DEF SshOnly, Kept, IInv, TypeOK, PromptIsAsked, Heeded

LEMMA StutterKeeps == ASSUME IInv, UNCHANGED vars PROVE Kept
<1>1. waiter \in Waiter
  BY InvWorks
<1>. QED BY <1>1, SilentItself DEF vars, Kept, IInv, TypeOK, PromptIsAsked, Heeded

LEMMA NextKeeps == ASSUME IInv, [Next]_vars PROVE Kept
<1>1. CASE ReadErr \/ ReadErrEnd \/ ReadOut \/ SshTerminated
  BY <1>1, ReadErrKeeps, ReadErrEndKeeps, ReadOutKeeps, SshTerminatedKeeps
<1>2. CASE WaitForData \/ MainPerforms \/ ServerClosedNoReason
  BY <1>2, WaitForDataKeeps, MainPerformsKeeps, ServerClosedNoReasonKeeps
<1>3. CASE AnswerKey \/ AuthPasswordEntered \/ AuthCancelled
  BY <1>3, AnswerKeyKeeps, AuthPasswordEnteredKeeps, AuthCancelledKeeps
<1>4. CASE PassphraseSheetOver \/ ErrorDidEnd
  BY <1>4, PassphraseSheetOverKeeps, ErrorDidEndKeeps
<1>5. CASE Cancel \/ Dealloc \/ SessionCloses
  BY <1>5, CancelKeeps, DeallocKeeps, SessionClosesKeeps
<1>6. CASE SshAsks \/ SshComplains \/ SshConnects \/ SshRefuses \/ SshEnds
  BY <1>6, SshKeeps
<1>. QED BY <1>1, <1>2, <1>3, <1>4, <1>5, <1>6, StutterKeeps DEF Next

\* The three beginnings.
LEMMA InitInv == Init => IInv
<1>. SUFFICES ASSUME Init PROVE IInv
  OBVIOUS
<1>0. /\ <<>> \in Seq({"succeeded", "failed"}) /\ <<>> \in Seq(Lines)
      /\ <<>> \in Seq({"finishConnection", "serverClosed"})
  OBVIOUS
<1>1. /\ FreshWaiter \in Waiter /\ FreshWaiter.delegate /\ FreshWaiter.tunnel
      /\ FreshTunnel \in Tunnel /\ FreshTunnel.state = "opening" /\ FreshTunnel.delegate
      /\ FreshSsh \in Ssh
  BY <1>0, SshWaiterAssumption DEF FreshWaiter, FreshTunnel, FreshSsh, Waiter, Tunnel, Ssh
<1>2. protocol \in {"RFB", "RDP"} /\ mainQueue \in Seq({"finishConnection", "serverClosed"})
  BY <1>0 DEF Init
<1>3. CASE waiter = FreshWaiter /\ tunnel = FreshTunnel /\ ssh = FreshSsh /\ thread = "none"
  BY <1>1, <1>2, <1>3 DEF IInv, TypeOK, PromptIsAsked, Heeded
<1>4. CASE /\ waiter = [FreshWaiter EXCEPT !.tunnel = FALSE] /\ tunnel \in {NoPort, NoFifo}
           /\ ssh = [FreshSsh EXCEPT !.at = "none"]
           /\ thread = "none"
  <2>1. waiter \in Waiter
    BY <1>1, <1>4 DEF Waiter
  <2>2. tunnel \in Tunnel /\ tunnel.state = "closing"
    BY <1>4 DEF NoPort, NoFifo, FreshTunnel, Tunnel
  <2>3. ssh \in Ssh
    BY <1>1, <1>4 DEF Ssh
  <2>. QED BY <1>2, <1>4, <2>1, <2>2, <2>3 DEF IInv, TypeOK, PromptIsAsked, Heeded
<1>5. CASE \E r \in TunnelEstablished(
                      [w |-> FreshWaiter,
                       t |-> [FreshTunnel EXCEPT !.state = "open",
                                                 !.delegate = FALSE,
                                                 !.fifo = FALSE],
                       s |-> [FreshSsh EXCEPT !.at = "connected"]]) :
              waiter = r.x.w /\ tunnel = r.x.t /\ ssh = r.x.s /\ thread = r.thread
  <2>. DEFINE t == [FreshTunnel EXCEPT !.state = "open", !.delegate = FALSE, !.fifo = FALSE]
              s == [FreshSsh EXCEPT !.at = "connected"]
              x == [w |-> FreshWaiter, t |-> t, s |-> s]
              w == [x.w EXCEPT !.sock = TRUE]
              y == [x EXCEPT !.w.sock = TRUE]
              ex == Error(x)
              ey == Error(y)
  <2>1. PICK r \in TunnelEstablished(x) :
           waiter = r.x.w /\ tunnel = r.x.t /\ ssh = r.x.s /\ thread = r.thread
    BY <1>5
  <2>2. r.x \in {ex, ey, y} /\ r.thread \in {"none", "waits"}
    BY DEF TunnelEstablished
  <2>3. t \in Tunnel /\ t.state = "open"
    BY DEF FreshTunnel, Tunnel
  <2>4. s \in Ssh
    BY <1>1 DEF Ssh
  <2>5. w = [FreshWaiter EXCEPT !.sock = TRUE]
    OBVIOUS
  <2>6. y = [x EXCEPT !.w = w]
    OBVIOUS
  <2>. HIDE DEF t, s
  <2>7. x \in State /\ x.t = t
    BY <1>1, <2>3, <2>4 DEF State
  <2>. HIDE DEF x, y
  <2>8. w \in Waiter
    BY <1>1, <2>5 DEF Waiter
  <2>. HIDE DEF w
  <2>9. y \in State /\ y.t = t
    BY <2>6, <2>7, <2>8, OtherWaiter
  <2>10. ex \in State /\ ex.t = t /\ ey \in State /\ ey.t = t
    BY <2>7, <2>9, ErrorIs
  <2>. HIDE DEF ex, ey
  <2>11. r.x \in State /\ r.x.t = t
    BY <2>2, <2>9, <2>10
  <2>12. waiter \in Waiter /\ tunnel \in Tunnel /\ ssh \in Ssh /\ tunnel.state = "open"
    BY <2>1, <2>3, <2>11, Parts
  <2>. QED BY <1>2, <2>1, <2>2, <2>12 DEF IInv, TypeOK, PromptIsAsked, Heeded
<1>. QED BY <1>3, <1>4, <1>5 DEF Init

-----------------------------------------------------------------------------
\* Whatever handlers ran, and in whichever order: the fields have their types, a
\* tunnel that heeds ssh belongs to a waiter not cancelled, and prompts are asked.
THEOREM Invariance == Spec => []IInv
<1>1. IInv /\ [Next]_vars => IInv'
  BY NextKeeps DEF Kept
<1>. QED BY InitInv, <1>1, PTL DEF Spec

\* The fields of the waiter, the tunnel and ssh always have their types.
THEOREM TypeCorrect == Spec => []TypeOK
<1>1. IInv => TypeOK
  BY DEF IInv
<1>. QED BY <1>1, Invariance, PTL

\* When the tunnel takes ssh to wait for an answer (processStringFromStderr:),
\* a sheet that gives it is up, whatever ssh has asked and complained of, in
\* however few reads, and whichever sheets the user has answered.
THEOREM PromptAlwaysAsked == Spec => []PromptIsAsked
<1>1. IInv => PromptIsAsked
  BY DEF IInv
<1>. QED BY <1>1, Invariance, PTL

\* After cancel the delegate hears nothing and no sheet comes up, whatever ssh,
\* the thread, the timer and the sheets that are up still do.
THEOREM CancelSilences == Spec => SilentAfterCancel
<1>1. IInv /\ [Next]_vars =>
        [~waiter.delegate =>
            /\ waiter'.told = waiter.told
            /\ waiter'.errors <= waiter.errors
            /\ waiter'.auth => waiter.auth
            /\ waiter'.keySheet => waiter.keySheet
            /\ waiter'.passphraseSheet => waiter.passphraseSheet]_vars
  BY NextKeeps DEF Kept, Silent
<1>. QED BY <1>1, Invariance, PTL DEF Spec, SilentAfterCancel

=============================================================================
