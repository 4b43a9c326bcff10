------------------------------ MODULE InpProofs ------------------------------
(***************************************************************************)
(* The configuration of the toolkit's project, the INP text it is exported *)
(* to and what that text is when it is imported again.                     *)
(*                                                                         *)
(* Any requests over networks of any size, under the steps of the          *)
(* configurators and the importer's.  Four results.                        *)
(*                                                                         *)
(* A pipe's roughness fits the headloss formula, at every step.  The       *)
(* inductive invariant is how far the plan at work has come (TodoFits,     *)
(* Straight, RoughUnderway), and that what is configured behind the        *)
(* hydraulics touches none of its cells (RoughStays, HydraulicsStay).      *)
(*                                                                         *)
(* A child that is solved has its own options.  While a child's calls go   *)
(* on, a cell its plan has come to has the value of the plan's last call   *)
(* for it (ChildUnderway), and the plan of every child comes to all the    *)
(* cells that the plan of any child sets, except initial qualities for a   *)
(* run that has none: what an earlier child has left is overwritten.       *)
(*                                                                         *)
(* The exported text comes back as what was configured.  The network does  *)
(* (SaysNetwork) since an ID that AOWIS makes up is taken by none.  The    *)
(* report does since the rows the toolkit saves, the commands AOWIS puts   *)
(* back and the friction factor it writes itself, given to a new project,  *)
(* make the report that shows the same (Told, Again): one lemma for each   *)
(* of the parts a report has, from what the last command for it says.      *)
(*                                                                         *)
(* What is imported of a file means what the file means to the toolkit.    *)
(* The invariant says what holds of the network behind each section        *)
(* (MeansSoFar); a section changes only its own fields (Changes), and what *)
(* it adds comes from what was read of the text: the last of the speeds,   *)
(* the row that a pipe has for itself, the default pattern.  The options   *)
(* of the report and the toolkit's own report are compared row by row      *)
(* (Matches); the parts that the options do not have are left to the       *)
(* backend's commands.                                                     *)
(*                                                                         *)
(* What a loop makes of a list is a recursive function; of each there is a *)
(* lemma that it is defined everywhere by its first value and its step     *)
(* (SetInduction is the induction over it).                                *)
(***************************************************************************)
EXTENDS InpImport, TLAPS, SequenceTheorems, WellFoundedInduction

(* Induction over the numbers, for a set.                                  *)
LEMMA SetInduction ==
  ASSUME NEW T, 0 \in T, \A n \in Nat : n \in T => n + 1 \in T
  PROVE  \A n \in Nat : n \in T
<1> DEFINE R == OpToRel(<, Nat)
           B == {n \in Nat : n \notin T}
<1>1. IsWellFoundedOn(R, Nat)
  BY NatLessThanWellFounded
<1>2. \A x, y \in Nat : <<x, y>> \in R <=> x < y
  BY DEF OpToRel
<1> HIDE DEF R
<1>3. SUFFICES ASSUME B # {} PROVE FALSE
  OBVIOUS
<1>4. B \subseteq Nat
  OBVIOUS
<1> HIDE DEF B
<1>5. PICK x \in B : \A y \in B : ~ (<<y, x>> \in R)
  BY <1>1, <1>3, <1>4, WFMin
<1>6. x \in Nat /\ x \notin T /\ x # 0
  BY <1>5 DEF B
<1>7. x - 1 \in Nat /\ x - 1 < x
  BY <1>6
<1>8. x - 1 \in T
  BY <1>2, <1>5, <1>6, <1>7 DEF B
<1>9. QED
  BY <1>6, <1>7, <1>8

-----------------------------------------------------------------------------
(* The first items of a list, and what is left of it then. *)

Rest(s, k) == [i \in 1 .. Len(s) - k |-> s[i + k]]

LEMMA ListIs ==
  ASSUME NEW s, IsList(s)
  PROVE  /\ Len(s) \in Nat /\ DOMAIN s = 1 .. Len(s)
         /\ s = [i \in 1 .. Len(s) |-> s[i]]
         /\ \A i \in 1 .. Len(s) : s[i] \in Items(s)
         /\ \A x \in Items(s) : \E i \in 1 .. Len(s) : s[i] = x
         /\ s # <<>> <=> Len(s) > 0
BY EmptySeq DEF IsList, Items

(* Whatever its items are, a sequence is a list.                        *)
LEMMA SequenceIsList ==
  ASSUME NEW T, NEW s \in Seq(T)
  PROVE  IsList(s)
BY DEF Items, IsList

(* A list made of another, item by item.                             *)
LEMMA MadeIsList ==
  ASSUME NEW t, NEW n \in Nat, t = [k \in 1 .. n |-> t[k]]
  PROVE  IsList(t) /\ Len(t) = n
BY DEF Items, IsList

(* The items of a concatenation, by index.                              *)
LEMMA ConcatIs ==
  ASSUME NEW a, NEW b, IsList(a), IsList(b)
  PROVE  /\ IsList(a \o b) /\ Len(a \o b) = Len(a) + Len(b) /\ DOMAIN (a \o b) = 1 .. Len(a) + Len(b)
         /\ \A k \in 1 .. Len(a) : (a \o b)[k] = a[k] /\ k \in DOMAIN (a \o b)
         /\ \A k \in 1 .. Len(b) : (a \o b)[Len(a) + k] = b[k] /\ Len(a) + k \in DOMAIN (a \o b)
         /\ \A k \in DOMAIN (a \o b) : k \in 1 .. Len(a) \/ \E m \in 1 .. Len(b) : k = Len(a) + m
         /\ Items(a \o b) = Items(a) \union Items(b)
<1> DEFINE c == a \o b
           T == Items(a) \union Items(b)
<1>1. Len(a) \in Nat /\ Len(b) \in Nat /\ a \in Seq(T) /\ b \in Seq(T)
  BY DEF IsList
<1>2. /\ c \in Seq(T) /\ Len(c) = Len(a) + Len(b)
      /\ \A k \in 1 .. Len(a) + Len(b) : c[k] = IF k <= Len(a) THEN a[k] ELSE b[k - Len(a)]
  BY <1>1, ConcatProperties
<1> HIDE DEF c
<1>3. IsList(c) /\ DOMAIN c = 1 .. Len(a) + Len(b)
  BY <1>1, <1>2, SequenceIsList
<1>4. \A k \in 1 .. Len(a) : c[k] = a[k] /\ k \in DOMAIN c
  BY <1>1, <1>2, <1>3
<1>5. \A k \in 1 .. Len(b) : c[Len(a) + k] = b[k] /\ Len(a) + k \in DOMAIN c
  BY <1>1, <1>2, <1>3
<1>6. \A k \in DOMAIN c : k \in 1 .. Len(a) \/ \E m \in 1 .. Len(b) : k = Len(a) + m
  <2> SUFFICES ASSUME NEW k \in 1 .. Len(a) + Len(b), k \notin 1 .. Len(a)
               PROVE  \E m \in 1 .. Len(b) : k = Len(a) + m
    BY <1>3
  <2>1. k - Len(a) \in 1 .. Len(b) /\ k = Len(a) + (k - Len(a))
    BY <1>1
  <2>2. QED
    BY <2>1
<1>7. Items(c) = Items(a) \union Items(b)
  BY <1>4, <1>5, <1>6, ListIs DEF Items
<1>8. QED
  BY <1>2, <1>3, <1>4, <1>5, <1>6, <1>7 DEF c

LEMMA ListsAssociate ==
  ASSUME NEW a, NEW b, NEW c, IsList(a), IsList(b), IsList(c)
  PROVE  (a \o b) \o c = a \o (b \o c)
BY ConcatAssociative DEF IsList

(* The items that are kept: the function behind it, which exists and is determined by what  *)
(* it goes through.                                                        *)
IsThose(f, S, s, n) ==
    f = [k \in 0 .. n |-> IF k = 0 THEN <<>> ELSE IF k \in S THEN Append(f[k - 1], s[k]) ELSE f[k - 1]]

LEMMA ThoseExists ==
  ASSUME NEW S, NEW s
  PROVE  \A n \in Nat : \E f : IsThose(f, S, s, n)
<1> DEFINE T == {n \in Nat : \E f : IsThose(f, S, s, n)}
<1>1. 0 \in T
  <2>1. IsThose([k \in 0 .. 0 |-> <<>>], S, s, 0)
    BY DEF IsThose
  <2>2. QED
    BY <2>1
<1>2. \A n \in Nat : n \in T => n + 1 \in T
  <2> SUFFICES ASSUME NEW n \in Nat, NEW f, IsThose(f, S, s, n)
               PROVE  \E g : IsThose(g, S, s, n + 1)
    OBVIOUS
  <2> DEFINE e == n + 1
             last == IF e \in S THEN Append(f[e - 1], s[e]) ELSE f[e - 1]
             g == [k \in 0 .. n + 1 |-> IF k = e THEN last ELSE f[k]]
  <2>1. \A k \in 0 .. n : f[k] = IF k = 0 THEN <<>> ELSE IF k \in S THEN Append(f[k - 1], s[k]) ELSE f[k - 1]
    BY DEF IsThose
  <2>2. \A k \in 0 .. n + 1 : g[k] = IF k = 0 THEN <<>> ELSE IF k \in S THEN Append(g[k - 1], s[k]) ELSE g[k - 1]
    <3> SUFFICES ASSUME NEW k \in 0 .. n + 1
                 PROVE  g[k] = IF k = 0 THEN <<>> ELSE IF k \in S THEN Append(g[k - 1], s[k]) ELSE g[k - 1]
      OBVIOUS
    <3>1. CASE k = e
      BY <3>1
    <3>2. CASE k # e
      BY <2>1, <3>2
    <3>3. QED
      BY <3>1, <3>2
  <2>3. IsThose(g, S, s, n + 1)
    BY <2>2 DEF IsThose
  <2>4. QED
    BY <2>3
<1> HIDE DEF T
<1>3. \A n \in Nat : n \in T
  BY <1>1, <1>2, SetInduction
<1>4. QED
  BY <1>3 DEF T

(* The function that it computes.                                          *)
ThoseRun(S, s) ==
    LET after[k \in 0 .. Len(s)] == IF k = 0 THEN <<>> ELSE IF k \in S THEN Append(after[k - 1], s[k]) ELSE after[k - 1]
    IN  after

LEMMA ThoseIsRun ==
  ASSUME NEW s, NEW S, Len(s) \in Nat
  PROVE  /\ IsThose(ThoseRun(S, s), S, s, Len(s))
         /\ Those(s, S) = ThoseRun(S, s)[Len(s)]
<1> DEFINE n == Len(s)
           f == CHOOSE h : IsThose(h, S, s, n)
<1>1. f = ThoseRun(S, s)
  BY DEF ThoseRun, IsThose
<1>2. IsThose(f, S, s, n)
  BY ThoseExists
<1>3. Those(s, S) = f[n]
  BY DEF Those, IsThose
<1>4. QED
  BY <1>1, <1>2, <1>3

(* Lists that are joined: the function behind it, which exists and is determined by what  *)
(* it goes through.                                                        *)
IsJoined(f, s, n) ==
    f = [k \in 0 .. n |-> IF k = 0 THEN <<>> ELSE f[k - 1] \o s[k]]

LEMMA JoinedExists ==
  ASSUME NEW s
  PROVE  \A n \in Nat : \E f : IsJoined(f, s, n)
<1> DEFINE T == {n \in Nat : \E f : IsJoined(f, s, n)}
<1>1. 0 \in T
  <2>1. IsJoined([k \in 0 .. 0 |-> <<>>], s, 0)
    BY DEF IsJoined
  <2>2. QED
    BY <2>1
<1>2. \A n \in Nat : n \in T => n + 1 \in T
  <2> SUFFICES ASSUME NEW n \in Nat, NEW f, IsJoined(f, s, n)
               PROVE  \E g : IsJoined(g, s, n + 1)
    OBVIOUS
  <2> DEFINE e == n + 1
             last == f[e - 1] \o s[e]
             g == [k \in 0 .. n + 1 |-> IF k = e THEN last ELSE f[k]]
  <2>1. \A k \in 0 .. n : f[k] = IF k = 0 THEN <<>> ELSE f[k - 1] \o s[k]
    BY DEF IsJoined
  <2>2. \A k \in 0 .. n + 1 : g[k] = IF k = 0 THEN <<>> ELSE g[k - 1] \o s[k]
    <3> SUFFICES ASSUME NEW k \in 0 .. n + 1
                 PROVE  g[k] = IF k = 0 THEN <<>> ELSE g[k - 1] \o s[k]
      OBVIOUS
    <3>1. CASE k = e
      <4>1. g[k] = last /\ g[k - 1] = f[e - 1] /\ k # 0
        BY <3>1
      <4>2. QED
        BY <3>1, <4>1
    <3>2. CASE k # e
      <4>1. k \in 0 .. n /\ g[k] = f[k] /\ (k # 0 => g[k - 1] = f[k - 1])
        BY <3>2
      <4>2. QED
        BY <2>1, <4>1
    <3>3. QED
      BY <3>1, <3>2
  <2>3. IsJoined(g, s, n + 1)
    BY <2>2 DEF IsJoined
  <2>4. QED
    BY <2>3
<1> HIDE DEF T
<1>3. \A n \in Nat : n \in T
  BY <1>1, <1>2, SetInduction
<1>4. QED
  BY <1>3 DEF T

(* The function that it computes.                                          *)
JoinedRun(s) ==
    LET after[k \in 0 .. Len(s)] == IF k = 0 THEN <<>> ELSE after[k - 1] \o s[k]
    IN  after

LEMMA JoinedIsRun ==
  ASSUME NEW s, Len(s) \in Nat
  PROVE  /\ IsJoined(JoinedRun(s), s, Len(s))
         /\ Joined(s) = JoinedRun(s)[Len(s)]
BY JoinedExists DEF JoinedRun, IsJoined, Joined

(* The calls of a plan: the function behind it, which exists and is determined by what  *)
(* it goes through.                                                        *)
IsConfigured(f, p, s, n) ==
    f = [k \in 0 .. n |-> IF k = 0 THEN p ELSE Called(f[k - 1], s[k])]

LEMMA ConfiguredExists ==
  ASSUME NEW p, NEW s
  PROVE  \A n \in Nat : \E f : IsConfigured(f, p, s, n)
<1> DEFINE T == {n \in Nat : \E f : IsConfigured(f, p, s, n)}
<1>1. 0 \in T
  <2>1. IsConfigured([k \in 0 .. 0 |-> p], p, s, 0)
    BY DEF IsConfigured
  <2>2. QED
    BY <2>1
<1>2. \A n \in Nat : n \in T => n + 1 \in T
  <2> SUFFICES ASSUME NEW n \in Nat, NEW f, IsConfigured(f, p, s, n)
               PROVE  \E g : IsConfigured(g, p, s, n + 1)
    OBVIOUS
  <2> DEFINE e == n + 1
             last == Called(f[e - 1], s[e])
             g == [k \in 0 .. n + 1 |-> IF k = e THEN last ELSE f[k]]
  <2>1. \A k \in 0 .. n : f[k] = IF k = 0 THEN p ELSE Called(f[k - 1], s[k])
    BY DEF IsConfigured
  <2>2. \A k \in 0 .. n + 1 : g[k] = IF k = 0 THEN p ELSE Called(g[k - 1], s[k])
    <3> SUFFICES ASSUME NEW k \in 0 .. n + 1
                 PROVE  g[k] = IF k = 0 THEN p ELSE Called(g[k - 1], s[k])
      OBVIOUS
    <3>1. CASE k = e
      BY <3>1
    <3>2. CASE k # e
      BY <2>1, <3>2
    <3>3. QED
      BY <3>1, <3>2
  <2>3. IsConfigured(g, p, s, n + 1)
    BY <2>2 DEF IsConfigured
  <2>4. QED
    BY <2>3
<1> HIDE DEF T
<1>3. \A n \in Nat : n \in T
  BY <1>1, <1>2, SetInduction
<1>4. QED
  BY <1>3 DEF T

LEMMA ConfiguredUnique ==
  ASSUME NEW p, NEW s, NEW t, NEW m \in Nat, NEW n \in Nat, NEW j \in 0 .. n, j <= m,
         \A i \in 1 .. j : s[i] = t[i],
         NEW f, IsConfigured(f, p, s, m), NEW g, IsConfigured(g, p, t, n)
  PROVE  f[j] = g[j]
<1> DEFINE T == {k \in Nat : k <= j => f[k] = g[k]}
<1>1. \A k \in 0 .. m : f[k] = IF k = 0 THEN p ELSE Called(f[k - 1], s[k])
  BY DEF IsConfigured
<1>2. \A k \in 0 .. n : g[k] = IF k = 0 THEN p ELSE Called(g[k - 1], t[k])
  BY DEF IsConfigured
<1>3. 0 \in T
  BY <1>1, <1>2
<1>4. \A k \in Nat : k \in T => k + 1 \in T
  BY <1>1, <1>2
<1> HIDE DEF T
<1>5. \A k \in Nat : k \in T
  BY <1>3, <1>4, SetInduction
<1>6. QED
  BY <1>5 DEF T

(* The function that it computes.                                          *)
ConfiguredRun(p, s) ==
    LET after[k \in 0 .. Len(s)] == IF k = 0 THEN p ELSE Called(after[k - 1], s[k])
    IN  after

LEMMA ConfiguredIsRun ==
  ASSUME NEW p, NEW s, Len(s) \in Nat
  PROVE  /\ IsConfigured(ConfiguredRun(p, s), p, s, Len(s))
         /\ Configured(p, s) = ConfiguredRun(p, s)[Len(s)]
<1> DEFINE n == Len(s)
           f == CHOOSE h : IsConfigured(h, p, s, n)
<1>1. f = ConfiguredRun(p, s)
  BY DEF ConfiguredRun, IsConfigured
<1>2. IsConfigured(f, p, s, n)
  BY ConfiguredExists
<1>3. Configured(p, s) = f[n]
  BY DEF Configured, IsConfigured
<1>4. QED
  BY <1>1, <1>2, <1>3

(* The commands of a report: the function behind it, which exists and is determined by what  *)
(* it goes through.                                                        *)
IsReported(f, r, s, n) ==
    f = [k \in 0 .. n |-> IF k = 0 THEN r ELSE SetReport(f[k - 1], s[k])]

LEMMA ReportedExists ==
  ASSUME NEW r, NEW s
  PROVE  \A n \in Nat : \E f : IsReported(f, r, s, n)
<1> DEFINE T == {n \in Nat : \E f : IsReported(f, r, s, n)}
<1>1. 0 \in T
  <2>1. IsReported([k \in 0 .. 0 |-> r], r, s, 0)
    BY DEF IsReported
  <2>2. QED
    BY <2>1
<1>2. \A n \in Nat : n \in T => n + 1 \in T
  <2> SUFFICES ASSUME NEW n \in Nat, NEW f, IsReported(f, r, s, n)
               PROVE  \E g : IsReported(g, r, s, n + 1)
    OBVIOUS
  <2> DEFINE e == n + 1
             last == SetReport(f[e - 1], s[e])
             g == [k \in 0 .. n + 1 |-> IF k = e THEN last ELSE f[k]]
  <2>1. \A k \in 0 .. n : f[k] = IF k = 0 THEN r ELSE SetReport(f[k - 1], s[k])
    BY DEF IsReported
  <2>2. \A k \in 0 .. n + 1 : g[k] = IF k = 0 THEN r ELSE SetReport(g[k - 1], s[k])
    <3> SUFFICES ASSUME NEW k \in 0 .. n + 1
                 PROVE  g[k] = IF k = 0 THEN r ELSE SetReport(g[k - 1], s[k])
      OBVIOUS
    <3>1. CASE k = e
      BY <3>1
    <3>2. CASE k # e
      BY <2>1, <3>2
    <3>3. QED
      BY <3>1, <3>2
  <2>3. IsReported(g, r, s, n + 1)
    BY <2>2 DEF IsReported
  <2>4. QED
    BY <2>3
<1> HIDE DEF T
<1>3. \A n \in Nat : n \in T
  BY <1>1, <1>2, SetInduction
<1>4. QED
  BY <1>3 DEF T

LEMMA ReportedUnique ==
  ASSUME NEW r, NEW s, NEW t, NEW m \in Nat, NEW n \in Nat, NEW j \in 0 .. n, j <= m,
         \A i \in 1 .. j : s[i] = t[i],
         NEW f, IsReported(f, r, s, m), NEW g, IsReported(g, r, t, n)
  PROVE  f[j] = g[j]
<1> DEFINE T == {k \in Nat : k <= j => f[k] = g[k]}
<1>1. \A k \in 0 .. m : f[k] = IF k = 0 THEN r ELSE SetReport(f[k - 1], s[k])
  BY DEF IsReported
<1>2. \A k \in 0 .. n : g[k] = IF k = 0 THEN r ELSE SetReport(g[k - 1], t[k])
  BY DEF IsReported
<1>3. 0 \in T
  BY <1>1, <1>2
<1>4. \A k \in Nat : k \in T => k + 1 \in T
  BY <1>1, <1>2
<1> HIDE DEF T
<1>5. \A k \in Nat : k \in T
  BY <1>3, <1>4, SetInduction
<1>6. QED
  BY <1>5 DEF T

(* The function that it computes.                                          *)
ReportedRun(r, s) ==
    LET after[k \in 0 .. Len(s)] == IF k = 0 THEN r ELSE SetReport(after[k - 1], s[k])
    IN  after

LEMMA ReportedIsRun ==
  ASSUME NEW r, NEW s, Len(s) \in Nat
  PROVE  /\ IsReported(ReportedRun(r, s), r, s, Len(s))
         /\ Reported(r, s) = ReportedRun(r, s)[Len(s)]
<1> DEFINE n == Len(s)
           f == CHOOSE h : IsReported(h, r, s, n)
<1>1. f = ReportedRun(r, s)
  BY DEF ReportedRun, IsReported
<1>2. IsReported(f, r, s, n)
  BY ReportedExists
<1>3. Reported(r, s) = f[n]
  BY DEF Reported, IsReported
<1>4. QED
  BY <1>1, <1>2, <1>3

(* The rows that are preserved: the function behind it, which exists and is determined by what  *)
(* it goes through.                                                        *)
IsPreserveBackendReportCommands(f, rows, s, n) ==
    f = [k \in 0 .. n |-> IF k = 0 THEN rows ELSE Preserve(f[k - 1], s[k])]

LEMMA PreserveBackendReportCommandsExists ==
  ASSUME NEW rows, NEW s
  PROVE  \A n \in Nat : \E f : IsPreserveBackendReportCommands(f, rows, s, n)
<1> DEFINE T == {n \in Nat : \E f : IsPreserveBackendReportCommands(f, rows, s, n)}
<1>1. 0 \in T
  <2>1. IsPreserveBackendReportCommands([k \in 0 .. 0 |-> rows], rows, s, 0)
    BY DEF IsPreserveBackendReportCommands
  <2>2. QED
    BY <2>1
<1>2. \A n \in Nat : n \in T => n + 1 \in T
  <2> SUFFICES ASSUME NEW n \in Nat, NEW f, IsPreserveBackendReportCommands(f, rows, s, n)
               PROVE  \E g : IsPreserveBackendReportCommands(g, rows, s, n + 1)
    OBVIOUS
  <2> DEFINE e == n + 1
             last == Preserve(f[e - 1], s[e])
             g == [k \in 0 .. n + 1 |-> IF k = e THEN last ELSE f[k]]
  <2>1. \A k \in 0 .. n : f[k] = IF k = 0 THEN rows ELSE Preserve(f[k - 1], s[k])
    BY DEF IsPreserveBackendReportCommands
  <2>2. \A k \in 0 .. n + 1 : g[k] = IF k = 0 THEN rows ELSE Preserve(g[k - 1], s[k])
    <3> SUFFICES ASSUME NEW k \in 0 .. n + 1
                 PROVE  g[k] = IF k = 0 THEN rows ELSE Preserve(g[k - 1], s[k])
      OBVIOUS
    <3>1. CASE k = e
      BY <3>1
    <3>2. CASE k # e
      BY <2>1, <3>2
    <3>3. QED
      BY <3>1, <3>2
  <2>3. IsPreserveBackendReportCommands(g, rows, s, n + 1)
    BY <2>2 DEF IsPreserveBackendReportCommands
  <2>4. QED
    BY <2>3
<1> HIDE DEF T
<1>3. \A n \in Nat : n \in T
  BY <1>1, <1>2, SetInduction
<1>4. QED
  BY <1>3 DEF T

(* The function that it computes.                                          *)
PreserveBackendReportCommandsRun(rows, s) ==
    LET after[k \in 0 .. Len(s)] == IF k = 0 THEN rows ELSE Preserve(after[k - 1], s[k])
    IN  after

LEMMA PreserveBackendReportCommandsIsRun ==
  ASSUME NEW rows, NEW s, Len(s) \in Nat
  PROVE  /\ IsPreserveBackendReportCommands(PreserveBackendReportCommandsRun(rows, s), rows, s, Len(s))
         /\ PreserveBackendReportCommands(rows, s) = PreserveBackendReportCommandsRun(rows, s)[Len(s)]
<1> DEFINE n == Len(s)
           f == CHOOSE h : IsPreserveBackendReportCommands(h, rows, s, n)
<1>1. f = PreserveBackendReportCommandsRun(rows, s)
  BY DEF PreserveBackendReportCommandsRun, IsPreserveBackendReportCommands
<1>2. IsPreserveBackendReportCommands(f, rows, s, n)
  BY PreserveBackendReportCommandsExists
<1>3. PreserveBackendReportCommands(rows, s) = f[n]
  BY DEF PreserveBackendReportCommands, IsPreserveBackendReportCommands
<1>4. QED
  BY <1>1, <1>2, <1>3

(* The field of the friction factor: the function behind it, which exists and is determined by what  *)
(* it goes through.                                                        *)
IsEffectiveFrictionReportField(f, field, s, n) ==
    f = [k \in 0 .. n |-> IF k = 0 THEN field ELSE OverrideFriction(f[k - 1], s[k])]

LEMMA EffectiveFrictionReportFieldExists ==
  ASSUME NEW field, NEW s
  PROVE  \A n \in Nat : \E f : IsEffectiveFrictionReportField(f, field, s, n)
<1> DEFINE T == {n \in Nat : \E f : IsEffectiveFrictionReportField(f, field, s, n)}
<1>1. 0 \in T
  <2>1. IsEffectiveFrictionReportField([k \in 0 .. 0 |-> field], field, s, 0)
    BY DEF IsEffectiveFrictionReportField
  <2>2. QED
    BY <2>1
<1>2. \A n \in Nat : n \in T => n + 1 \in T
  <2> SUFFICES ASSUME NEW n \in Nat, NEW f, IsEffectiveFrictionReportField(f, field, s, n)
               PROVE  \E g : IsEffectiveFrictionReportField(g, field, s, n + 1)
    OBVIOUS
  <2> DEFINE e == n + 1
             last == OverrideFriction(f[e - 1], s[e])
             g == [k \in 0 .. n + 1 |-> IF k = e THEN last ELSE f[k]]
  <2>1. \A k \in 0 .. n : f[k] = IF k = 0 THEN field ELSE OverrideFriction(f[k - 1], s[k])
    BY DEF IsEffectiveFrictionReportField
  <2>2. \A k \in 0 .. n + 1 : g[k] = IF k = 0 THEN field ELSE OverrideFriction(g[k - 1], s[k])
    <3> SUFFICES ASSUME NEW k \in 0 .. n + 1
                 PROVE  g[k] = IF k = 0 THEN field ELSE OverrideFriction(g[k - 1], s[k])
      OBVIOUS
    <3>1. CASE k = e
      BY <3>1
    <3>2. CASE k # e
      BY <2>1, <3>2
    <3>3. QED
      BY <3>1, <3>2
  <2>3. IsEffectiveFrictionReportField(g, field, s, n + 1)
    BY <2>2 DEF IsEffectiveFrictionReportField
  <2>4. QED
    BY <2>3
<1> HIDE DEF T
<1>3. \A n \in Nat : n \in T
  BY <1>1, <1>2, SetInduction
<1>4. QED
  BY <1>3 DEF T

(* The function that it computes.                                          *)
EffectiveFrictionReportFieldRun(field, s) ==
    LET after[k \in 0 .. Len(s)] == IF k = 0 THEN field ELSE OverrideFriction(after[k - 1], s[k])
    IN  after

LEMMA EffectiveFrictionReportFieldIsRun ==
  ASSUME NEW options, Len(options.backend) \in Nat
  PROVE  /\ IsEffectiveFrictionReportField(EffectiveFrictionReportFieldRun(options.fields["F-FACTOR"], options.backend), options.fields["F-FACTOR"], options.backend, Len(options.backend))
         /\ EffectiveFrictionReportField(options) = EffectiveFrictionReportFieldRun(options.fields["F-FACTOR"], options.backend)[Len(options.backend)]
<1> DEFINE n == Len(options.backend)
           f == CHOOSE h : IsEffectiveFrictionReportField(h, options.fields["F-FACTOR"], options.backend, n)
<1>1. f = EffectiveFrictionReportFieldRun(options.fields["F-FACTOR"], options.backend)
  BY DEF EffectiveFrictionReportFieldRun, IsEffectiveFrictionReportField
<1>2. IsEffectiveFrictionReportField(f, options.fields["F-FACTOR"], options.backend, n)
  BY EffectiveFrictionReportFieldExists
<1>3. EffectiveFrictionReportField(options) = f[n]
  BY DEF EffectiveFrictionReportField, IsEffectiveFrictionReportField
<1>4. QED
  BY <1>1, <1>2, <1>3

LEMMA EmptyIsList == IsList(<<>>) /\ Items(<<>>) = {} /\ Len(<<>>) = 0
BY EmptySeq DEF Items, IsList

LEMMA AppendIs ==
  ASSUME NEW s, IsList(s), NEW c
  PROVE  /\ IsList(Append(s, c)) /\ Len(Append(s, c)) = Len(s) + 1 /\ Append(s, c)[Len(s) + 1] = c
         /\ \A i \in 1 .. Len(s) : Append(s, c)[i] = s[i]
         /\ Items(Append(s, c)) = Items(s) \union {c}
<1> DEFINE T == Items(s) \union {c}
           a == Append(s, c)
           n == Len(s)
<1>1. s \in Seq(T) /\ c \in T
  BY DEF IsList
<1> HIDE DEF T
<1>2. /\ a \in Seq(T) /\ n \in Nat /\ Len(a) = n + 1 /\ a[n + 1] = c /\ DOMAIN a = 1 .. n + 1
      /\ \A i \in 1 .. n : a[i] = s[i]
  BY <1>1, AppendProperties
<1>3. DOMAIN s = 1 .. n /\ (\A i \in 1 .. n : s[i] \in Items(s)) /\ \A x \in Items(s) : \E i \in 1 .. n : s[i] = x
  BY ListIs
<1> HIDE DEF a, n
<1>4. \A i \in 1 .. n + 1 : i = n + 1 \/ i \in 1 .. n
  BY <1>2
<1>5. \A x \in T : \E i \in 1 .. n + 1 : a[i] = x
  BY <1>2, <1>3 DEF T
<1>6. \A i \in 1 .. n + 1 : a[i] \in T
  BY <1>2, <1>3, <1>4 DEF T
<1>7. Items(a) = T
  BY <1>2, <1>5, <1>6 DEF Items
<1>8. IsList(a)
  BY <1>2, SequenceIsList
<1>9. QED
  BY <1>2, <1>7, <1>8 DEF a, n, T

(* The items that a loop keeps.                                            *)
LEMMA ThoseAre ==
  ASSUME NEW s, IsList(s), NEW S
  PROVE  /\ IsList(Those(s, S))
         /\ Items(Those(s, S)) = {s[k] : k \in S \intersect (1 .. Len(s))}
<1> DEFINE n == Len(s)
           f == ThoseRun(S, s)
           Kept(k) == {s[i] : i \in S \intersect (1 .. k)}
           T == {k \in Nat : k <= n => IsList(f[k]) /\ Items(f[k]) = Kept(k)}
<1>1. n \in Nat
  BY ListIs
<1>2. IsThose(f, S, s, n) /\ Those(s, S) = f[n]
  BY <1>1, ThoseIsRun
<1> HIDE DEF f, n
<1>3. \A k \in 0 .. n : f[k] = IF k = 0 THEN <<>> ELSE IF k \in S THEN Append(f[k - 1], s[k]) ELSE f[k - 1]
  BY <1>2 DEF IsThose
<1>4. 0 \in T
  BY <1>1, <1>3, EmptyIsList
<1>5. \A k \in Nat : k \in T => k + 1 \in T
  <2> SUFFICES ASSUME NEW k \in Nat, k \in T, k + 1 <= n
               PROVE  IsList(f[k + 1]) /\ Items(f[k + 1]) = Kept(k + 1)
    OBVIOUS
  <2>1. k + 1 \in 0 .. n /\ k + 1 # 0 /\ (k + 1) - 1 = k /\ IsList(f[k]) /\ Items(f[k]) = Kept(k)
    BY <1>1
  <2>2. f[k + 1] = IF k + 1 \in S THEN Append(f[k], s[k + 1]) ELSE f[k]
    BY <1>3, <2>1
  <2>3. Kept(k + 1) = IF k + 1 \in S THEN Kept(k) \union {s[k + 1]} ELSE Kept(k)
    OBVIOUS
  <2> HIDE DEF Kept
  <2>4. IsList(Append(f[k], s[k + 1])) /\ Items(Append(f[k], s[k + 1])) = Items(f[k]) \union {s[k + 1]}
    BY <2>1, AppendIs
  <2>5. QED
    BY <2>1, <2>2, <2>3, <2>4
<1> HIDE DEF T
<1>6. n \in T
  BY <1>1, <1>4, <1>5, SetInduction
<1>7. QED
  BY <1>1, <1>2, <1>6 DEF T, n

(* The items of all the lists that a loop joins.                           *)
LEMMA JoinedAre ==
  ASSUME NEW s, IsList(s), \A k \in 1 .. Len(s) : IsList(s[k])
  PROVE  /\ IsList(Joined(s))
         /\ Items(Joined(s)) = UNION {Items(s[k]) : k \in 1 .. Len(s)}
<1> DEFINE n == Len(s)
           f == JoinedRun(s)
           All(k) == UNION {Items(s[i]) : i \in 1 .. k}
           T == {k \in Nat : k <= n => IsList(f[k]) /\ Items(f[k]) = All(k)}
<1>1. n \in Nat
  BY ListIs
<1>2. IsJoined(f, s, n) /\ Joined(s) = f[n]
  BY <1>1, JoinedIsRun
<1> HIDE DEF f
<1>3. \A k \in 0 .. n : f[k] = IF k = 0 THEN <<>> ELSE f[k - 1] \o s[k]
  BY <1>2 DEF IsJoined
<1>4. 0 \in T
  BY <1>1, <1>3, EmptyIsList
<1>5. \A k \in Nat : k \in T => k + 1 \in T
  <2> SUFFICES ASSUME NEW k \in Nat, k \in T, k + 1 <= n
               PROVE  IsList(f[k + 1]) /\ Items(f[k + 1]) = All(k + 1)
    OBVIOUS
  <2>1. k + 1 \in 0 .. n /\ k + 1 \in 1 .. n /\ k + 1 # 0 /\ (k + 1) - 1 = k /\ IsList(f[k]) /\ Items(f[k]) = All(k)
    BY <1>1
  <2>2. f[k + 1] = f[k] \o s[k + 1]
    BY <1>3, <2>1
  <2>3. All(k + 1) = All(k) \union Items(s[k + 1])
    OBVIOUS
  <2>4. IsList(s[k + 1])
    BY <2>1
  <2> HIDE DEF All
  <2>5. IsList(f[k] \o s[k + 1]) /\ Items(f[k] \o s[k + 1]) = Items(f[k]) \union Items(s[k + 1])
    BY <2>1, <2>4, ConcatIs
  <2>6. QED
    BY <2>1, <2>2, <2>3, <2>5
<1> HIDE DEF T
<1>6. n \in T
  BY <1>1, <1>4, <1>5, SetInduction
<1>7. IsList(f[n]) /\ Items(f[n]) = All(n)
  BY <1>1, <1>6 DEF T
<1>8. QED
  BY <1>2, <1>7

LEMMA SingleIs ==
  ASSUME NEW a
  PROVE  IsList(<<a>>) /\ Len(<<a>>) = 1 /\ <<a>>[1] = a /\ Items(<<a>>) = {a}
<1> DEFINE s == <<a>>
<1>1. s \in Seq({a}) /\ Len(s) = 1 /\ s[1] = a /\ DOMAIN s = 1 .. 1
  OBVIOUS
<1> HIDE DEF s
<1>2. \A k \in 1 .. 1 : k = 1
  OBVIOUS
<1>3. Items(s) = {a}
  BY <1>1, <1>2 DEF Items
<1>4. QED
  BY <1>1, <1>3, SequenceIsList DEF s

LEMMA PairIs ==
  ASSUME NEW a, NEW b
  PROVE  IsList(<<a, b>>) /\ Len(<<a, b>>) = 2 /\ Items(<<a, b>>) = {a, b}
<1> DEFINE s == <<a, b>>
<1>1. s \in Seq({a, b}) /\ Len(s) = 2 /\ s[1] = a /\ s[2] = b /\ DOMAIN s = 1 .. 2
  OBVIOUS
<1> HIDE DEF s
<1>2. \A k \in 1 .. 2 : k = 1 \/ k = 2
  OBVIOUS
<1>3. Items(s) = {a, b}
  BY <1>1, <1>2 DEF Items
<1>4. QED
  BY <1>1, <1>3, SequenceIsList DEF s

LEMMA TripleIs ==
  ASSUME NEW a, NEW b, NEW c
  PROVE  IsList(<<a, b, c>>) /\ Len(<<a, b, c>>) = 3 /\ Items(<<a, b, c>>) = {a, b, c}
<1> DEFINE s == <<a, b, c>>
<1>1. s \in Seq({a, b, c}) /\ Len(s) = 3 /\ s[1] = a /\ s[2] = b /\ s[3] = c /\ DOMAIN s = 1 .. 3
  OBVIOUS
<1> HIDE DEF s
<1>2. \A k \in 1 .. 3 : k = 1 \/ k = 2 \/ k = 3
  OBVIOUS
<1>3. Items(s) = {a, b, c}
  BY <1>1, <1>2 DEF Items
<1>4. QED
  BY <1>1, <1>3, SequenceIsList DEF s

(* A list without its first item.                                          *)
LEMMA TailIs ==
  ASSUME NEW s, IsList(s), s # <<>>
  PROVE  /\ IsList(Tail(s)) /\ Len(Tail(s)) = Len(s) - 1 /\ Head(s) = s[1] /\ Head(s) \in Items(s)
         /\ Tail(s) = [i \in 1 .. Len(s) - 1 |-> s[i + 1]]
         /\ Items(Tail(s)) \subseteq Items(s)
<1> DEFINE t == Tail(s)
           n == Len(s)
<1>1. n \in Nat /\ n > 0 /\ (\A i \in 1 .. n : s[i] \in Items(s)) /\ s \in Seq(Items(s))
  BY ListIs DEF IsList
<1>2. Head(s) = s[1] /\ s[1] \in Items(s)
  BY <1>1
<1>3. t \in Seq(Items(s)) /\ Len(t) = n - 1 /\ DOMAIN t = 1 .. n - 1 /\ \A i \in 1 .. n - 1 : t[i] = s[i + 1]
  BY <1>1, HeadTailProperties
<1> HIDE DEF t, n
<1>4. t = [i \in 1 .. n - 1 |-> s[i + 1]]
  BY <1>3
<1>5. \A i \in 1 .. n - 1 : i + 1 \in 1 .. n
  BY <1>1
<1>6. Items(t) \subseteq Items(s)
  BY <1>1, <1>3, <1>5 DEF Items
<1>7. IsList(t)
  BY <1>3, SequenceIsList
<1>8. QED
  BY <1>2, <1>3, <1>4, <1>6, <1>7 DEF t, n

(* What is left of a list.                                                 *)
LEMMA RestIs ==
  ASSUME NEW s, IsList(s), NEW k \in 0 .. Len(s)
  PROVE  /\ IsList(Rest(s, k)) /\ Len(Rest(s, k)) = Len(s) - k /\ Rest(s, 0) = s
         /\ \A i \in 1 .. Len(s) - k : Rest(s, k)[i] = s[i + k]
         /\ Rest(s, k) = <<>> => k = Len(s)
         /\ Rest(s, k) # <<>> => /\ k + 1 \in 1 .. Len(s) /\ Head(Rest(s, k)) = s[k + 1]
                                 /\ Tail(Rest(s, k)) = Rest(s, k + 1)
<1> DEFINE r == Rest(s, k)
           n == Len(s)
<1>1. n \in Nat /\ k \in Nat /\ k <= n /\ s = [i \in 1 .. n |-> s[i]]
  BY ListIs
<1>2. r = [i \in 1 .. n - k |-> s[i + k]]
  BY DEF Rest
<1> HIDE DEF n, r
<1>3. r = [i \in 1 .. n - k |-> r[i]] /\ n - k \in Nat /\ \A i \in 1 .. n - k : r[i] = s[i + k]
  BY <1>1, <1>2
<1>4. IsList(r) /\ Len(r) = n - k
  BY <1>3, MadeIsList
<1>5. Rest(s, 0) = s
  BY <1>1 DEF Rest, n
<1>6. r = <<>> => k = n
  BY <1>1, <1>4, EmptySeq
<1>7. ASSUME r # <<>>
      PROVE  k + 1 \in 1 .. n /\ Head(r) = s[k + 1] /\ Tail(r) = Rest(s, k + 1)
  <2>1. Len(r) > 0 /\ Head(r) = r[1] /\ Tail(r) = [i \in 1 .. Len(r) - 1 |-> r[i + 1]]
    BY <1>4, <1>7, ListIs, TailIs
  <2>2. k + 1 \in 1 .. n /\ 1 \in 1 .. n - k /\ 1 + k = k + 1
    BY <1>1, <1>4, <2>1
  <2>3. Head(r) = s[k + 1]
    BY <1>3, <2>1, <2>2
  <2>4. n - (k + 1) = n - k - 1 /\ \A i \in 1 .. n - (k + 1) : i + 1 \in 1 .. n - k
    BY <1>1
  <2>5. \A i \in 1 .. n - (k + 1) : r[i + 1] = s[i + (k + 1)]
    <3> SUFFICES ASSUME NEW i \in 1 .. n - (k + 1)
                 PROVE  r[i + 1] = s[i + (k + 1)]
      OBVIOUS
    <3>1. (i + 1) + k = i + (k + 1)
      BY <1>1
    <3>2. QED
      BY <1>3, <2>4, <3>1
  <2>6. Len(r) - 1 = n - (k + 1)
    BY <1>1, <1>4
  <2>7. Tail(r) = [i \in 1 .. n - (k + 1) |-> s[i + (k + 1)]]
    BY <2>1, <2>5, <2>6
  <2>8. QED
    BY <2>2, <2>3, <2>7 DEF Rest, n
<1>8. QED
  BY <1>3, <1>4, <1>5, <1>6, <1>7 DEF r, n

-----------------------------------------------------------------------------
(* What a call does to a project. *)

IsProject(p) ==
    p = [cells |-> p.cells, patterns |-> p.patterns, demands |-> p.demands, default |-> p.default,
         report |-> p.report, rules |-> p.rules]

LEMMA CalledProject ==
  ASSUME NEW p, IsProject(p), NEW c
  PROVE  IsProject(Called(p, c))
BY DEF Called, NewProject, IsProject

LEMMA CalledKeeps ==
  ASSUME NEW p, IsProject(p), NEW c, c.cell[1] # "init"
  PROVE  /\ Called(p, c).patterns = p.patterns /\ Called(p, c).default = p.default /\ Called(p, c).rules = p.rules
BY DEF Called, IsProject

LEMMA CalledReport ==
  ASSUME NEW p, IsProject(p), NEW c
  PROVE  Called(p, c).report = IF c.cell[1] = "init" THEN NewReport
                               ELSE IF c.cell[1] = "report" THEN SetReport(p.report, c.value) ELSE p.report
BY DEF Called, NewProject, IsProject

Plain(c) == c.cell[1] \notin {"init", "report", "ROUGHNESS"}

LEMMA CalledCells ==
  ASSUME NEW p, IsProject(p), NEW c
  PROVE  /\ c.cell[1] = "report" => Called(p, c).cells = p.cells
         /\ c.cell[1] = "ROUGHNESS" => Called(p, c).cells = Put(p.cells, c.cell, <<c.value, Headloss(p)>>)
         /\ Plain(c) => Called(p, c).cells = Put(p.cells, c.cell, c.value)
<1>2. CASE c.cell[1] = "report"
  BY <1>2 DEF Called, IsProject, Plain
<1>3. CASE c.cell[1] = "ROUGHNESS"
  BY <1>3 DEF Called, IsProject, Plain
<1>4. CASE Plain(c)
  BY <1>4 DEF Called, Plain, IsProject
<1>5. QED
  BY <1>2, <1>3, <1>4

LEMMA CalledSilent ==
  ASSUME NEW p, IsProject(p), NEW c, c.cell[1] \notin {"init", "report"}
  PROVE  Called(p, c).report = p.report
BY DEF Called, IsProject

LEMMA CalledPlain ==
  ASSUME NEW p, IsProject(p), NEW c, Plain(c)
  PROVE  Called(p, c).cells = Put(p.cells, c.cell, c.value)
BY CalledCells

LEMMA PutDomain ==
  ASSUME NEW cells, NEW cell, NEW value
  PROVE  DOMAIN Put(cells, cell, value) = DOMAIN cells \union {cell}
BY DEF Put

LEMMA PutValue ==
  ASSUME NEW cells, NEW cell, NEW value
  PROVE  Put(cells, cell, value)[cell] = value
BY DEF Put

LEMMA PutElse ==
  ASSUME NEW cells, NEW cell, NEW value, NEW c \in DOMAIN cells, c # cell
  PROVE  Put(cells, cell, value)[c] = cells[c]
BY DEF Put

(* A list made of another, with its items.                                 *)
LEMMA MadeOf ==
  ASSUME NEW s, IsList(s), NEW t, t = [k \in DOMAIN s |-> t[k]]
  PROVE  /\ IsList(t) /\ Len(t) = Len(s) /\ DOMAIN t = 1 .. Len(s)
         /\ Items(t) = {t[k] : k \in 1 .. Len(s)}
<1>1. Len(s) \in Nat /\ DOMAIN s = 1 .. Len(s)
  BY ListIs
<1>2. IsList(t) /\ Len(t) = Len(s) /\ DOMAIN t = 1 .. Len(s)
  BY <1>1, MadeIsList
<1>3. QED
  BY <1>2 DEF Items

CellsOf(plan) == {c.cell : c \in Items(plan)}

LEMMA CellsTogether ==
  ASSUME NEW a, NEW b, IsList(a), IsList(b)
  PROVE  IsList(a \o b) /\ CellsOf(a \o b) = CellsOf(a) \union CellsOf(b)
BY ConcatIs DEF CellsOf

(* The cells that are set to the value of the same name                    *)
LEMMA SetAllIs ==
  ASSUME NEW names, IsList(names)
  PROVE  IsList(SetAll(names)) /\ CellsOf(SetAll(names)) = {<<x, NoRef>> : x \in Items(names)}
<1> DEFINE t == SetAll(names)
<1>1. t = [k \in DOMAIN names |-> Set(names[k], <<names[k]>>)]
  BY DEF SetAll
<1>2. \A k \in DOMAIN names : t[k].cell = <<names[k], NoRef>>
  BY <1>1 DEF Set, Call
<1>3. t = [k \in DOMAIN names |-> t[k]] /\ DOMAIN names = 1 .. Len(names)
  BY <1>1, ListIs
<1> HIDE DEF t
<1>4. IsList(t) /\ Items(t) = {t[k] : k \in 1 .. Len(names)}
  BY <1>3, MadeOf
<1>5. Items(names) = {names[k] : k \in 1 .. Len(names)}
  BY <1>3 DEF Items
<1>6. CellsOf(t) = {<<x, NoRef>> : x \in Items(names)}
  <2>1. \A c \in Items(t) : \E x \in Items(names) : c.cell = <<x, NoRef>>
    BY <1>2, <1>3, <1>4, <1>5
  <2>2. \A x \in Items(names) : \E c \in Items(t) : c.cell = <<x, NoRef>>
    BY <1>2, <1>3, <1>4, <1>5
  <2>3. QED
    BY <2>1, <2>2 DEF CellsOf
<1>7. QED
  BY <1>4, <1>6 DEF t

(* The plan of the initialization gives no report command and no roughness. *)
NoReport(plan) == IsList(plan) /\ \A c \in Items(plan) : c.cell[1] \notin {"report", "ROUGHNESS"}

LEMMA NoReportTogether ==
  ASSUME NEW a, NEW b, NoReport(a), NoReport(b)
  PROVE  NoReport(a \o b)
BY ConcatIs DEF NoReport

LEMMA SetAllNoReport ==
  ASSUME NEW names, IsList(names), \A x \in Items(names) : x \notin {"report", "ROUGHNESS"}
  PROVE  NoReport(SetAll(names))
BY SetAllIs DEF CellsOf, NoReport

LEMMA InitializeIs ==
  ASSUME NEW n
  PROVE  NoReport(InitializePlan(n))
<1>1. NoReport(Callbacks)
  <2>1. \A c \in {Set("reportcallbackuserdata", <<"collector">>), Set("reportcallback", <<"callback">>)} :
           c.cell[1] \notin {"report", "ROUGHNESS"}
    BY DEF Set, Call
  <2>2. QED
    BY <2>1, PairIs DEF Callbacks, NoReport
<1>2. NoReport(<<Set("init", <<"HW">>)>>)
  BY SingleIs DEF Set, Call, NoReport
<1>3. NoReport(<<Set("title", <<"title">>), Set("PRESS_UNITS", <<"METERS">>)>>)
  BY PairIs DEF Set, Call, NoReport
<1>4. NoReport(TimePlan(n))
  <2> DEFINE s == TimeParameters
             t == [k \in DOMAIN s |-> SetTime(n, s[k])]
  <2>1. IsList(s) /\ \A k \in DOMAIN s : s[k] \notin {"report", "ROUGHNESS"}
    <3> DEFINE T == {"DURATION", "HYDSTEP", "QUALSTEP", "PATTERNSTEP", "PATTERNSTART", "REPORTSTEP", "REPORTSTART",
                     "RULESTEP", "STARTTIME"}
    <3>1. s \in Seq(T)
      BY DEF TimeParameters
    <3>2. \A x \in T : x \notin {"report", "ROUGHNESS"}
      OBVIOUS
    <3> HIDE DEF T, s
    <3>3. \A k \in DOMAIN s : s[k] \in T
      BY <3>1
    <3>4. QED
      BY <3>1, <3>2, <3>3, SequenceIsList
  <2>2. DOMAIN t = DOMAIN s /\ \A k \in DOMAIN s : t[k].cell = <<s[k], NoRef>>
    BY DEF SetTime, Call
  <2>3. t = [k \in DOMAIN s |-> t[k]]
    OBVIOUS
  <2> HIDE DEF t, s
  <2>4. IsList(t) /\ Items(t) = {t[k] : k \in 1 .. Len(s)} /\ DOMAIN s = 1 .. Len(s)
    BY <2>1, <2>3, MadeOf, ListIs
  <2>5. NoReport(t)
    BY <2>1, <2>2, <2>4 DEF NoReport
  <2>6. NoReport(<<Set("STATISTIC", <<"report_statistic">>)>>)
    BY SingleIs DEF Set, Call, NoReport
  <2>7. QED
    BY <2>5, <2>6, NoReportTogether DEF TimePlan, t, s
<1>5. NoReport(OptionPlan(n))
  <2> DEFINE a == Set("demandmodel", <<"demand_model">>)
             b == Call(<<"TRIALS", NoRef>>, <<"TRIALS">>, n.unbalanced # "negative")
             c == Set("ACCURACY", <<"ACCURACY">>)
             d == Set("UNBALANCED", IF n.unbalanced = "Stop" THEN <<-1>> ELSE <<n.unbalanced>>)
             s1 == <<a, b, c, d>>
             s2 == SetAll(<<"CHECKFREQ", "MAXCHECK", "DAMPLIMIT", "HEADERROR", "FLOWCHANGE", "DEMANDMULT">>)
             s3 == <<Set("EMITEXPON", EmitterPressureExponent(n))>>
             s4 == SetAll(<<"EMITBACKFLOW", "SP_GRAVITY", "SP_VISCOS", "GLOBALEFFIC", "GLOBALPRICE", "DEMANDCHARGE">>)
  <2>1. NoReport(s1)
    <3>1. \A x \in {a, b, c, d} : x.cell[1] \notin {"report", "ROUGHNESS"}
      BY DEF Set, Call
    <3> HIDE DEF a, b, c, d
    <3>2. s1 \in Seq({a, b, c, d})
      OBVIOUS
    <3> HIDE DEF s1
    <3>3. IsList(s1) /\ \A k \in DOMAIN s1 : s1[k] \in {a, b, c, d}
      BY <3>2, SequenceIsList
    <3>4. QED
      BY <3>1, <3>3 DEF NoReport, Items
  <2>2. NoReport(s2)
    <3> DEFINE s == <<"CHECKFREQ", "MAXCHECK", "DAMPLIMIT", "HEADERROR", "FLOWCHANGE", "DEMANDMULT">>
               T == {"CHECKFREQ", "MAXCHECK", "DAMPLIMIT", "HEADERROR", "FLOWCHANGE", "DEMANDMULT"}
    <3>1. s \in Seq(T)
      OBVIOUS
    <3>2. \A x \in T : x \notin {"report", "ROUGHNESS"}
      OBVIOUS
    <3> HIDE DEF s, T
    <3>3. IsList(s) /\ \A x \in Items(s) : x \in T
      BY <3>1, SequenceIsList DEF Items
    <3>4. NoReport(SetAll(s))
      BY <3>2, <3>3, SetAllNoReport
    <3>5. QED
      BY <3>4 DEF s
  <2>3. NoReport(s3)
    BY SingleIs DEF Set, Call, NoReport
  <2>4. NoReport(s4)
    <3> DEFINE s == <<"EMITBACKFLOW", "SP_GRAVITY", "SP_VISCOS", "GLOBALEFFIC", "GLOBALPRICE", "DEMANDCHARGE">>
               T == {"EMITBACKFLOW", "SP_GRAVITY", "SP_VISCOS", "GLOBALEFFIC", "GLOBALPRICE", "DEMANDCHARGE"}
    <3>1. s \in Seq(T)
      OBVIOUS
    <3>2. \A x \in T : x \notin {"report", "ROUGHNESS"}
      OBVIOUS
    <3> HIDE DEF s, T
    <3>3. IsList(s) /\ \A x \in Items(s) : x \in T
      BY <3>1, SequenceIsList DEF Items
    <3>4. NoReport(SetAll(s))
      BY <3>2, <3>3, SetAllNoReport
    <3>5. QED
      BY <3>4 DEF s
  <2>5. OptionPlan(n) = s1 \o s2 \o s3 \o s4
    BY DEF OptionPlan
  <2> HIDE DEF s1, s2, s3, s4
  <2>6. QED
    BY <2>1, <2>2, <2>3, <2>4, <2>5, NoReportTogether
<1> DEFINE x == Callbacks
           y == <<Set("init", <<"HW">>)>>
           z == <<Set("title", <<"title">>), Set("PRESS_UNITS", <<"METERS">>)>>
<1>6. InitializePlan(n) = x \o y \o x \o z \o TimePlan(n) \o OptionPlan(n)
  BY DEF InitializePlan
<1>7. NoReport(x) /\ NoReport(y) /\ NoReport(z)
  BY <1>1, <1>2, <1>3
<1> HIDE DEF x, y, z
<1>8. QED
  BY <1>4, <1>5, <1>6, <1>7, NoReportTogether

(* The plan of the hydraulics: the formula, then every pipe.               *)
LEMMA HydraulicPlanIs ==
  ASSUME NEW n, IsList(n.pipes)
  PROVE  LET plan == HydraulicPlan(n)
         IN  /\ IsList(plan) /\ Len(plan) = Len(n.pipes) + 1
             /\ plan[1] = Call(Formula, n.formula, TRUE)
             /\ \A k \in 1 .. Len(n.pipes) : plan[k + 1] = Call(<<"ROUGHNESS", n.pipes[k].id>>, n.formula, TRUE)
             /\ \A c \in Items(plan) : c.cell[1] \in {"HEADLOSSFORM", "ROUGHNESS"} /\ c.fine
<1> DEFINE a == <<Set("HEADLOSSFORM", n.formula)>>
           b == SetRoughness(n)
           plan == a \o b
           m == Len(n.pipes)
<1>1. plan = HydraulicPlan(n)
  BY DEF HydraulicPlan
<1>2. IsList(a) /\ Len(a) = 1 /\ a[1] = Call(Formula, n.formula, TRUE)
  BY SingleIs DEF Set, Formula
<1>3. m \in Nat /\ DOMAIN n.pipes = 1 .. m
  BY ListIs
<1>4. b = [k \in 1 .. m |-> Call(<<"ROUGHNESS", n.pipes[k].id>>, n.formula, TRUE)]
  BY <1>3 DEF SetRoughness
<1>5. IsList(b) /\ Len(b) = m
  BY <1>3, <1>4, MadeIsList
<1> HIDE DEF a, b, m
<1>c. /\ IsList(plan) /\ Len(plan) = Len(a) + Len(b)
      /\ \A k \in 1 .. Len(a) : plan[k] = a[k]
      /\ \A k \in 1 .. Len(b) : plan[Len(a) + k] = b[k]
  <2>1. IsList(a) /\ IsList(b)
    BY <1>2, <1>5
  <2>2. QED
    BY <2>1, ConcatIs
<1> HIDE DEF plan
<1>6. IsList(plan) /\ Len(plan) = m + 1
  BY <1>2, <1>3, <1>5, <1>c
<1>7. plan[1] = Call(Formula, n.formula, TRUE)
  <2>0. 1 \in 1 .. Len(a)
    BY <1>2
  <2>1. plan[1] = a[1]
    BY <1>c, <2>0
  <2>2. QED
    BY <1>2, <2>1
<1>8. \A k \in 1 .. m : plan[k + 1] = Call(<<"ROUGHNESS", n.pipes[k].id>>, n.formula, TRUE)
  <2> SUFFICES ASSUME NEW k \in 1 .. m
               PROVE  plan[k + 1] = Call(<<"ROUGHNESS", n.pipes[k].id>>, n.formula, TRUE)
    OBVIOUS
  <2>1. k + 1 = Len(a) + k
    BY <1>2, <1>3
  <2>2. plan[Len(a) + k] = b[k]
    BY <1>5, <1>c
  <2>3. QED
    BY <1>4, <2>1, <2>2
<1>9. \A c \in Items(plan) : c.cell[1] \in {"HEADLOSSFORM", "ROUGHNESS"} /\ c.fine
  <2> SUFFICES ASSUME NEW c \in Items(plan)
               PROVE  c.cell[1] \in {"HEADLOSSFORM", "ROUGHNESS"} /\ c.fine
    OBVIOUS
  <2>1. PICK k \in 1 .. m + 1 : plan[k] = c
    BY <1>6, ListIs
  <2>2. CASE k = 1
    BY <1>7, <2>1, <2>2 DEF Call, Formula
  <2>3. CASE k # 1
    <3>1. k - 1 \in 1 .. m /\ (k - 1) + 1 = k
      BY <1>3, <2>3
    <3>2. c = Call(<<"ROUGHNESS", n.pipes[k - 1].id>>, n.formula, TRUE)
      BY <1>8, <2>1, <3>1
    <3>3. QED
      BY <3>2 DEF Call
  <2>4. QED
    BY <2>2, <2>3
<1>10. QED
  BY <1>1, <1>6, <1>7, <1>8, <1>9 DEF m, plan

(* The cells that the plans of a quality run set.                          *)
SettingNames == {"qualtype", "TOLERANCE", "SP_DIFFUS", "BULKORDER", "WALLORDER", "TANKORDER", "CONCENLIMIT"}
SettingCells == {<<name, NoRef>> : name \in SettingNames}
PlaceCells(n, place) ==
    {<<"INITQUAL", place.id>>} \union CellsOf(SetSource(n, place)) \union CellsOf(SetMixing(place))
AllPlaceCells(n) == UNION {PlaceCells(n, place) : place \in Items(n.places)}
QualityCells(n) == SettingCells \union AllPlaceCells(n) \union CellsOf(ReactionPlan(n))

QualityNames ==
    SettingNames \union {"INITQUAL", "SOURCETYPE", "SOURCEQUAL", "SOURCEPAT", "MIXMODEL", "MIXFRACTION",
                         "KBULK", "KWALL", "TANK_KBULK"}

LEMMA SetInitialIs ==
  ASSUME NEW options, NEW place
  PROVE  /\ IsList(SetInitial(options, place))
         /\ CellsOf(SetInitial(options, place))
               = IF HasInitialNodeQuality(options.analysis) THEN {<<"INITQUAL", place.id>>} ELSE {}
<1> DEFINE c == Call(<<"INITQUAL", place.id>>, <<options.analysis, place.id>>, TRUE)
<1>1. c.cell = <<"INITQUAL", place.id>>
  BY DEF Call
<1> HIDE DEF c
<1>2. CASE HasInitialNodeQuality(options.analysis)
  <2>1. SetInitial(options, place) = <<c>>
    BY <1>2 DEF SetInitial, c
  <2>2. QED
    BY <1>1, <1>2, <2>1, SingleIs DEF CellsOf
<1>3. CASE ~HasInitialNodeQuality(options.analysis)
  BY <1>3, EmptyIsList DEF SetInitial, CellsOf
<1>4. QED
  BY <1>2, <1>3

LEMMA SetSourceIs ==
  ASSUME NEW n, NEW place
  PROVE  /\ IsList(SetSource(n, place))
         /\ \A cell \in CellsOf(SetSource(n, place)) : cell[1] \in QualityNames
<1> DEFINE a == Call(<<"SOURCETYPE", place.id>>, <<place.source>>, TRUE)
           b == Call(<<"SOURCEQUAL", place.id>>,
                     <<IF place.source = "MassBooster" THEN "mass flow" ELSE "concentration">>, TRUE)
           c == Call(<<"SOURCEPAT", place.id>>, <<place.pattern>>, place.pattern \in {NoRef} \union n.patterns)
<1>1. a.cell[1] \in QualityNames /\ b.cell[1] \in QualityNames /\ c.cell[1] \in QualityNames
  BY DEF Call, QualityNames
<1>2. SetSource(n, place) = IF place.source = "None" THEN <<>> ELSE <<a, b, c>>
  BY DEF SetSource
<1> HIDE DEF a, b, c
<1>3. QED
  BY <1>1, <1>2, EmptyIsList, TripleIs DEF CellsOf

LEMMA SetMixingIs ==
  ASSUME NEW place
  PROVE  /\ IsList(SetMixing(place))
         /\ \A cell \in CellsOf(SetMixing(place)) : cell[1] \in QualityNames
<1> DEFINE a == Call(<<"MIXMODEL", place.id>>, <<"mixing_model">>, TRUE)
           b == Call(<<"MIXFRACTION", place.id>>, <<"mixing_fraction">>, TRUE)
<1>1. a.cell[1] \in QualityNames /\ b.cell[1] \in QualityNames
  BY DEF Call, QualityNames
<1>2. SetMixing(place) = IF place.kind # "Tank" THEN <<>> ELSE <<a, b>>
  BY DEF SetMixing
<1> HIDE DEF a, b
<1>3. QED
  BY <1>1, <1>2, EmptyIsList, PairIs DEF CellsOf

LEMMA ReactionPlanIs ==
  ASSUME NEW n, IsList(n.pipes), IsList(n.places)
  PROVE  /\ IsList(ReactionPlan(n))
         /\ \A cell \in CellsOf(ReactionPlan(n)) : cell[1] \in QualityNames
<1> DEFINE a(k) == Call(<<"KBULK", n.pipes[k].id>>, IF n.pipes[k].override THEN <<"own">> ELSE <<"global">>, TRUE)
           b(k) == Call(<<"KWALL", n.pipes[k].id>>, WallCoefficient(n, n.pipes[k]), TRUE)
           lists == [k \in DOMAIN n.pipes |-> <<a(k), b(k)>>]
           tanks == Those(n.places, {k \in DOMAIN n.places : n.places[k].kind = "Tank"})
           t == [k \in DOMAIN tanks |-> Call(<<"TANK_KBULK", tanks[k].id>>, <<"effective">>, TRUE)]
<1>1. ReactionPlan(n) = Joined(lists) \o t
  BY DEF ReactionPlan
<1>2. IsList(Joined(lists)) /\ \A c \in Items(Joined(lists)) : c.cell[1] \in QualityNames
  <2>1. \A k \in DOMAIN n.pipes : a(k).cell[1] \in QualityNames /\ b(k).cell[1] \in QualityNames
    BY DEF Call, QualityNames
  <2>2. \A k \in DOMAIN n.pipes : lists[k] = <<a(k), b(k)>>
    OBVIOUS
  <2>3. lists = [k \in DOMAIN n.pipes |-> lists[k]]
    OBVIOUS
  <2> HIDE DEF a, b, lists
  <2>4. IsList(lists) /\ Len(lists) = Len(n.pipes) /\ DOMAIN n.pipes = 1 .. Len(n.pipes)
    BY <2>3, MadeOf, ListIs
  <2>5. \A k \in 1 .. Len(lists) : IsList(lists[k]) /\ Items(lists[k]) = {a(k), b(k)}
    <3> SUFFICES ASSUME NEW k \in 1 .. Len(lists)
                 PROVE  IsList(lists[k]) /\ Items(lists[k]) = {a(k), b(k)}
      OBVIOUS
    <3>1. lists[k] = <<a(k), b(k)>>
      BY <2>2, <2>4
    <3>2. QED
      BY <3>1, PairIs
  <2>6. IsList(Joined(lists)) /\ Items(Joined(lists)) = UNION {Items(lists[k]) : k \in 1 .. Len(lists)}
    BY <2>4, <2>5, JoinedAre
  <2>7. \A c \in Items(Joined(lists)) : \E k \in DOMAIN n.pipes : c \in {a(k), b(k)}
    BY <2>4, <2>5, <2>6
  <2>8. QED
    BY <2>1, <2>6, <2>7
<1>3. IsList(t) /\ \A c \in Items(t) : c.cell[1] \in QualityNames
  <2>1. IsList(tanks)
    BY ThoseAre
  <2> HIDE DEF tanks
  <2>2. \A k \in DOMAIN tanks : t[k].cell[1] \in QualityNames
    BY DEF Call, QualityNames
  <2>3. t = [k \in DOMAIN tanks |-> t[k]]
    OBVIOUS
  <2> HIDE DEF t
  <2>4. IsList(t) /\ Items(t) = {t[k] : k \in 1 .. Len(tanks)} /\ DOMAIN tanks = 1 .. Len(tanks)
    <3>1. DOMAIN tanks = 1 .. Len(tanks)
      BY <2>1, ListIs
    <3>2. IsList(t) /\ Items(t) = {t[k] : k \in 1 .. Len(tanks)}
      BY <2>1, <2>3, MadeOf
    <3>3. QED
      BY <3>1, <3>2
  <2>5. QED
    BY <2>2, <2>4
<1> HIDE DEF lists, t
<1>4. QED
  BY <1>1, <1>2, <1>3, ConcatIs DEF CellsOf

(* What is set for a place                                                 *)
PlacePlan(n, options, place) == SetInitial(options, place) \o SetSource(n, place) \o SetMixing(place)

LEMMA PlacePlanIs ==
  ASSUME NEW n, NEW options, NEW place
  PROVE  /\ IsList(PlacePlan(n, options, place))
         /\ CellsOf(PlacePlan(n, options, place)) \subseteq PlaceCells(n, place)
         /\ \A cell \in PlaceCells(n, place) :
               cell \in CellsOf(PlacePlan(n, options, place))
               \/ (cell[1] = "INITQUAL" /\ ~HasInitialNodeQuality(options.analysis))
BY SetInitialIs, SetSourceIs, SetMixingIs, CellsTogether DEF PlacePlan, PlaceCells

LEMMA AnalysisPlanIs ==
  ASSUME NEW n, NEW options, IsList(n.places)
  PROVE  LET plan == AnalysisPlan(n, options)
             all == SettingCells \union AllPlaceCells(n)
         IN  /\ IsList(plan) /\ CellsOf(plan) \subseteq all
             /\ \A cell \in all :
                   cell \in CellsOf(plan) \/ (cell[1] = "INITQUAL" /\ ~HasInitialNodeQuality(options.analysis))
<1> DEFINE a == <<Call(<<"qualtype", NoRef>>, <<options.analysis, TraceNode(options)>>,
                       TraceNode(options) \in {NoRef} \union n.nodes),
                  Set("TOLERANCE", QualityTolerance(options)), Set("SP_DIFFUS", <<options.diffusivity>>)>>
           names == <<"BULKORDER", "WALLORDER", "TANKORDER", "CONCENLIMIT">>
           b == SetAll(names)
           lists == [k \in DOMAIN n.places |-> PlacePlan(n, options, n.places[k])]
           c == Joined(lists)
           S == AllPlaceCells(n)
<1>1. AnalysisPlan(n, options) = a \o b \o c
  BY DEF AnalysisPlan, PlacePlan
<1>2. IsList(a) /\ CellsOf(a) = {<<"qualtype", NoRef>>, <<"TOLERANCE", NoRef>>, <<"SP_DIFFUS", NoRef>>}
  BY TripleIs DEF Set, Call, CellsOf
<1>3. IsList(b) /\ CellsOf(b) = {<<name, NoRef>> : name \in {"BULKORDER", "WALLORDER", "TANKORDER", "CONCENLIMIT"}}
  <2> DEFINE T == {"BULKORDER", "WALLORDER", "TANKORDER", "CONCENLIMIT"}
  <2>1. names \in Seq(T) /\ names[1] = "BULKORDER" /\ names[2] = "WALLORDER" /\ names[3] = "TANKORDER"
        /\ names[4] = "CONCENLIMIT" /\ DOMAIN names = 1 .. 4
    OBVIOUS
  <2>2. IsList(names)
    BY <2>1, SequenceIsList
  <2> HIDE DEF names
  <2>3. Items(names) = T
    BY <2>1 DEF Items
  <2>4. QED
    BY <2>2, <2>3, SetAllIs
<1>4. IsList(c) /\ CellsOf(c) \subseteq S
      /\ \A cell \in S : cell \in CellsOf(c) \/ (cell[1] = "INITQUAL" /\ ~HasInitialNodeQuality(options.analysis))
  <2>1. lists = [k \in DOMAIN n.places |-> lists[k]] /\ \A k \in DOMAIN n.places : lists[k] = PlacePlan(n, options, n.places[k])
    OBVIOUS
  <2> HIDE DEF lists
  <2>2. IsList(lists) /\ Len(lists) = Len(n.places) /\ DOMAIN n.places = 1 .. Len(n.places)
    BY <2>1, MadeOf, ListIs
  <2>3. \A k \in 1 .. Len(lists) : IsList(lists[k])
    <3> SUFFICES ASSUME NEW k \in 1 .. Len(lists)
                 PROVE  IsList(lists[k])
      OBVIOUS
    <3>1. lists[k] = PlacePlan(n, options, n.places[k])
      BY <2>1, <2>2
    <3>2. QED
      BY <3>1, PlacePlanIs
  <2>4. IsList(c) /\ Items(c) = UNION {Items(lists[k]) : k \in 1 .. Len(lists)}
    BY <2>2, <2>3, JoinedAre
  <2> HIDE DEF c
  <2>5. CellsOf(c) = UNION {CellsOf(lists[k]) : k \in 1 .. Len(lists)}
    BY <2>4 DEF CellsOf
  <2>6. Items(n.places) = {n.places[k] : k \in 1 .. Len(lists)}
    BY <2>2 DEF Items
  <2>7. S = UNION {PlaceCells(n, n.places[k]) : k \in 1 .. Len(lists)}
    BY <2>6 DEF AllPlaceCells
  <2> HIDE DEF S
  <2>8. \A k \in 1 .. Len(lists) :
           /\ CellsOf(lists[k]) \subseteq PlaceCells(n, n.places[k])
           /\ \A cell \in PlaceCells(n, n.places[k]) :
                 cell \in CellsOf(lists[k]) \/ (cell[1] = "INITQUAL" /\ ~HasInitialNodeQuality(options.analysis))
    BY <2>1, <2>2, PlacePlanIs
  <2>9. QED
    BY <2>4, <2>5, <2>7, <2>8
<1>5. SettingCells = CellsOf(a) \union CellsOf(b)
  BY <1>2, <1>3 DEF SettingCells, SettingNames
<1> HIDE DEF a, b, c, S
<1>6. IsList(a \o b \o c) /\ CellsOf(a \o b \o c) = CellsOf(a) \union CellsOf(b) \union CellsOf(c)
  BY <1>2, <1>3, <1>4, CellsTogether
<1>7. QED
  BY <1>1, <1>4, <1>5, <1>6 DEF S

(* Together they set all the cells of quality but for the initial quality  *)
(* of a run that has none, and they set nothing else.                      *)
FullPlan(n, options) == AnalysisPlan(n, options) \o ReactionPlan(n)

LEMMA FullPlanIs ==
  ASSUME NEW n, NEW options, IsList(n.places), IsList(n.pipes)
  PROVE  /\ IsList(FullPlan(n, options)) /\ CellsOf(FullPlan(n, options)) \subseteq QualityCells(n)
         /\ \A cell \in QualityCells(n) :
               cell \in CellsOf(FullPlan(n, options))
               \/ (cell[1] = "INITQUAL" /\ ~HasInitialNodeQuality(options.analysis))
<1> DEFINE a == AnalysisPlan(n, options)
           b == ReactionPlan(n)
           S == SettingCells \union AllPlaceCells(n)
<1>1. IsList(a) /\ IsList(b) /\ CellsOf(a) \subseteq S
  BY AnalysisPlanIs, ReactionPlanIs
<1>2. \A cell \in S : cell \in CellsOf(a) \/ (cell[1] = "INITQUAL" /\ ~HasInitialNodeQuality(options.analysis))
  BY AnalysisPlanIs
<1>3. QualityCells(n) = S \union CellsOf(b)
  BY DEF QualityCells
<1> HIDE DEF a, b, S
<1>4. IsList(a \o b) /\ CellsOf(a \o b) = CellsOf(a) \union CellsOf(b)
  BY <1>1, CellsTogether
<1>5. QED
  BY <1>1, <1>2, <1>3, <1>4 DEF FullPlan, a, b

LEMMA QualityCellsAre ==
  ASSUME NEW n, IsList(n.places), IsList(n.pipes), NEW cell \in QualityCells(n)
  PROVE  cell[1] \in QualityNames
<1>1. CASE cell \in SettingCells
  BY <1>1 DEF SettingCells, QualityNames
<1>2. CASE cell \in CellsOf(ReactionPlan(n))
  BY <1>2, ReactionPlanIs
<1>3. CASE cell \in AllPlaceCells(n)
  BY <1>3, SetSourceIs, SetMixingIs DEF AllPlaceCells, PlaceCells, QualityNames
<1>4. QED
  BY <1>1, <1>2, <1>3 DEF QualityCells

(* The last of the places of a list.                                       *)
LEMMA LastIs ==
  ASSUME NEW n \in Nat, NEW S \in SUBSET (1 .. n), S # {}
  PROVE  \E j \in S : \A i \in S : i <= j
<1> DEFINE T == {k \in Nat : \A R \in SUBSET (1 .. k) : R # {} => \E j \in R : \A i \in R : i <= j}
<1>1. 0 \in T
  <2>1. 1 .. 0 = {}
    OBVIOUS
  <2>2. QED
    BY <2>1
<1>2. \A k \in Nat : k \in T => k + 1 \in T
  <2> SUFFICES ASSUME NEW k \in Nat, k \in T, NEW R \in SUBSET (1 .. k + 1), R # {}
               PROVE  \E j \in R : \A i \in R : i <= j
    OBVIOUS
  <2>1. CASE k + 1 \in R
    BY <2>1
  <2>2. CASE k + 1 \notin R
    BY <2>2
  <2>3. QED
    BY <2>1, <2>2
<1> HIDE DEF T
<1>3. n \in T
  BY <1>1, <1>2, SetInduction
<1>4. QED
  BY <1>3 DEF T

(* A project along a plan. *)
LEMMA ConfiguredIs ==
  ASSUME NEW p, IsProject(p), NEW s, IsList(s)
  PROVE  LET f == ConfiguredRun(p, s)
         IN  /\ Len(s) \in Nat /\ f[0] = p /\ f[Len(s)] = Configured(p, s)
             /\ \A k \in 0 .. Len(s) : IsProject(f[k])
             /\ \A k \in 0 .. Len(s) - 1 : k + 1 \in 1 .. Len(s) /\ f[k + 1] = Called(f[k], s[k + 1])
<1> DEFINE f == ConfiguredRun(p, s)
           n == Len(s)
           T == {k \in Nat : k <= n => IsProject(f[k])}
<1>1. n \in Nat
  BY ListIs
<1>2. IsConfigured(f, p, s, n) /\ Configured(p, s) = f[n]
  BY <1>1, ConfiguredIsRun
<1> HIDE DEF f, n
<1>3. \A k \in 0 .. n : f[k] = IF k = 0 THEN p ELSE Called(f[k - 1], s[k])
  BY <1>2 DEF IsConfigured
<1>4. f[0] = p
  BY <1>1, <1>3
<1>5. \A k \in 0 .. n - 1 : k + 1 \in 1 .. n /\ f[k + 1] = Called(f[k], s[k + 1])
  BY <1>1, <1>3
<1>6. 0 \in T
  BY <1>4
<1>7. \A k \in Nat : k \in T => k + 1 \in T
  BY <1>1, <1>5, CalledProject
<1> HIDE DEF T
<1>8. \A k \in Nat : k \in T
  BY <1>6, <1>7, SetInduction
<1>9. \A k \in 0 .. n : IsProject(f[k])
  BY <1>1, <1>8 DEF T
<1>10. QED
  BY <1>1, <1>2, <1>4, <1>5, <1>9 DEF f, n

(* What a plan without a report keeps.                                     *)
LEMMA ConfiguredKeeps ==
  ASSUME NEW p, IsProject(p), NEW s, IsList(s), \A c \in Items(s) : c.cell[1] \notin {"init", "report"}
  PROVE  LET q == Configured(p, s)
         IN  IsProject(q) /\ q.report = p.report /\ q.patterns = p.patterns /\ q.default = p.default /\ q.rules = p.rules
<1> DEFINE f == ConfiguredRun(p, s)
           n == Len(s)
           Same(q) == q.report = p.report /\ q.patterns = p.patterns /\ q.default = p.default /\ q.rules = p.rules
           T == {k \in Nat : k <= n => Same(f[k])}
<1>1. /\ n \in Nat /\ f[0] = p /\ f[n] = Configured(p, s)
      /\ \A k \in 0 .. n : IsProject(f[k])
      /\ \A k \in 0 .. n - 1 : k + 1 \in 1 .. n /\ f[k + 1] = Called(f[k], s[k + 1])
  BY ConfiguredIs
<1>2. \A k \in 1 .. n : s[k] \in Items(s)
  BY ListIs
<1> HIDE DEF f, n
<1>3. 0 \in T
  BY <1>1
<1>4. \A k \in Nat : k \in T => k + 1 \in T
  <2> SUFFICES ASSUME NEW k \in Nat, k \in T, k + 1 <= n
               PROVE  Same(f[k + 1])
    OBVIOUS
  <2>1. k \in 0 .. n /\ k \in 0 .. n - 1 /\ Same(f[k])
    BY <1>1
  <2>2. IsProject(f[k]) /\ f[k + 1] = Called(f[k], s[k + 1]) /\ s[k + 1].cell[1] \notin {"init", "report"}
    BY <1>1, <1>2, <2>1
  <2>3. f[k + 1].report = f[k].report /\ f[k + 1].patterns = f[k].patterns
        /\ f[k + 1].default = f[k].default /\ f[k + 1].rules = f[k].rules
    BY <2>2, CalledSilent, CalledKeeps
  <2>4. QED
    BY <2>1, <2>2, <2>3
<1> HIDE DEF T
<1>5. n \in T
  BY <1>1, <1>3, <1>4, SetInduction
<1>6. IsProject(f[n]) /\ Same(f[n])
  BY <1>1, <1>5 DEF T
<1>7. QED
  BY <1>1, <1>6

(* The last call for a cell decides, and what no call is for stays.        *)
LastSet(cells, s, a, k) ==
    \A j \in a + 1 .. k : (\A i \in j + 1 .. k : s[i].cell # s[j].cell) =>
        s[j].cell \in DOMAIN cells /\ cells[s[j].cell] = s[j].value

LEMMA LastSetOneMore ==
  ASSUME NEW cells, NEW s, NEW a \in Nat, NEW k \in Nat, a <= k, LastSet(cells, s, a, k)
  PROVE  LastSet(Put(cells, s[k + 1].cell, s[k + 1].value), s, a, k + 1)
<1> DEFINE d == s[k + 1].cell
           v == s[k + 1].value
           new == Put(cells, d, v)
<1> SUFFICES ASSUME NEW j \in a + 1 .. k + 1, \A i \in j + 1 .. k + 1 : s[i].cell # s[j].cell
             PROVE  s[j].cell \in DOMAIN new /\ new[s[j].cell] = s[j].value
  BY DEF LastSet
<1>0. d = s[k + 1].cell /\ v = s[k + 1].value /\ new = Put(cells, d, v)
  OBVIOUS
<1> HIDE DEF new, d, v
<1>1. DOMAIN new = DOMAIN cells \union {d} /\ new[d] = v /\ \A c \in DOMAIN cells : c # d => new[c] = cells[c]
  <2>1. DOMAIN new = DOMAIN cells \union {d}
    BY <1>0, PutDomain
  <2>2. new[d] = v
    BY <1>0, PutValue
  <2>3. \A c \in DOMAIN cells : c # d => new[c] = cells[c]
    BY <1>0, PutElse
  <2>4. QED
    BY <2>1, <2>2, <2>3
<1>2. CASE j = k + 1
  BY <1>0, <1>1, <1>2
<1>3. CASE j # k + 1
  BY <1>0, <1>1, <1>3 DEF LastSet
<1>4. QED
  BY <1>2, <1>3

LEMMA PlainCalls ==
  ASSUME NEW p, IsProject(p), NEW s, IsList(s), NEW a \in 0 .. Len(s), \A i \in a + 1 .. Len(s) : Plain(s[i])
  PROVE  LET f == ConfiguredRun(p, s)
             q == Configured(p, s)
             written == {s[i].cell : i \in a + 1 .. Len(s)}
         IN  /\ DOMAIN q.cells = DOMAIN f[a].cells \union written
             /\ \A cell \in DOMAIN f[a].cells \ written : q.cells[cell] = f[a].cells[cell]
             /\ LastSet(q.cells, s, a, Len(s))
<1> DEFINE f == ConfiguredRun(p, s)
           n == Len(s)
           W(k) == {s[i].cell : i \in a + 1 .. k}
           R(k) == /\ DOMAIN f[k].cells = DOMAIN f[a].cells \union W(k)
                   /\ \A cell \in DOMAIN f[a].cells \ W(k) : f[k].cells[cell] = f[a].cells[cell]
                   /\ LastSet(f[k].cells, s, a, k)
           T == {d \in Nat : a + d <= n => R(a + d)}
<1>1. /\ n \in Nat /\ f[0] = p /\ f[n] = Configured(p, s)
      /\ \A k \in 0 .. n : IsProject(f[k])
      /\ \A k \in 0 .. n - 1 : k + 1 \in 1 .. n /\ f[k + 1] = Called(f[k], s[k + 1])
  BY ConfiguredIs
<1>2. \A i \in a + 1 .. n : Plain(s[i])
  OBVIOUS
<1>a. a \in Nat /\ a <= n
  BY <1>1
<1> HIDE DEF f, n
<1>3. 0 \in T
  BY <1>a DEF LastSet
<1>4. \A d \in Nat : d \in T => d + 1 \in T
  <2> SUFFICES ASSUME NEW d \in Nat, d \in T, a + (d + 1) <= n
               PROVE  R(a + (d + 1))
    <3> HIDE DEF R
    <3>1. QED
      OBVIOUS
  <2> DEFINE k == a + d
             c == s[k + 1]
             x == f[k].cells
             y == f[k + 1].cells
  <2>1. k \in Nat /\ a <= k /\ k \in 0 .. n /\ k \in 0 .. n - 1 /\ k <= n /\ a + (d + 1) = k + 1 /\ k + 1 \in a + 1 .. n
    BY <1>1, <1>a
  <2>2. R(k)
    BY <2>1
  <2> HIDE DEF k
  <2>3. IsProject(f[k]) /\ f[k + 1] = Called(f[k], c) /\ Plain(c)
    BY <1>1, <1>2, <2>1
  <2>4. y = Put(x, c.cell, c.value)
    BY <2>3, CalledPlain
  <2>5. DOMAIN y = DOMAIN x \union {c.cell} /\ \A cell \in DOMAIN x : cell # c.cell => y[cell] = x[cell]
    <3> HIDE DEF c, x, y
    <3>1. DOMAIN y = DOMAIN x \union {c.cell}
      BY <2>4, PutDomain
    <3>2. \A cell \in DOMAIN x : cell # c.cell => y[cell] = x[cell]
      BY <2>4, PutElse
    <3>3. QED
      BY <3>1, <3>2
  <2>6. W(k + 1) = W(k) \union {c.cell}
    BY <2>1, <1>a
  <2>7. LastSet(y, s, a, k + 1)
    <3>1. LastSet(x, s, a, k)
      BY <2>2
    <3>2. QED
      BY <1>a, <2>1, <2>4, <3>1, LastSetOneMore
  <2>8. DOMAIN x = DOMAIN f[a].cells \union W(k) /\ \A cell \in DOMAIN f[a].cells \ W(k) : x[cell] = f[a].cells[cell]
    BY <2>2
  <2> HIDE DEF W, x, c, y
  <2>9. DOMAIN y = DOMAIN f[a].cells \union W(k + 1)
    BY <2>5, <2>6, <2>8
  <2>10. \A cell \in DOMAIN f[a].cells \ W(k + 1) : y[cell] = f[a].cells[cell]
    BY <2>5, <2>6, <2>8
  <2>11. R(k + 1)
    BY <2>7, <2>9, <2>10 DEF y, W
  <2> HIDE DEF R
  <2>12. QED
    BY <2>1, <2>11
<1> HIDE DEF T
<1>5. n - a \in T
  <2>1. n - a \in Nat
    BY <1>1, <1>a
  <2>2. QED
    BY <1>3, <1>4, <2>1, SetInduction
<1>6. R(n)
  <2>1. a + (n - a) = n
    BY <1>1, <1>a
  <2> HIDE DEF R
  <2>2. QED
    BY <1>1, <1>5, <2>1 DEF T
<1>7. QED
  BY <1>1, <1>6 DEF f, n

LEMMA ShiftLast ==
  ASSUME NEW cells, NEW w, NEW s, NEW a \in Nat, NEW m \in Nat, LastSet(cells, w, a, a + m),
         \A i \in 1 .. m : w[a + i] = s[i]
  PROVE  LastSet(cells, s, 0, m)
<1> SUFFICES ASSUME NEW j \in 1 .. m, \A i \in j + 1 .. m : s[i].cell # s[j].cell
             PROVE  s[j].cell \in DOMAIN cells /\ cells[s[j].cell] = s[j].value
  BY DEF LastSet
<1>1. a + j \in a + 1 .. a + m /\ w[a + j] = s[j]
  OBVIOUS
<1>2. \A i \in (a + j) + 1 .. a + m : w[i].cell # w[a + j].cell
  <2> SUFFICES ASSUME NEW i \in (a + j) + 1 .. a + m
               PROVE  w[i].cell # w[a + j].cell
    OBVIOUS
  <2>1. i - a \in j + 1 .. m /\ i - a \in 1 .. m /\ a + (i - a) = i
    OBVIOUS
  <2>2. w[i] = s[i - a]
    BY <2>1
  <2>3. QED
    BY <1>1, <2>1, <2>2
<1>3. w[a + j].cell \in DOMAIN cells /\ cells[w[a + j].cell] = w[a + j].value
  BY <1>1, <1>2 DEF LastSet
<1>4. QED
  BY <1>1, <1>3

(* Two projects that one plan was the last to set agree on its cells.      *)
LEMMA LastDecides ==
  ASSUME NEW s, IsList(s), NEW x, NEW y, LastSet(x, s, 0, Len(s)), LastSet(y, s, 0, Len(s)), NEW cell \in CellsOf(s)
  PROVE  cell \in DOMAIN x /\ cell \in DOMAIN y /\ x[cell] = y[cell]
<1> DEFINE n == Len(s)
           S == {k \in 1 .. n : s[k].cell = cell}
<1>1. n \in Nat /\ \A c \in Items(s) : \E k \in 1 .. n : s[k] = c
  BY ListIs
<1>2. S # {}
  BY <1>1 DEF CellsOf
<1>3. PICK j \in S : \A i \in S : i <= j
  BY <1>1, <1>2, LastIs
<1>4. j \in 1 .. n /\ s[j].cell = cell /\ \A i \in j + 1 .. n : s[i].cell # s[j].cell
  BY <1>1, <1>3
<1> HIDE DEF S
<1>5. s[j].cell \in DOMAIN x /\ x[s[j].cell] = s[j].value
  BY <1>1, <1>4 DEF LastSet
<1>6. s[j].cell \in DOMAIN y /\ y[s[j].cell] = s[j].value
  BY <1>1, <1>4 DEF LastSet
<1>7. QED
  BY <1>4, <1>5, <1>6

-----------------------------------------------------------------------------
(* The project on its way: initialized, built, with its hydraulics. *)

Fresh(n) == Configured(NewProject, InitializePlan(n))
Constructed(n) == Built(Fresh(n), n)
Hydraulic(n) == Configured(Constructed(n), HydraulicPlan(n))

LEMMA NewProjectIs == IsProject(NewProject) /\ NewProject.report = NewReport
BY DEF IsProject, NewProject

LEMMA BuiltIs ==
  ASSUME NEW p, IsProject(p), NEW n, IsList(n.pipes)
  PROVE  /\ IsProject(Built(p, n)) /\ Built(p, n).report = p.report
         /\ Built(p, n).patterns = n.patterns \union ({InternalConstantDemandPatternId(n)} \ {NoRef})
         /\ Built(p, n).default = n.default /\ Built(p, n).rules = n.rules
<1> DEFINE constant == InternalConstantDemandPatternId(n)
           built(d) == IF d.pattern = Constant THEN [d EXCEPT !.pattern = constant] ELSE d
           roughness == [k \in DOMAIN n.pipes |-> Call(<<"ROUGHNESS", n.pipes[k].id>>, <<"construction_roughness">>, TRUE)]
           q == Configured(p, roughness)
           patterns == n.patterns \union ({constant} \ {NoRef})
           demands == [j \in DOMAIN n.demands |-> [k \in DOMAIN n.demands[j] |-> built(n.demands[j][k])]]
<1>1. IsProject(q) /\ q.report = p.report
  <2>1. roughness = [k \in DOMAIN n.pipes |-> roughness[k]]
        /\ \A k \in DOMAIN n.pipes : roughness[k].cell[1] = "ROUGHNESS"
    BY DEF Call
  <2> HIDE DEF roughness
  <2>2. IsList(roughness) /\ Items(roughness) = {roughness[k] : k \in 1 .. Len(n.pipes)} /\ DOMAIN n.pipes = 1 .. Len(n.pipes)
    BY <2>1, ListIs, MadeOf
  <2>3. \A c \in Items(roughness) : c.cell[1] \notin {"init", "report"}
    BY <2>1, <2>2
  <2>4. QED
    BY <2>2, <2>3, ConfiguredKeeps
<1>2. Built(p, n) = [q EXCEPT !.patterns = patterns, !.default = n.default, !.demands = demands, !.rules = n.rules]
  BY DEF Built
<1> HIDE DEF q, patterns, demands
<1>3. Built(p, n) = [cells |-> q.cells, patterns |-> patterns, demands |-> demands, default |-> n.default,
                     report |-> q.report, rules |-> n.rules]
  BY <1>1, <1>2 DEF IsProject
<1>4. QED
  BY <1>1, <1>3 DEF IsProject, patterns

LEMMA HydraulicIs ==
  ASSUME NEW n, IsList(n.pipes)
  PROVE  IsProject(Fresh(n)) /\ IsProject(Constructed(n)) /\ IsProject(Hydraulic(n))
<1>1. IsProject(NewProject)
  BY NewProjectIs
<1>2. IsList(InitializePlan(n)) /\ IsList(HydraulicPlan(n))
  BY InitializeIs, HydraulicPlanIs DEF NoReport
<1>3. \A p, s : IsProject(p) /\ IsList(s) => IsProject(Configured(p, s))
  BY ConfiguredIs
<1>4. IsProject(Fresh(n))
  BY <1>1, <1>2, <1>3 DEF Fresh
<1>5. IsProject(Constructed(n))
  BY <1>4, BuiltIs DEF Constructed
<1>6. QED
  BY <1>2, <1>3, <1>4, <1>5 DEF Hydraulic

(* A child alone: what its plans set, and the rest of the hydraulics.      *)
LEMMA AloneIs ==
  ASSUME NEW n, IsList(n.pipes), IsList(n.places), NEW options
  PROVE  LET alone == Alone(n, options)
             base == Hydraulic(n).cells
             plan == FullPlan(n, options)
         IN  /\ DOMAIN alone = DOMAIN base \union CellsOf(plan)
             /\ \A cell \in DOMAIN base \ CellsOf(plan) : alone[cell] = base[cell]
             /\ LastSet(alone, plan, 0, Len(plan))
<1> DEFINE p == Constructed(n)
           h == HydraulicPlan(n)
           plan == FullPlan(n, options)
           w == h \o plan
           a == Len(h)
           m == Len(plan)
           f == ConfiguredRun(p, w)
           q == Configured(p, w)
<1>1. IsList(h) /\ IsList(plan) /\ CellsOf(plan) \subseteq QualityCells(n)
  BY HydraulicPlanIs, FullPlanIs
<1>2. Alone(n, options) = q.cells
  <2>1. IsList(AnalysisPlan(n, options)) /\ IsList(ReactionPlan(n))
    BY AnalysisPlanIs, ReactionPlanIs
  <2>2. h \o AnalysisPlan(n, options) \o ReactionPlan(n) = w
    <3> DEFINE x == AnalysisPlan(n, options)
               y == ReactionPlan(n)
    <3>1. w = h \o (x \o y)
      BY DEF FullPlan
    <3>2. IsList(x) /\ IsList(y) /\ IsList(h)
      BY <1>1, <2>1
    <3> HIDE DEF x, y, h, w
    <3>3. (h \o x) \o y = h \o (x \o y)
      BY <3>2, ListsAssociate
    <3>4. QED
      BY <3>1, <3>3 DEF x, y
  <2>3. Alone(n, options) = Configured(p, h \o AnalysisPlan(n, options) \o ReactionPlan(n)).cells
    BY DEF Alone, Constructed, Fresh
  <2>4. QED
    BY <2>2, <2>3
<1>3. IsProject(p)
  BY HydraulicIs
<1>4. a \in Nat /\ m \in Nat
  BY <1>1, ListIs
<1>5. Hydraulic(n) = Configured(p, h)
  BY DEF Hydraulic
<1> HIDE DEF p, h, plan
<1>6. IsList(w) /\ Len(w) = a + m
  BY <1>1, ConcatIs
<1>7. \A i \in 1 .. a : w[i] = h[i]
  BY <1>1, ConcatIs
<1>8. \A i \in 1 .. m : w[a + i] = plan[i]
  BY <1>1, ConcatIs
<1> HIDE DEF w
<1>9. f[a] = Hydraulic(n)
  <2> DEFINE g == ConfiguredRun(p, h)
  <2>1. IsConfigured(f, p, w, Len(w))
    BY <1>4, <1>6, ConfiguredIsRun
  <2>2. IsConfigured(g, p, h, a) /\ Configured(p, h) = g[a]
    BY <1>4, ConfiguredIsRun
  <2>3. Len(w) \in Nat /\ a \in 0 .. a /\ a <= Len(w)
    BY <1>4, <1>6
  <2>4. ASSUME NEW F, NEW G, NEW A \in Nat, NEW M \in Nat, A <= M, NEW u, NEW v,
               IsConfigured(F, p, u, M), IsConfigured(G, p, v, A), \A i \in 1 .. A : u[i] = v[i]
        PROVE  F[A] = G[A]
    BY <2>4, ConfiguredUnique
  <2> HIDE DEF f, g, a
  <2>5. f[a] = g[a]
    BY <1>4, <1>7, <2>1, <2>2, <2>3, <2>4
  <2>6. QED
    BY <1>5, <2>2, <2>5
<1>10. \A i \in a + 1 .. Len(w) : Plain(w[i])
  <2> SUFFICES ASSUME NEW i \in a + 1 .. Len(w)
               PROVE  Plain(w[i])
    OBVIOUS
  <2>1. i - a \in 1 .. m /\ a + (i - a) = i
    BY <1>4, <1>6
  <2>2. w[i] = plan[i - a]
    BY <1>8, <2>1
  <2>3. plan[i - a] \in Items(plan)
    BY <1>1, <2>1, ListIs
  <2>4. w[i].cell \in QualityCells(n)
    BY <1>1, <2>2, <2>3 DEF CellsOf
  <2>5. w[i].cell[1] \in QualityNames
    BY <2>4, QualityCellsAre
  <2>6. QED
    BY <2>5 DEF Plain, QualityNames, SettingNames
<1>11. a \in 0 .. Len(w)
  BY <1>4, <1>6
<1> DEFINE written == {w[i].cell : i \in a + 1 .. Len(w)}
<1>12. /\ DOMAIN q.cells = DOMAIN f[a].cells \union written
       /\ \A cell \in DOMAIN f[a].cells \ written : q.cells[cell] = f[a].cells[cell]
       /\ LastSet(q.cells, w, a, Len(w))
  BY <1>3, <1>6, <1>10, <1>11, PlainCalls
<1>13. written = CellsOf(plan)
  <2>1. \A i \in a + 1 .. Len(w) : w[i].cell \in CellsOf(plan)
    <3> SUFFICES ASSUME NEW i \in a + 1 .. Len(w)
                 PROVE  w[i].cell \in CellsOf(plan)
      OBVIOUS
    <3>1. i - a \in 1 .. m /\ a + (i - a) = i
      BY <1>4, <1>6
    <3>2. w[i] = plan[i - a]
      BY <1>8, <3>1
    <3>3. plan[i - a] \in Items(plan)
      BY <1>1, <3>1, ListIs
    <3>4. QED
      BY <3>2, <3>3 DEF CellsOf
  <2>2. \A cell \in CellsOf(plan) : \E i \in a + 1 .. Len(w) : w[i].cell = cell
    <3> SUFFICES ASSUME NEW cell \in CellsOf(plan)
                 PROVE  \E i \in a + 1 .. Len(w) : w[i].cell = cell
      OBVIOUS
    <3>1. PICK c \in Items(plan) : c.cell = cell
      BY DEF CellsOf
    <3>2. PICK k \in 1 .. m : plan[k] = c
      BY <1>1, ListIs
    <3>3. a + k \in a + 1 .. Len(w) /\ w[a + k] = plan[k]
      BY <1>4, <1>6, <1>8
    <3>4. QED
      BY <3>1, <3>2, <3>3
  <2>3. QED
    BY <2>1, <2>2
<1> HIDE DEF written, f, q
<1>14. LastSet(q.cells, plan, 0, m)
  BY <1>4, <1>6, <1>8, <1>12, ShiftLast
<1>15. QED
  BY <1>2, <1>9, <1>12, <1>13, <1>14 DEF plan

(* The commands of a report are a list. *)
LEMMA GivenIs ==
  ASSUME NEW word, NEW verb, NEW value
  PROVE  /\ IsList(Given(word, verb, value))
         /\ Items(Given(word, verb, value)) = IF value = NoRef THEN {} ELSE {Command(word, verb, value)}
<1>1. CASE value = NoRef
  BY <1>1, EmptyIsList DEF Given
<1>2. CASE value # NoRef
  BY <1>2, SingleIs DEF Given
<1>3. QED
  BY <1>1, <1>2

LEMMA FieldCommandsAre ==
  ASSUME NEW word, NEW field
  PROVE  /\ IsList(FieldCommands(word, field))
         /\ Items(FieldCommands(word, field)) =
               IF ~field.enabled THEN {Command(word, "NO", NoRef)}
               ELSE {Command(word, "YES", NoRef)} \union Items(Given(word, "PRECISION", field.precision))
                    \union Items(Given(word, "BELOW", field.below)) \union Items(Given(word, "ABOVE", field.above))
<1> DEFINE a == <<Command(word, "YES", NoRef)>>
           b == Given(word, "PRECISION", field.precision)
           c == Given(word, "BELOW", field.below)
           d == Given(word, "ABOVE", field.above)
<1>1. CASE ~field.enabled
  BY <1>1, SingleIs DEF FieldCommands
<1>2. CASE field.enabled
  <2>1. FieldCommands(word, field) = a \o b \o c \o d
    BY <1>2 DEF FieldCommands
  <2>2. IsList(a) /\ Items(a) = {Command(word, "YES", NoRef)}
    BY SingleIs
  <2>3. IsList(b) /\ IsList(c) /\ IsList(d)
    BY GivenIs
  <2> HIDE DEF a, b, c, d
  <2>4. IsList(a \o b \o c \o d)
        /\ Items(a \o b \o c \o d) = Items(a) \union Items(b) \union Items(c) \union Items(d)
    BY <2>2, <2>3, ConcatIs
  <2>5. QED
    BY <1>2, <2>1, <2>2, <2>4 DEF b, c, d
<1>3. QED
  BY <1>1, <1>2

LEMMA ReportFieldsAre == IsList(ReportFields) /\ Len(ReportFields) = 14
<1> DEFINE T == {"ELEVATION", "DEMAND", "HEAD", "PRESSURE", "QUALITY", "LENGTH", "DIAMETER", "FLOW", "VELOCITY",
                 "HEADLOSS", "STATE", "SETTING", "REACTION", "F-FACTOR"}
<1>1. ReportFields \in Seq(T) /\ Len(ReportFields) = 14
  BY DEF ReportFields
<1> HIDE DEF T
<1>2. QED
  BY <1>1, SequenceIsList

LEMMA TypedFieldCommandsAre ==
  ASSUME NEW fields
  PROVE  LET lists == [k \in DOMAIN ReportFields |-> FieldCommands(ReportFields[k], fields[ReportFields[k]])]
         IN  /\ IsList(TypedFieldCommands(fields)) /\ TypedFieldCommands(fields) = Joined(lists)
             /\ IsList(lists) /\ Len(lists) = Len(ReportFields) /\ \A k \in 1 .. Len(lists) : IsList(lists[k])
             /\ Items(TypedFieldCommands(fields)) = UNION {Items(lists[k]) : k \in 1 .. Len(lists)}
<1> DEFINE lists == [k \in DOMAIN ReportFields |-> FieldCommands(ReportFields[k], fields[ReportFields[k]])]
<1>1. lists = [k \in DOMAIN ReportFields |-> lists[k]]
      /\ \A k \in DOMAIN ReportFields : lists[k] = FieldCommands(ReportFields[k], fields[ReportFields[k]])
  OBVIOUS
<1>2. TypedFieldCommands(fields) = Joined(lists)
  BY DEF TypedFieldCommands
<1> HIDE DEF lists
<1>3. IsList(lists) /\ Len(lists) = Len(ReportFields)
  BY <1>1, ReportFieldsAre, MadeOf
<1>4. \A k \in 1 .. Len(lists) : IsList(lists[k])
  <2> SUFFICES ASSUME NEW k \in 1 .. Len(lists)
               PROVE  IsList(lists[k])
    OBVIOUS
  <2>1. k \in DOMAIN ReportFields
    BY <1>3, ReportFieldsAre, ListIs
  <2>2. QED
    BY <1>1, <2>1, FieldCommandsAre
<1>5. IsList(Joined(lists)) /\ Items(Joined(lists)) = UNION {Items(lists[k]) : k \in 1 .. Len(lists)}
  BY <1>3, <1>4, JoinedAre
<1>6. QED
  BY <1>2, <1>3, <1>4, <1>5 DEF lists

LEMMA ReportCommandsAre ==
  ASSUME NEW options, IsReport(options)
  PROVE  IsList(ReportCommands(options))
<1> DEFINE a == Command("PAGESIZE", "IS", options.page)
           b == Command("STATUS", options.status, NoRef)
           c == Command("SUMMARY", options.summary, NoRef)
           d == Command("MESSAGES", options.messages, NoRef)
           e == Command("ENERGY", options.energy, NoRef)
           f == SelectionCommand("NODES", options.nodes)
           g == SelectionCommand("LINKS", options.links)
           s == <<a, b, c, d, e, f, g>>
           t == TypedFieldCommands(options.fields)
           u == options.backend
<1>1. ReportCommands(options) = s \o t \o u
  BY DEF ReportCommands
<1> HIDE DEF a, b, c, d, e, f, g
<1>2. s \in Seq({a, b, c, d, e, f, g})
  OBVIOUS
<1>3. IsList(t)
  BY TypedFieldCommandsAre
<1>4. IsList(u)
  BY DEF IsReport, IsList
<1> HIDE DEF s, t, u
<1>5. IsList(s)
  BY <1>2, SequenceIsList
<1>6. QED
  BY <1>1, <1>3, <1>4, <1>5, ConcatIs

LEMMA ReportPlanIs ==
  ASSUME NEW n, IsReport(n.report)
  PROVE  /\ IsList(ReportPlan(n))
         /\ \A c \in Items(ReportPlan(n)) : c.cell[1] = "report" \/ ~c.fine
<1> DEFINE commands == ReportCommands(n.report)
           calls == [k \in DOMAIN commands |-> Call(<<"report", NoRef>>, commands[k], TRUE)]
<1>1. CASE SelectionsResolve(n.report, n.nodes, n.links)
  <2>1. ReportPlan(n) = calls
    BY <1>1 DEF ReportPlan
  <2>2. IsList(commands)
    BY ReportCommandsAre
  <2>3. calls = [k \in DOMAIN commands |-> calls[k]] /\ \A k \in DOMAIN commands : calls[k].cell[1] = "report"
    BY DEF Call
  <2> HIDE DEF calls, commands
  <2>4. IsList(calls) /\ Items(calls) = {calls[k] : k \in 1 .. Len(commands)}
    BY <2>2, <2>3, MadeOf
  <2>5. DOMAIN commands = 1 .. Len(commands)
    BY <2>2, ListIs
  <2>6. QED
    BY <2>1, <2>3, <2>4, <2>5
<1>2. CASE ~SelectionsResolve(n.report, n.nodes, n.links)
  BY <1>2, SingleIs DEF ReportPlan, Call
<1>3. QED
  BY <1>1, <1>2

-----------------------------------------------------------------------------
(* What is always true of a run: its parts, and what it has to do next. *)

Later == {"report", "analysis", "reactions", "children"}
Stages == Later \union {"initialize", "hydraulics", "returned"}

Shape ==
    /\ request \in Requests /\ stage \in Stages /\ child \in 0 .. Len(request.children)
    /\ IsList(failed) /\ IsList(todo) /\ IsProject(project)

TodoFits ==
    /\ stage \in {"children", "returned"} => todo = <<>>
    /\ stage = "initialize" => \A c \in Items(todo) : c.cell[1] \notin {"report", "ROUGHNESS"}
    /\ stage = "hydraulics" => \A c \in Items(todo) : c.cell[1] \in {"HEADLOSSFORM", "ROUGHNESS"}
    /\ stage = "report" => \A c \in Items(todo) : c.cell[1] = "report" \/ ~c.fine
    /\ stage \in {"analysis", "reactions"} => \A c \in Items(todo) : c.cell \in QualityCells(Network)

(* With no failure the project is what the plan makes of it so far.        *)
Underway(p, plan) == \E k \in 0 .. Len(plan) : todo = Rest(plan, k) /\ project = ConfiguredRun(p, plan)[k]

Straight ==
    failed = <<>> =>
        /\ stage = "initialize" => Underway(NewProject, InitializePlan(Network))
        /\ stage = "hydraulics" => Underway(Constructed(Network), HydraulicPlan(Network))

(* The pipes that were gone through have their roughness, or are reported. *)
RoughPipe(pipe) ==
    LET cell == <<"ROUGHNESS", pipe.id>>
    IN  cell \in DOMAIN project.cells /\ project.cells[cell] = <<Network.formula, Network.formula>>

HasFormula == Formula \in DOMAIN project.cells /\ Headloss(project) = Network.formula

RoughUnderway ==
    stage = "hydraulics" =>
        \/ Formula \in Items(failed)
        \/ todo = HydraulicPlan(Network)
        \/ \E k \in 0 .. Len(Network.pipes) :
              /\ todo = Rest(HydraulicPlan(Network), k + 1) /\ HasFormula
              /\ \A i \in 1 .. k : <<"ROUGHNESS", Network.pipes[i].id>> \in Items(failed) \/ RoughPipe(Network.pipes[i])

RoughStays == stage \in Later => HasFormula /\ \A pipe \in Items(Network.pipes) : RoughPipe(pipe)

(* Behind the hydraulics only the cells of quality change.                 *)
HydraulicsStay ==
    stage \in Later =>
        /\ DOMAIN Hydraulic(Network).cells \subseteq DOMAIN project.cells
        /\ DOMAIN project.cells \subseteq DOMAIN Hydraulic(Network).cells \union QualityCells(Network)
        /\ \A cell \in DOMAIN Hydraulic(Network).cells \ QualityCells(Network) :
              project.cells[cell] = Hydraulic(Network).cells[cell]

(* A child that has not failed has set what its plans have come to.        *)
Current == request.children[child]

ChildUnderway ==
    stage \in {"analysis", "reactions"} /\ ~request.inp =>
        /\ child \in 1 .. Len(request.children) /\ Current.analysis # "None"
        /\ failed = <<>> =>
              LET plan == FullPlan(Network, Current)
                  first == AnalysisPlan(Network, Current)
                  second == ReactionPlan(Network)
              IN  /\ stage = "analysis" =>
                        \E k \in 0 .. Len(first) : todo = Rest(first, k) /\ LastSet(project.cells, plan, 0, k)
                  /\ stage = "reactions" =>
                        \E k \in 0 .. Len(second) :
                           todo = Rest(second, k) /\ LastSet(project.cells, plan, 0, Len(first) + k)

IInv == /\ Shape /\ TodoFits /\ Straight /\ RoughUnderway /\ RoughStays
        /\ HydraulicsStay /\ ChildUnderway /\ ChildrenAreIsolated

-----------------------------------------------------------------------------
(* The steps, as far as the invariant can tell them apart. *)

Begins(s, plan) ==
    todo = <<>> /\ stage' = s /\ todo' = plan /\ UNCHANGED <<request, project, failed, child, solved, text>>

Moves ==
    \/ CallSucceeds \/ CallFails \/ Build \/ Retrieve \/ NextChild \/ SolveChild
    \/ Begins("returned", <<>>)
    \/ stage = "hydraulics" /\ failed = <<>> /\ ~request.inp /\ Begins("report", ReportPlan(Network))
    \/ stage = "hydraulics" /\ failed = <<>> /\ request.inp /\ Begins("analysis", AnalysisPlan(Network, InpOptions))
    \/ stage = "reactions" /\ failed = <<>> /\ request.inp /\ Begins("report", ReportPlan(Network))
    \/ stage = "analysis" /\ Begins("reactions", ReactionPlan(Network))
    \/ stage = "reactions" /\ ~request.inp /\ Begins("children", <<>>)

LEMMA StepsAreMoves ==
  ASSUME TodoFits, Next
  PROVE  Moves
<1>1. CASE CallSucceeds \/ CallFails \/ Build \/ Retrieve \/ NextChild \/ SolveChild
  BY <1>1 DEF Moves
<1>2. CASE BuildFails
  BY <1>2 DEF Moves, BuildFails, Ready, GiveUp, Begins
<1>3. CASE Abandon
  BY <1>3 DEF Moves, Abandon, GiveUp, Begins
<1>4. CASE Solve
  <2>1. Begins("report", ReportPlan(Network)) /\ stage = "hydraulics" /\ failed = <<>> /\ ~request.inp
    BY <1>4 DEF Solve, Ready, Begin, Begins
  <2>2. QED
    BY <2>1 DEF Moves
<1>5. CASE ConfigureForInp
  <2>1. stage = "hydraulics" /\ failed = <<>> /\ request.inp
        /\ (Begins("analysis", AnalysisPlan(Network, InpOptions)) \/ Begins("returned", <<>>))
    <3>1. CASE ValidQualityRun(Network, InpOptions)
      BY <1>5, <3>1 DEF ConfigureForInp, Ready, Begin, Begins
    <3>2. CASE ~ValidQualityRun(Network, InpOptions)
      BY <1>5, <3>2 DEF ConfigureForInp, Ready, Begin, Begins
    <3>3. QED
      BY <3>1, <3>2
  <2>2. QED
    BY <2>1 DEF Moves
<1>6. CASE ReportForInp
  <2>1. Begins("report", ReportPlan(Network)) /\ stage = "reactions" /\ failed = <<>> /\ request.inp
    BY <1>6 DEF ReportForInp, Ready, Begin, Begins
  <2>2. QED
    BY <2>1 DEF Moves
<1>7. CASE RetrieveFails
  BY <1>7 DEF Moves, RetrieveFails, Ready, GiveUp, Begins
<1>8. CASE AnalysisEnds
  <2>1. stage = "analysis" /\ Begins("reactions", ReactionPlan(Network))
    BY <1>8 DEF AnalysisEnds, Ready, Begin, Begins
  <2>2. QED
    BY <2>1 DEF Moves
<1>9. CASE ChildFails
  BY <1>9 DEF Moves, ChildFails, Ready, Begins
<1>10. CASE Cancelled
  <2>1. Begins("returned", <<>>)
    BY <1>10 DEF Cancelled, TodoFits, Begins
  <2>2. QED
    BY <2>1 DEF Moves
<1>11. QED
  BY <1>1, <1>2, <1>3, <1>4, <1>5, <1>6, <1>7, <1>8, <1>9, <1>10 DEF Next

LEMMA NetworkIs ==
  ASSUME request \in Requests
  PROVE  /\ IsNetwork(Network) /\ IsList(request.children)
         /\ \A k \in 1 .. Len(request.children) : request.children[k].analysis \in Analyses
         /\ IsList(Network.pipes) /\ IsList(Network.places) /\ IsReport(Network.report)
BY RequestsAssumption, ListIs DEF Network, IsNetwork

LEMMA CallIs ==
  ASSUME Shape, todo # <<>>
  PROVE  /\ Head(todo) \in Items(todo) /\ IsList(Tail(todo)) /\ Items(Tail(todo)) \subseteq Items(todo)
         /\ IsProject(Called(project, Head(todo)))
BY TailIs, CalledProject DEF Shape

(* The plans of a run are lists.                                           *)
LEMMA PlansAre ==
  ASSUME request \in Requests, NEW options
  PROVE  /\ IsList(InitializePlan(Network)) /\ IsList(HydraulicPlan(Network)) /\ IsList(ReportPlan(Network))
         /\ IsList(AnalysisPlan(Network, options)) /\ IsList(ReactionPlan(Network))
<1>1. IsList(Network.pipes) /\ IsList(Network.places) /\ IsReport(Network.report)
  BY NetworkIs
<1>2. IsList(InitializePlan(Network))
  BY InitializeIs DEF NoReport
<1>3. IsList(HydraulicPlan(Network))
  BY <1>1, HydraulicPlanIs
<1>4. IsList(ReportPlan(Network))
  BY <1>1, ReportPlanIs
<1>5. IsList(AnalysisPlan(Network, options))
  BY <1>1, AnalysisPlanIs
<1>6. IsList(ReactionPlan(Network))
  BY <1>1, ReactionPlanIs
<1>7. QED
  BY <1>2, <1>3, <1>4, <1>5, <1>6

LEMMA BeginsShape ==
  ASSUME Shape, NEW s \in Stages, NEW plan, IsList(plan), Begins(s, plan)
  PROVE  Shape'
BY DEF Shape, Begins

LEMMA ShapeStep ==
  ASSUME Shape, Moves
  PROVE  Shape'
<1>0. request \in Requests /\ IsList(<<>>)
  BY EmptyIsList DEF Shape
<1>p. /\ IsList(HydraulicPlan(Network)) /\ IsList(ReportPlan(Network)) /\ IsList(ReactionPlan(Network))
      /\ \A options : IsList(AnalysisPlan(Network, options))
  BY <1>0, PlansAre
<1>1. CASE CallSucceeds
  BY <1>1, CallIs DEF CallSucceeds, Shape
<1>2. CASE CallFails
  <2>1. IsList(todo')
    BY <1>0, <1>2, CallIs DEF CallFails
  <2>2. IsList(failed')
    BY <1>2, AppendIs DEF Shape, CallFails
  <2>3. UNCHANGED <<request, stage, project, child>>
    BY <1>2 DEF CallFails
  <2>4. QED
    BY <2>1, <2>2, <2>3 DEF Shape
<1>3. CASE Build
  <2>1. IsList(Network.pipes) /\ IsProject(project)
    BY <1>0, NetworkIs DEF Shape
  <2>2. IsProject(Built(project, Network))
    BY <2>1, BuiltIs
  <2>3. QED
    BY <1>3, <1>p, <2>2 DEF Build, Begin, Shape, Stages
<1>4. CASE Retrieve
  BY <1>4 DEF Retrieve, Shape, Stages, Later
<1>5. CASE NextChild
  <2> DEFINE options == request.children[child + 1]
  <2>1. child' = child + 1 /\ child' \in 0 .. Len(request.children)
    BY <1>0, <1>5, NetworkIs, ListIs DEF NextChild, Shape
  <2>2. IsList(todo') /\ stage' \in Stages
    <3>1. CASE options.analysis = "None" \/ ~ValidQualityRun(Network, options)
      BY <1>5, <3>1 DEF NextChild, Shape
    <3>2. CASE ~(options.analysis = "None" \/ ~ValidQualityRun(Network, options))
      <4>1. todo' = AnalysisPlan(Network, options) /\ stage' = "analysis"
        BY <1>5, <3>2 DEF NextChild, Begin
      <4>2. QED
        BY <1>p, <4>1 DEF Stages, Later
    <3>3. QED
      BY <3>1, <3>2
  <2>3. failed' = <<>> /\ UNCHANGED <<request, project>>
    BY <1>5 DEF NextChild
  <2>4. QED
    BY <1>0, <2>1, <2>2, <2>3 DEF Shape
<1>6. CASE SolveChild
  BY <1>6 DEF SolveChild, Shape, Stages, Later
<1>7. CASE Begins("returned", <<>>)
  BY <1>0, <1>7, BeginsShape DEF Stages
<1>8. CASE Begins("report", ReportPlan(Network))
  BY <1>p, <1>8, BeginsShape DEF Stages, Later
<1>9. CASE Begins("analysis", AnalysisPlan(Network, InpOptions))
  BY <1>p, <1>9, BeginsShape DEF Stages, Later
<1>10. CASE Begins("reactions", ReactionPlan(Network))
  BY <1>p, <1>10, BeginsShape DEF Stages, Later
<1>11. CASE Begins("children", <<>>)
  BY <1>0, <1>11, BeginsShape DEF Stages, Later
<1>12. QED
  BY <1>1, <1>2, <1>3, <1>4, <1>5, <1>6, <1>7, <1>8, <1>9, <1>10, <1>11 DEF Moves

-----------------------------------------------------------------------------
(* What is still to be called. *)

LEMMA NothingTodoFits ==
  ASSUME todo = <<>>
  PROVE  TodoFits
BY EmptyIsList DEF TodoFits

LEMMA LessTodoFits ==
  ASSUME TodoFits, UNCHANGED <<stage, request>>, Items(todo') \subseteq Items(todo),
         todo = <<>> => todo' = <<>>
  PROVE  TodoFits'
BY DEF Network, TodoFits

LEMMA PlansFit ==
  ASSUME request \in Requests, NEW options
  PROVE  /\ \A c \in Items(HydraulicPlan(Network)) : c.cell[1] \in {"HEADLOSSFORM", "ROUGHNESS"}
         /\ \A c \in Items(ReportPlan(Network)) : c.cell[1] = "report" \/ ~c.fine
         /\ \A c \in Items(AnalysisPlan(Network, options)) : c.cell \in QualityCells(Network)
         /\ \A c \in Items(ReactionPlan(Network)) : c.cell \in QualityCells(Network)
BY NetworkIs, HydraulicPlanIs, ReportPlanIs, AnalysisPlanIs DEF CellsOf, QualityCells

LEMMA TodoFitsStep ==
  ASSUME Shape, TodoFits, Moves
  PROVE  TodoFits'
<1>0. request \in Requests
  BY DEF Shape
<1>p. /\ \A c \in Items(HydraulicPlan(Network)) : c.cell[1] \in {"HEADLOSSFORM", "ROUGHNESS"}
      /\ \A c \in Items(ReportPlan(Network)) : c.cell[1] = "report" \/ ~c.fine
      /\ \A options : \A c \in Items(AnalysisPlan(Network, options)) : c.cell \in QualityCells(Network)
      /\ \A c \in Items(ReactionPlan(Network)) : c.cell \in QualityCells(Network)
  BY <1>0, PlansFit
<1>e. todo' = <<>> => TodoFits'
  BY EmptyIsList DEF TodoFits
<1>1. CASE CallSucceeds \/ CallFails
  BY <1>1, CallIs, <1>e, LessTodoFits DEF CallSucceeds, CallFails
<1>3. CASE Build
  BY <1>3, <1>p DEF Build, Begin, TodoFits
<1>4. CASE Retrieve
  BY <1>4, <1>e DEF Retrieve, Ready
<1>5. CASE NextChild
  <2> DEFINE options == request.children[child + 1]
  <2>1. CASE options.analysis = "None" \/ ~ValidQualityRun(Network, options)
    BY <1>5, <1>e, <2>1 DEF NextChild, TodoFits
  <2>2. CASE ~(options.analysis = "None" \/ ~ValidQualityRun(Network, options))
    <3>1. todo' = AnalysisPlan(Network, options) /\ stage' = "analysis"
      BY <1>5, <2>2 DEF NextChild, Begin
    <3>2. QualityCells(Network)' = QualityCells(Network)
      BY <1>5 DEF NextChild, Network
    <3>3. QED
      BY <1>p, <3>1, <3>2 DEF TodoFits
  <2>3. QED
    BY <2>1, <2>2
<1>6. CASE SolveChild
  BY <1>6, <1>e DEF SolveChild, Ready
<1>7. CASE Begins("returned", <<>>) \/ Begins("children", <<>>)
  BY <1>7, <1>e DEF Begins
<1>8. CASE Begins("report", ReportPlan(Network))
  BY <1>p, <1>8 DEF Begins, TodoFits
<1>9. CASE Begins("analysis", AnalysisPlan(Network, InpOptions))
  BY <1>9, <1>p DEF Begins, Network, TodoFits
<1>10. CASE Begins("reactions", ReactionPlan(Network))
  BY <1>10, <1>p DEF Begins, Network, TodoFits
<1>12. QED
  BY <1>1, <1>3, <1>4, <1>5, <1>6, <1>7, <1>8, <1>9, <1>10 DEF Moves

LEMMA UnderwayCall ==
  ASSUME NEW p, IsProject(p), NEW plan, IsList(plan), Underway(p, plan), todo # <<>>,
         project' = Called(project, Head(todo)), todo' = Tail(todo)
  PROVE  \E k \in 0 .. Len(plan) : todo' = Rest(plan, k) /\ project' = ConfiguredRun(p, plan)[k]
<1>1. PICK k \in 0 .. Len(plan) : todo = Rest(plan, k) /\ project = ConfiguredRun(p, plan)[k]
  BY DEF Underway
<1>2. k + 1 \in 1 .. Len(plan) /\ Head(todo) = plan[k + 1] /\ Tail(todo) = Rest(plan, k + 1)
  BY <1>1, RestIs
<1>3. k \in 0 .. Len(plan) - 1 /\ k + 1 \in 0 .. Len(plan)
  BY <1>2, ListIs
<1>4. ConfiguredRun(p, plan)[k + 1] = Called(ConfiguredRun(p, plan)[k], plan[k + 1])
  BY <1>3, ConfiguredIs
<1>5. todo' = Rest(plan, k + 1) /\ project' = ConfiguredRun(p, plan)[k + 1]
  BY <1>1, <1>2, <1>4
<1>6. QED
  BY <1>3, <1>5

LEMMA UnderwayEnds ==
  ASSUME NEW p, IsProject(p), NEW plan, IsList(plan), Underway(p, plan), todo = <<>>
  PROVE  project = Configured(p, plan)
<1>1. PICK k \in 0 .. Len(plan) : todo = Rest(plan, k) /\ project = ConfiguredRun(p, plan)[k]
  BY DEF Underway
<1>2. k = Len(plan)
  BY <1>1, RestIs
<1>3. ConfiguredRun(p, plan)[Len(plan)] = Configured(p, plan)
  BY ConfiguredIs
<1>4. QED
  BY <1>1, <1>2, <1>3

LEMMA UnderwayBegins ==
  ASSUME NEW p, IsProject(p), NEW plan, IsList(plan)
  PROVE  0 \in 0 .. Len(plan) /\ plan = Rest(plan, 0) /\ p = ConfiguredRun(p, plan)[0]
BY ListIs, RestIs, ConfiguredIs

LEMMA StraightStep ==
  ASSUME Shape, Straight, Moves
  PROVE  Straight'
<1>0. /\ request \in Requests /\ IsProject(NewProject) /\ IsProject(Constructed(Network))
      /\ IsList(InitializePlan(Network)) /\ IsList(HydraulicPlan(Network))
  BY NewProjectIs, NetworkIs, HydraulicIs, PlansAre DEF Shape
<1>n. UNCHANGED request => UNCHANGED <<InitializePlan(Network), HydraulicPlan(Network), Constructed(Network)>>
  BY DEF Network
<1>l. stage' \notin {"initialize", "hydraulics"} => Straight'
  BY DEF Straight
<1>f. failed' # <<>> => Straight'
  BY DEF Straight
<1>1. CASE CallSucceeds
  <2>1. /\ UNCHANGED <<request, stage, failed>> /\ todo # <<>>
        /\ project' = Called(project, Head(todo)) /\ todo' = Tail(todo)
    BY <1>1 DEF CallSucceeds
  <2>2. ASSUME failed = <<>>, stage = "initialize"
        PROVE  Underway(NewProject, InitializePlan(Network))'
    <3>1. Underway(NewProject, InitializePlan(Network))
      BY <2>2 DEF Straight
    <3>2. \E k \in 0 .. Len(InitializePlan(Network)) :
             todo' = Rest(InitializePlan(Network), k) /\ project' = ConfiguredRun(NewProject, InitializePlan(Network))[k]
      BY <1>0, <2>1, <3>1, UnderwayCall
    <3>3. QED
      BY <1>n, <2>1, <3>2 DEF Underway
  <2>3. ASSUME failed = <<>>, stage = "hydraulics"
        PROVE  Underway(Constructed(Network), HydraulicPlan(Network))'
    <3>1. Underway(Constructed(Network), HydraulicPlan(Network))
      BY <2>3 DEF Straight
    <3>2. \E k \in 0 .. Len(HydraulicPlan(Network)) :
             todo' = Rest(HydraulicPlan(Network), k)
             /\ project' = ConfiguredRun(Constructed(Network), HydraulicPlan(Network))[k]
      BY <1>0, <2>1, <3>1, UnderwayCall
    <3>3. QED
      BY <1>n, <2>1, <3>2 DEF Underway
  <2>4. QED
    BY <2>1, <2>2, <2>3 DEF Straight
<1>2. CASE CallFails
  <2>1. failed' = Append(failed, Head(todo).cell) /\ IsList(failed)
    BY <1>2 DEF CallFails, Shape
  <2>2. failed' # <<>>
    BY <2>1, AppendIs, ListIs
  <2>3. QED
    BY <1>f, <2>2
<1>3. CASE Build
  <2>1. /\ stage = "initialize" /\ todo = <<>> /\ failed = <<>> /\ UNCHANGED <<request, failed>>
        /\ project' = Built(project, Network) /\ stage' = "hydraulics" /\ todo' = HydraulicPlan(Network)
    BY <1>3 DEF Build, Ready, Begin
  <2>2. Underway(NewProject, InitializePlan(Network))
    BY <2>1 DEF Straight
  <2>3. project = Fresh(Network)
    BY <1>0, <2>1, <2>2, UnderwayEnds DEF Fresh
  <2>4. project' = Constructed(Network)
    BY <2>1, <2>3 DEF Constructed
  <2>5. /\ 0 \in 0 .. Len(HydraulicPlan(Network)) /\ todo' = Rest(HydraulicPlan(Network), 0)
        /\ project' = ConfiguredRun(Constructed(Network), HydraulicPlan(Network))[0]
    BY <1>0, <2>1, <2>4, UnderwayBegins
  <2>6. Underway(Constructed(Network), HydraulicPlan(Network))'
    BY <1>n, <2>1, <2>5 DEF Underway
  <2>7. QED
    BY <2>1, <2>6 DEF Straight
<1>4. CASE Retrieve \/ NextChild \/ SolveChild
  BY <1>4, <1>l DEF Retrieve, NextChild, SolveChild, Begin
<1>5. CASE ~(CallSucceeds \/ CallFails \/ Build \/ Retrieve \/ NextChild \/ SolveChild)
  BY <1>5, <1>l DEF Moves, Begins
<1>6. QED
  BY <1>1, <1>2, <1>3, <1>4, <1>5

-----------------------------------------------------------------------------
(* The pipes and their formula. *)

(* A roughness or a formula that is set is there.                          *)
LEMMA RoughnessCalled ==
  ASSUME NEW p, IsProject(p), NEW c, c.cell[1] = "ROUGHNESS", c.cell # Formula
  PROVE  /\ c.cell \in DOMAIN Called(p, c).cells
         /\ Called(p, c).cells[c.cell] = <<c.value, Headloss(p)>>
         /\ \A cell \in DOMAIN p.cells : cell # c.cell =>
               cell \in DOMAIN Called(p, c).cells /\ Called(p, c).cells[cell] = p.cells[cell]
<1> DEFINE v == <<c.value, Headloss(p)>>
<1>1. Called(p, c).cells = Put(p.cells, c.cell, v)
  BY CalledCells
<1> HIDE DEF v
<1>d. DOMAIN Called(p, c).cells = DOMAIN p.cells \union {c.cell}
  <2> DEFINE x == p.cells
             y == Called(p, c).cells
             d == c.cell
  <2>1. y = Put(x, d, v)
    BY <1>1
  <2> HIDE DEF x, y, d
  <2>2. DOMAIN y = DOMAIN x \union {d}
    BY <2>1, PutDomain
  <2>3. QED
    BY <2>2 DEF x, y, d
<1>2. c.cell \in DOMAIN Called(p, c).cells
  BY <1>d
<1>3. Called(p, c).cells[c.cell] = v
  BY <1>1, PutValue
<1>4. \A cell \in DOMAIN p.cells : cell # c.cell =>
         cell \in DOMAIN Called(p, c).cells /\ Called(p, c).cells[cell] = p.cells[cell]
  BY <1>1, <1>d, PutElse
<1>5. QED
  BY <1>2, <1>3, <1>4 DEF v

(* What was said of the pipes gone through stays true when one more is.    *)
LEMMA RoughCall ==
  ASSUME Shape, RoughUnderway, stage = "hydraulics", CallSucceeds
  PROVE  RoughUnderway'
<1> DEFINE plan == HydraulicPlan(Network)
           m == Len(Network.pipes)
<1>1. /\ UNCHANGED <<request, stage, failed>> /\ todo # <<>> /\ IsProject(project)
      /\ project' = Called(project, Head(todo)) /\ todo' = Tail(todo) /\ request \in Requests
  BY DEF CallSucceeds, Shape
<1>2. IsList(Network.pipes)
  BY <1>1, NetworkIs
<1>3. /\ IsList(plan) /\ Len(plan) = m + 1 /\ plan[1] = Call(Formula, Network.formula, TRUE)
      /\ \A k \in 1 .. m : plan[k + 1] = Call(<<"ROUGHNESS", Network.pipes[k].id>>, Network.formula, TRUE)
  BY <1>2, HydraulicPlanIs
<1>m. m \in Nat
  BY <1>2, ListIs
<1>4. Network' = Network /\ plan' = plan /\ m' = m
  BY <1>1 DEF Network
<1> HIDE DEF plan
<1>5. CASE Formula \in Items(failed)
  BY <1>1, <1>5 DEF RoughUnderway
<1>6. CASE todo = plan
  <2>1. 0 \in 0 .. Len(plan) /\ todo = Rest(plan, 0)
    BY <1>3, <1>6, <1>m, RestIs
  <2>2. Head(todo) = plan[1] /\ Tail(todo) = Rest(plan, 1)
    <3>1. 0 + 1 = 1
      OBVIOUS
    <3>2. Head(todo) = plan[0 + 1] /\ Tail(todo) = Rest(plan, 0 + 1)
      BY <1>1, <1>3, <2>1, RestIs
    <3>3. QED
      BY <3>1, <3>2
  <2>3. project'.cells = Put(project.cells, Formula, Network.formula)
    <3>1. Head(todo).cell = Formula /\ Head(todo).value = Network.formula /\ Plain(Head(todo))
      BY <1>3, <2>2 DEF Call, Formula, Plain
    <3>2. QED
      BY <1>1, <3>1, CalledPlain
  <2>4. HasFormula'
    <3>d. DOMAIN project'.cells = DOMAIN project.cells \union {Formula}
      BY <2>3, PutDomain
    <3>1. Formula \in DOMAIN project'.cells
      BY <3>d
    <3>2. project'.cells[Formula] = Network.formula
      BY <2>3, PutValue
    <3>3. QED
      BY <1>4, <3>1, <3>2 DEF HasFormula, Headloss
  <2>5. todo' = Rest(plan, 0 + 1) /\ 0 \in 0 .. m /\ 1 .. 0 = {}
    BY <1>1, <1>m, <2>2
  <2>6. \E k \in 0 .. m : /\ todo' = Rest(plan, k + 1)
                          /\ \A i \in 1 .. k : <<"ROUGHNESS", Network.pipes[i].id>> \in Items(failed)' \/ RoughPipe(Network.pipes[i])'
    BY <2>5
  <2>7. QED
    BY <1>4, <2>4, <2>6 DEF RoughUnderway, plan
<1>7. ASSUME NEW k \in 0 .. m, todo = Rest(plan, k + 1), HasFormula,
             \A i \in 1 .. k : <<"ROUGHNESS", Network.pipes[i].id>> \in Items(failed) \/ RoughPipe(Network.pipes[i])
      PROVE  RoughUnderway'
  <2> DEFINE c == Head(todo)
  <2>1. k + 1 \in 0 .. Len(plan)
    BY <1>3, <1>m
  <2>2. (k + 1) + 1 \in 1 .. Len(plan) /\ c = plan[(k + 1) + 1] /\ Tail(todo) = Rest(plan, (k + 1) + 1)
    BY <1>1, <1>3, <1>7, <2>1, RestIs
  <2>3. k + 1 \in 1 .. m /\ k + 1 \in 0 .. m
    BY <1>3, <1>m, <2>2
  <2>4. c = Call(<<"ROUGHNESS", Network.pipes[k + 1].id>>, Network.formula, TRUE)
    BY <1>3, <2>2, <2>3
  <2>5. c.cell = <<"ROUGHNESS", Network.pipes[k + 1].id>> /\ c.value = Network.formula /\ c.cell[1] = "ROUGHNESS" /\ c.cell # Formula
    BY <2>4 DEF Call, Formula
  <2>6. /\ c.cell \in DOMAIN project'.cells /\ project'.cells[c.cell] = <<Network.formula, Headloss(project)>>
        /\ \A cell \in DOMAIN project.cells : cell # c.cell =>
              cell \in DOMAIN project'.cells /\ project'.cells[cell] = project.cells[cell]
    BY <1>1, <2>5, RoughnessCalled DEF c
  <2>7. HasFormula'
    BY <1>4, <1>7, <2>5, <2>6 DEF HasFormula, Headloss
  <2>8. project'.cells[c.cell] = <<Network.formula, Network.formula>>
    BY <1>7, <2>6 DEF HasFormula
  <2>9. \A i \in 1 .. k + 1 :
           <<"ROUGHNESS", Network.pipes[i].id>> \in Items(failed)' \/ RoughPipe(Network.pipes[i])'
    <3> SUFFICES ASSUME NEW i \in 1 .. k + 1, <<"ROUGHNESS", Network.pipes[i].id>> \notin Items(failed)
                 PROVE  LET cell == <<"ROUGHNESS", Network.pipes[i].id>>
                        IN  cell \in DOMAIN project'.cells /\ project'.cells[cell] = <<Network.formula, Network.formula>>
      BY <1>1, <1>4 DEF RoughPipe
    <3> DEFINE cell == <<"ROUGHNESS", Network.pipes[i].id>>
    <3>1. CASE cell = c.cell
      BY <2>6, <2>8, <3>1 DEF cell
    <3>2. CASE cell # c.cell
      <4>1. i \in 1 .. k
        BY <1>7, <2>5, <3>2
      <4>2. cell \in DOMAIN project.cells /\ project.cells[cell] = <<Network.formula, Network.formula>>
        BY <1>7, <4>1 DEF RoughPipe
      <4> HIDE DEF c, cell
      <4>3. QED
        BY <2>6, <3>2, <4>2 DEF cell
    <3>3. QED
      BY <3>1, <3>2
  <2>10. todo' = Rest(plan, (k + 1) + 1)
    BY <1>1, <2>2
  <2>11. \E j \in 0 .. m : /\ todo' = Rest(plan, j + 1)
                           /\ \A i \in 1 .. j : <<"ROUGHNESS", Network.pipes[i].id>> \in Items(failed)' \/ RoughPipe(Network.pipes[i])'
    BY <2>3, <2>9, <2>10
  <2>12. QED
    BY <1>4, <2>7, <2>11 DEF RoughUnderway, plan
<1>8. QED
  BY <1>5, <1>6, <1>7 DEF RoughUnderway, plan

(* A failure that was reported stays reported.                             *)
LEMMA FailedGrows ==
  ASSUME Shape, CallFails
  PROVE  Items(failed') = Items(failed) \union {Head(todo).cell} /\ failed' # <<>>
BY AppendIs, EmptyIsList DEF Shape, CallFails

LEMMA RoughFails ==
  ASSUME Shape, RoughUnderway, stage = "hydraulics", CallFails
  PROVE  RoughUnderway'
<1> DEFINE plan == HydraulicPlan(Network)
           m == Len(Network.pipes)
           c == Head(todo)
<1>1. /\ UNCHANGED <<request, stage, project>> /\ todo # <<>> /\ request \in Requests
      /\ todo' = IF c.cell[1] = "ROUGHNESS" THEN Tail(todo) ELSE <<>>
  BY DEF CallFails, Shape
<1>2. Items(failed') = Items(failed) \union {c.cell}
  BY FailedGrows
<1>3. IsList(Network.pipes)
  BY <1>1, NetworkIs
<1>4. /\ IsList(plan) /\ Len(plan) = m + 1 /\ plan[1] = Call(Formula, Network.formula, TRUE)
      /\ \A k \in 1 .. m : plan[k + 1] = Call(<<"ROUGHNESS", Network.pipes[k].id>>, Network.formula, TRUE)
  BY <1>3, HydraulicPlanIs
<1>m. m \in Nat
  BY <1>3, ListIs
<1>5. Network' = Network /\ plan' = plan /\ m' = m /\ Items(failed)' = Items(failed')
  BY <1>1 DEF Network
<1> HIDE DEF plan, c
<1>6. CASE Formula \in Items(failed)
  BY <1>2, <1>5, <1>6 DEF RoughUnderway
<1>7. CASE todo = plan
  <2>1. 0 \in 0 .. Len(plan) /\ todo = Rest(plan, 0) /\ 0 + 1 = 1
    BY <1>4, <1>7, <1>m, RestIs
  <2>2. c = plan[0 + 1]
    BY <1>1, <1>4, <2>1, RestIs DEF c
  <2>3. c.cell = Formula
    BY <1>4, <2>1, <2>2 DEF Call
  <2>4. Formula \in Items(failed)'
    BY <1>2, <1>5, <2>3
  <2>5. QED
    BY <2>4 DEF RoughUnderway
<1>8. ASSUME NEW k \in 0 .. m, todo = Rest(plan, k + 1), HasFormula,
             \A i \in 1 .. k : <<"ROUGHNESS", Network.pipes[i].id>> \in Items(failed) \/ RoughPipe(Network.pipes[i])
      PROVE  RoughUnderway'
  <2>1. k + 1 \in 0 .. Len(plan)
    BY <1>4, <1>m
  <2>2. (k + 1) + 1 \in 1 .. Len(plan) /\ c = plan[(k + 1) + 1] /\ Tail(todo) = Rest(plan, (k + 1) + 1)
    BY <1>1, <1>4, <1>8, <2>1, RestIs DEF c
  <2>3. k + 1 \in 1 .. m /\ k + 1 \in 0 .. m
    BY <1>4, <1>m, <2>2
  <2>4. c = Call(<<"ROUGHNESS", Network.pipes[k + 1].id>>, Network.formula, TRUE)
    BY <1>4, <2>2, <2>3
  <2>5. c.cell = <<"ROUGHNESS", Network.pipes[k + 1].id>> /\ c.cell[1] = "ROUGHNESS"
    BY <2>4 DEF Call
  <2>6. todo' = Rest(plan, (k + 1) + 1)
    BY <1>1, <2>2, <2>5
  <2>7. HasFormula' /\ \A i : RoughPipe(Network.pipes[i])' <=> RoughPipe(Network.pipes[i])
    BY <1>1, <1>5, <1>8 DEF HasFormula, Headloss, RoughPipe
  <2>8. \A i \in 1 .. k + 1 : <<"ROUGHNESS", Network.pipes[i].id>> \in Items(failed)' \/ RoughPipe(Network.pipes[i])'
    <3> SUFFICES ASSUME NEW i \in 1 .. k + 1
                 PROVE  <<"ROUGHNESS", Network.pipes[i].id>> \in Items(failed)' \/ RoughPipe(Network.pipes[i])
      BY <2>7
    <3>1. CASE i = k + 1
      BY <1>2, <1>5, <2>5, <3>1
    <3>2. CASE i # k + 1
      BY <1>2, <1>5, <1>8, <3>2
    <3>3. QED
      BY <3>1, <3>2
  <2>9. \E j \in 0 .. m : /\ todo' = Rest(plan, j + 1)
                          /\ \A i \in 1 .. j : <<"ROUGHNESS", Network.pipes[i].id>> \in Items(failed)' \/ RoughPipe(Network.pipes[i])'
    BY <2>3, <2>6, <2>8
  <2>10. QED
    BY <1>5, <2>7, <2>9 DEF RoughUnderway, plan
<1>9. QED
  BY <1>6, <1>7, <1>8 DEF RoughUnderway, plan

LEMMA RoughUnderwayStep ==
  ASSUME Shape, RoughUnderway, Moves
  PROVE  RoughUnderway'
<1>l. stage' # "hydraulics" => RoughUnderway'
  BY DEF RoughUnderway
<1>1. CASE CallSucceeds
  BY <1>1, <1>l, RoughCall DEF CallSucceeds
<1>2. CASE CallFails
  BY <1>2, <1>l, RoughFails DEF CallFails
<1>3. CASE Build
  <2>1. todo' = HydraulicPlan(Network)'
    BY <1>3 DEF Build, Begin, Network
  <2>2. QED
    BY <2>1 DEF RoughUnderway
<1>4. CASE Retrieve \/ NextChild \/ SolveChild
  BY <1>4, <1>l DEF Retrieve, NextChild, SolveChild, Begin
<1>5. CASE ~(CallSucceeds \/ CallFails \/ Build \/ Retrieve \/ NextChild \/ SolveChild)
  BY <1>5, <1>l DEF Moves, Begins
<1>6. QED
  BY <1>1, <1>2, <1>3, <1>4, <1>5

(* When the hydraulics have been configured without a failure, every pipe  *)
(* has its roughness.                                                      *)
LEMMA RoughEnds ==
  ASSUME Shape, RoughUnderway, stage = "hydraulics", todo = <<>>, failed = <<>>
  PROVE  HasFormula /\ \A pipe \in Items(Network.pipes) : RoughPipe(pipe)
<1> DEFINE plan == HydraulicPlan(Network)
           m == Len(Network.pipes)
<1>1. IsList(Network.pipes)
  BY NetworkIs DEF Shape
<1>2. IsList(plan) /\ Len(plan) = m + 1 /\ m \in Nat
  BY <1>1, HydraulicPlanIs, ListIs
<1>3. Items(failed) = {}
  BY EmptyIsList
<1>4. todo # plan
  BY <1>2, ListIs
<1> HIDE DEF plan
<1>5. PICK k \in 0 .. m :
         /\ todo = Rest(plan, k + 1) /\ HasFormula
         /\ \A i \in 1 .. k : <<"ROUGHNESS", Network.pipes[i].id>> \in Items(failed) \/ RoughPipe(Network.pipes[i])
  BY <1>3, <1>4 DEF RoughUnderway, plan
<1>6. k + 1 \in 0 .. Len(plan)
  BY <1>2
<1>7. k = m
  BY <1>2, <1>5, <1>6, RestIs
<1>8. \A i \in 1 .. m : RoughPipe(Network.pipes[i])
  BY <1>3, <1>5, <1>7
<1>9. \A pipe \in Items(Network.pipes) : \E i \in 1 .. m : Network.pipes[i] = pipe
  BY <1>1, ListIs
<1>10. QED
  BY <1>5, <1>8, <1>9

-----------------------------------------------------------------------------
(* What a call can change behind the hydraulics. *)

LEMMA LaterCall ==
  ASSUME Shape, TodoFits, stage \in Later, CallSucceeds
  PROVE  /\ DOMAIN project.cells \subseteq DOMAIN project'.cells
         /\ DOMAIN project'.cells \subseteq DOMAIN project.cells \union QualityCells(Network)
         /\ \A cell \in DOMAIN project.cells \ QualityCells(Network) : project'.cells[cell] = project.cells[cell]
<1> DEFINE c == Head(todo)
           S == QualityCells(Network)
<1>1. /\ todo # <<>> /\ c.fine /\ project' = Called(project, c) /\ IsProject(project) /\ request \in Requests
  BY DEF CallSucceeds, Shape
<1>2. c \in Items(todo)
  BY <1>1, CallIs
<1>3. CASE stage = "report"
  <2>1. c.cell[1] = "report"
    BY <1>1, <1>2, <1>3 DEF TodoFits
  <2>2. project'.cells = project.cells
    BY <1>1, <2>1, CalledCells
  <2>3. QED
    BY <2>2
<1>4. CASE stage \in {"analysis", "reactions"}
  <2>1. c.cell \in S
    BY <1>2, <1>4 DEF TodoFits
  <2>2. c.cell[1] \in QualityNames
    BY <1>1, <2>1, NetworkIs, QualityCellsAre
  <2>3. Plain(c)
    BY <2>2 DEF Plain, QualityNames, SettingNames
  <2> DEFINE x == project.cells
             y == project'.cells
             d == c.cell
             v == c.value
  <2>4. y = Put(x, d, v)
    BY <1>1, <2>3, CalledPlain DEF c
  <2>5. d \in S
    BY <2>1
  <2> HIDE DEF x, y, d, v, S
  <2>6. DOMAIN y = DOMAIN x \union {d}
    BY <2>4, PutDomain
  <2>7. \A cell \in DOMAIN x : cell # d => y[cell] = x[cell]
    BY <2>4, PutElse
  <2>8. DOMAIN x \subseteq DOMAIN y /\ DOMAIN y \subseteq DOMAIN x \union S /\ \A cell \in DOMAIN x \ S : y[cell] = x[cell]
    BY <2>5, <2>6, <2>7
  <2>9. QED
    BY <2>8 DEF x, y, S
<1>5. stage # "children"
  BY <1>1 DEF TodoFits
<1>6. QED
  BY <1>3, <1>4, <1>5 DEF Later

(* How a run gets behind its hydraulics, and what goes on there.           *)
LEMMA LaterMoves ==
  ASSUME Shape, TodoFits, Moves, stage' \in Later
  PROVE  UNCHANGED request
         /\ \/ stage \in Later /\ (CallSucceeds \/ project' = project)
            \/ stage = "hydraulics" /\ todo = <<>> /\ failed = <<>> /\ project' = project
<1>1. CASE CallSucceeds \/ CallFails
  BY <1>1 DEF CallSucceeds, CallFails
<1>3. CASE Build
  BY <1>3 DEF Build, Begin, Later
<1>4. CASE Retrieve
  BY <1>4 DEF Retrieve, Ready, Later
<1>5. CASE NextChild
  BY <1>5 DEF NextChild, Later
<1>6. CASE SolveChild
  BY <1>6 DEF SolveChild, Ready, Later
<1>7. CASE ~(CallSucceeds \/ CallFails \/ Build \/ Retrieve \/ NextChild \/ SolveChild)
  BY <1>7 DEF Moves, Begins, Later
<1>8. QED
  BY <1>1, <1>3, <1>4, <1>5, <1>6, <1>7

LEMMA PipesAreNoQuality ==
  ASSUME request \in Requests
  PROVE  Formula \notin QualityCells(Network) /\ \A id : <<"ROUGHNESS", id>> \notin QualityCells(Network)
BY NetworkIs, QualityCellsAre DEF QualityNames, SettingNames, Formula

LEMMA RoughStaysStep ==
  ASSUME Shape, TodoFits, RoughUnderway, RoughStays, Moves
  PROVE  RoughStays'
<1> SUFFICES ASSUME stage' \in Later
             PROVE  HasFormula' /\ \A pipe \in Items(Network.pipes)' : RoughPipe(pipe)'
  BY DEF RoughStays
<1>1. UNCHANGED request
      /\ \/ stage \in Later /\ (CallSucceeds \/ project' = project)
         \/ stage = "hydraulics" /\ todo = <<>> /\ failed = <<>> /\ project' = project
  BY LaterMoves
<1>2. Network' = Network /\ request \in Requests
  BY <1>1 DEF Network, Shape
<1>3. ASSUME HasFormula, \A pipe \in Items(Network.pipes) : RoughPipe(pipe), project' = project
      PROVE  HasFormula' /\ \A pipe \in Items(Network.pipes)' : RoughPipe(pipe)'
  BY <1>2, <1>3 DEF HasFormula, Headloss, RoughPipe
<1>4. CASE stage \in Later /\ project' = project
  BY <1>3, <1>4 DEF RoughStays
<1>5. CASE stage = "hydraulics" /\ todo = <<>> /\ failed = <<>> /\ project' = project
  BY <1>3, <1>5, RoughEnds
<1>6. CASE stage \in Later /\ CallSucceeds
  <2>1. HasFormula /\ \A pipe \in Items(Network.pipes) : RoughPipe(pipe)
    BY <1>6 DEF RoughStays
  <2>2. \A cell \in DOMAIN project.cells \ QualityCells(Network) :
           cell \in DOMAIN project'.cells /\ project'.cells[cell] = project.cells[cell]
    BY <1>6, LaterCall
  <2>3. Formula \notin QualityCells(Network) /\ \A id : <<"ROUGHNESS", id>> \notin QualityCells(Network)
    BY <1>2, PipesAreNoQuality
  <2>4. HasFormula'
    BY <1>2, <2>1, <2>2, <2>3 DEF HasFormula, Headloss
  <2>5. ASSUME NEW pipe \in Items(Network.pipes)
        PROVE  RoughPipe(pipe)'
    BY <1>2, <2>1, <2>2, <2>3 DEF RoughPipe
  <2>6. QED
    BY <1>2, <2>4, <2>5
<1>7. QED
  BY <1>1, <1>4, <1>5, <1>6

LEMMA HydraulicsStayStep ==
  ASSUME Shape, TodoFits, Straight, HydraulicsStay, Moves
  PROVE  HydraulicsStay'
<1> DEFINE base == Hydraulic(Network).cells
           S == QualityCells(Network)
           Stay(cells) == /\ DOMAIN base \subseteq DOMAIN cells /\ DOMAIN cells \subseteq DOMAIN base \union S
                          /\ \A cell \in DOMAIN base \ S : cells[cell] = base[cell]
<1>0. UNCHANGED request => UNCHANGED <<base, S>>
  BY DEF Network
<1> HIDE DEF base, S
<1> SUFFICES ASSUME stage' \in Later, UNCHANGED request
             PROVE  Stay(project'.cells)
  BY <1>0, LaterMoves DEF HydraulicsStay, base, S
<1>1. \/ stage \in Later /\ (CallSucceeds \/ project' = project)
      \/ stage = "hydraulics" /\ todo = <<>> /\ failed = <<>> /\ project' = project
  BY LaterMoves
<1>2. ASSUME stage \in Later
      PROVE  Stay(project.cells)
  BY <1>2 DEF HydraulicsStay, base, S
<1>3. CASE stage \in Later /\ project' = project
  BY <1>2, <1>3
<1>4. CASE stage = "hydraulics" /\ todo = <<>> /\ failed = <<>> /\ project' = project
  <2>1. Underway(Constructed(Network), HydraulicPlan(Network))
    BY <1>4 DEF Straight
  <2>2. IsProject(Constructed(Network)) /\ IsList(HydraulicPlan(Network))
    BY NetworkIs, HydraulicIs, HydraulicPlanIs DEF Shape
  <2>3. project = Hydraulic(Network)
    BY <1>4, <2>1, <2>2, UnderwayEnds DEF Hydraulic
  <2>4. project'.cells = base
    BY <1>4, <2>3 DEF base
  <2>5. QED
    BY <2>4
<1>5. CASE stage \in Later /\ CallSucceeds
  BY <1>2, <1>5, LaterCall DEF S
<1>6. QED
  BY <1>1, <1>3, <1>4, <1>5

(* A call of a plan of calls that are not special moves its last settings  *)
(* on by one.                                                              *)
LEMMA LastSetCall ==
  ASSUME NEW p, IsProject(p), NEW c, Plain(c), NEW s, NEW k \in Nat, s[k + 1] = c, LastSet(p.cells, s, 0, k)
  PROVE  LastSet(Called(p, c).cells, s, 0, k + 1)
BY CalledPlain, LastSetOneMore

(* One step along one of the two plans of a child.                         *)
LEMMA ChildCall ==
  ASSUME Shape, TodoFits, stage \in {"analysis", "reactions"}, CallSucceeds,
         NEW part, IsList(part), NEW plan, NEW a \in Nat, \A i \in 1 .. Len(part) : plan[a + i] = part[i],
         NEW k \in 0 .. Len(part), todo = Rest(part, k), LastSet(project.cells, plan, 0, a + k)
  PROVE  \E j \in 0 .. Len(part) : todo' = Rest(part, j) /\ LastSet(project'.cells, plan, 0, a + j)
<1> DEFINE c == Head(todo)
<1>1. todo # <<>> /\ project' = Called(project, c) /\ todo' = Tail(todo) /\ IsProject(project) /\ request \in Requests
  BY DEF CallSucceeds, Shape
<1>2. k + 1 \in 1 .. Len(part) /\ c = part[k + 1] /\ Tail(todo) = Rest(part, k + 1)
  BY <1>1, RestIs
<1>3. k + 1 \in 0 .. Len(part) /\ a + k \in Nat /\ (a + k) + 1 = a + (k + 1)
  BY <1>2, ListIs
<1>4. Plain(c)
  <2>1. c \in Items(todo)
    BY <1>1, CallIs
  <2>2. c.cell \in QualityCells(Network)
    BY <2>1 DEF TodoFits
  <2>3. IsList(Network.places) /\ IsList(Network.pipes)
    BY <1>1, NetworkIs
  <2>4. c.cell[1] \in QualityNames
    BY <2>2, <2>3, QualityCellsAre
  <2>5. QED
    BY <2>4 DEF Plain, QualityNames, SettingNames
<1> HIDE DEF c
<1>5. plan[(a + k) + 1] = c
  BY <1>2, <1>3
<1>6. LastSet(project'.cells, plan, 0, (a + k) + 1)
  BY <1>1, <1>3, <1>4, <1>5, LastSetCall
<1>7. todo' = Rest(part, k + 1) /\ LastSet(project'.cells, plan, 0, a + (k + 1))
  BY <1>1, <1>2, <1>3, <1>6
<1>8. QED
  BY <1>3, <1>7

(* The two plans of a child, one behind the other.                         *)
LEMMA ChildPlansAre ==
  ASSUME request \in Requests, NEW options
  PROVE  LET plan == FullPlan(Network, options)
             first == AnalysisPlan(Network, options)
             second == ReactionPlan(Network)
         IN  /\ IsList(plan) /\ IsList(first) /\ IsList(second)
             /\ Len(first) \in Nat /\ Len(second) \in Nat /\ Len(plan) = Len(first) + Len(second)
             /\ \A i \in 1 .. Len(first) : plan[0 + i] = first[i]
             /\ \A i \in 1 .. Len(second) : plan[Len(first) + i] = second[i]
BY PlansAre, ListIs, ConcatIs DEF FullPlan

ChildSoFar(s, list, cells, options) ==
    LET plan == FullPlan(Network, options)
        first == AnalysisPlan(Network, options)
        second == ReactionPlan(Network)
    IN  /\ s = "analysis" => \E k \in 0 .. Len(first) : list = Rest(first, k) /\ LastSet(cells, plan, 0, k)
        /\ s = "reactions" =>
              \E k \in 0 .. Len(second) : list = Rest(second, k) /\ LastSet(cells, plan, 0, Len(first) + k)

LEMMA ChildUnderwayMeans ==
  ChildUnderway <=>
    (stage \in {"analysis", "reactions"} /\ ~request.inp =>
        /\ child \in 1 .. Len(request.children) /\ Current.analysis # "None"
        /\ failed = <<>> => ChildSoFar(stage, todo, project.cells, Current))
BY DEF ChildUnderway, ChildSoFar

LEMMA ChildSoFarCall ==
  ASSUME Shape, TodoFits, stage \in {"analysis", "reactions"}, CallSucceeds, NEW options,
         ChildSoFar(stage, todo, project.cells, options)
  PROVE  ChildSoFar(stage, todo', project'.cells, options)
<1> DEFINE plan == FullPlan(Network, options)
           first == AnalysisPlan(Network, options)
           second == ReactionPlan(Network)
<1>1. /\ IsList(plan) /\ IsList(first) /\ IsList(second)
      /\ Len(first) \in Nat /\ Len(second) \in Nat /\ Len(plan) = Len(first) + Len(second)
      /\ \A i \in 1 .. Len(first) : plan[0 + i] = first[i]
      /\ \A i \in 1 .. Len(second) : plan[Len(first) + i] = second[i]
  BY ChildPlansAre DEF Shape
<1> HIDE DEF plan, first, second
<1>2. CASE stage = "analysis"
  <2>1. PICK k \in 0 .. Len(first) : todo = Rest(first, k) /\ LastSet(project.cells, plan, 0, k)
    BY <1>2 DEF ChildSoFar, plan, first
  <2>2. 0 + k = k
    BY <1>1
  <2>3. LastSet(project.cells, plan, 0, 0 + k) /\ 0 \in Nat
    BY <2>1, <2>2
  <2>4. \E j \in 0 .. Len(first) : todo' = Rest(first, j) /\ LastSet(project'.cells, plan, 0, 0 + j)
    BY <1>1, <2>1, <2>3, ChildCall
  <2>5. \A j \in 0 .. Len(first) : 0 + j = j
    BY <1>1
  <2>6. \E j \in 0 .. Len(first) : todo' = Rest(first, j) /\ LastSet(project'.cells, plan, 0, j)
    BY <2>4, <2>5
  <2>7. QED
    BY <1>2, <2>6 DEF ChildSoFar, plan, first
<1>3. CASE stage = "reactions"
  <2>1. PICK k \in 0 .. Len(second) : todo = Rest(second, k) /\ LastSet(project.cells, plan, 0, Len(first) + k)
    BY <1>3 DEF ChildSoFar, plan, first, second
  <2>2. \E j \in 0 .. Len(second) : todo' = Rest(second, j) /\ LastSet(project'.cells, plan, 0, Len(first) + j)
    BY <1>1, <2>1, ChildCall
  <2>3. QED
    BY <1>3, <2>2 DEF ChildSoFar, plan, first, second
<1>4. QED
  BY <1>2, <1>3

LEMMA ChildSoFarBegins ==
  ASSUME request \in Requests, NEW options, NEW cells
  PROVE  ChildSoFar("analysis", AnalysisPlan(Network, options), cells, options)
<1> DEFINE first == AnalysisPlan(Network, options)
<1>1. IsList(first)
  BY PlansAre
<1> HIDE DEF first
<1>2. 0 \in 0 .. Len(first) /\ Rest(first, 0) = first
  BY <1>1, ListIs, RestIs
<1>3. LastSet(cells, FullPlan(Network, options), 0, 0)
  BY DEF LastSet
<1>4. QED
  BY <1>2, <1>3 DEF ChildSoFar, first

LEMMA ChildSoFarGoesOn ==
  ASSUME request \in Requests, NEW options, NEW cells, ChildSoFar("analysis", <<>>, cells, options)
  PROVE  ChildSoFar("reactions", ReactionPlan(Network), cells, options)
BY ChildPlansAre, RestIs DEF ChildSoFar

LEMMA ChildSoFarEnds ==
  ASSUME request \in Requests, NEW options, NEW cells, ChildSoFar("reactions", <<>>, cells, options)
  PROVE  LastSet(cells, FullPlan(Network, options), 0, Len(FullPlan(Network, options)))
<1> DEFINE plan == FullPlan(Network, options)
           first == AnalysisPlan(Network, options)
           second == ReactionPlan(Network)
<1>1. IsList(first) /\ IsList(second) /\ Len(plan) = Len(first) + Len(second)
  BY ChildPlansAre
<1> HIDE DEF plan, first, second
<1>2. PICK k \in 0 .. Len(second) : <<>> = Rest(second, k) /\ LastSet(cells, plan, 0, Len(first) + k)
  BY DEF ChildSoFar, plan, first, second
<1>3. k = Len(second)
  BY <1>1, <1>2, RestIs
<1>4. QED
  BY <1>1, <1>2, <1>3 DEF plan

LEMMA ChildUnderwayStep ==
  ASSUME Shape, TodoFits, ChildUnderway, Moves
  PROVE  ChildUnderway'
<1>0. request \in Requests
  BY DEF Shape
<1> DEFINE Good == /\ child' \in 1 .. Len(request.children) /\ request.children[child'].analysis # "None"
                   /\ failed' = <<>> => ChildSoFar(stage', todo', project'.cells, request.children[child'])
<1>g. ASSUME UNCHANGED request, stage' \in {"analysis", "reactions"} /\ ~request.inp => Good
      PROVE  ChildUnderway'
  BY <1>g DEF ChildUnderway, ChildSoFar, Current, Network
<1>l. UNCHANGED request
  BY DEF Moves, CallSucceeds, CallFails, Build, Retrieve, NextChild, SolveChild, Begins
<1> SUFFICES ASSUME stage' \in {"analysis", "reactions"}, ~request.inp
             PROVE  Good
  BY <1>g, <1>l
<1>1. CASE CallSucceeds
  BY <1>1, ChildUnderwayMeans, ChildSoFarCall DEF CallSucceeds, Current
<1>2. CASE CallFails
  BY <1>2, FailedGrows DEF CallFails, ChildUnderway, Current
<1>3. CASE Build \/ Retrieve \/ SolveChild
  BY <1>3 DEF Build, Retrieve, SolveChild, Begin
<1>4. CASE NextChild
  <2> DEFINE options == request.children[child + 1]
  <2>1. stage = "children" /\ child' = child + 1 /\ failed' = <<>> /\ child < Len(request.children) /\ UNCHANGED project
    BY <1>4 DEF NextChild
  <2>2. ~(options.analysis = "None" \/ ~ValidQualityRun(Network, options))
    BY <1>4, <2>1 DEF NextChild
  <2>3. stage' = "analysis" /\ todo' = AnalysisPlan(Network, options)
    BY <1>4, <2>2 DEF NextChild, Begin
  <2>4. child' \in 1 .. Len(request.children)
    BY <1>0, <2>1, NetworkIs, ListIs DEF Shape
  <2>5. ChildSoFar(stage', todo', project'.cells, options)
    BY <1>0, <2>3, ChildSoFarBegins
  <2>6. QED
    BY <2>1, <2>2, <2>4, <2>5
<1>5. CASE ~(CallSucceeds \/ CallFails \/ Build \/ Retrieve \/ NextChild \/ SolveChild)
  BY <1>0, <1>5, ChildUnderwayMeans, ChildSoFarGoesOn DEF Moves, Begins, Current
<1>6. QED
  BY <1>1, <1>2, <1>3, <1>4, <1>5

-----------------------------------------------------------------------------
(* A child that is solved is solved in the project it has alone. *)

IsolatedIn(cells, options) ==
    LET alone == Alone(Network, options)
    IN  \A cell \in DOMAIN cells \union DOMAIN alone :
            Heeds(options, cell) => cell \in DOMAIN cells \intersect DOMAIN alone /\ cells[cell] = alone[cell]

LEMMA SolvedAlone ==
  ASSUME Shape, HydraulicsStay, ChildUnderway, stage = "reactions", todo = <<>>, failed = <<>>, ~request.inp
  PROVE  child \in 1 .. Len(request.children) /\ IsolatedIn(project.cells, Current)
<1> DEFINE options == Current
           plan == FullPlan(Network, options)
           alone == Alone(Network, options)
           base == Hydraulic(Network).cells
           S == QualityCells(Network)
           x == project.cells
<1>1. request \in Requests /\ IsList(Network.pipes) /\ IsList(Network.places)
  BY NetworkIs DEF Shape
<1>2. child \in 1 .. Len(request.children) /\ options.analysis # "None" /\ ChildSoFar("reactions", <<>>, x, options)
  BY ChildUnderwayMeans
<1>3. LastSet(x, plan, 0, Len(plan))
  BY <1>1, <1>2, ChildSoFarEnds
<1>4. IsList(plan) /\ CellsOf(plan) \subseteq S
      /\ \A cell \in S : cell \in CellsOf(plan) \/ (cell[1] = "INITQUAL" /\ ~HasInitialNodeQuality(options.analysis))
  BY <1>1, FullPlanIs
<1>5. /\ DOMAIN alone = DOMAIN base \union CellsOf(plan)
      /\ \A cell \in DOMAIN base \ CellsOf(plan) : alone[cell] = base[cell]
      /\ LastSet(alone, plan, 0, Len(plan))
  BY <1>1, AloneIs
<1>6. /\ DOMAIN base \subseteq DOMAIN x /\ DOMAIN x \subseteq DOMAIN base \union S
      /\ \A cell \in DOMAIN base \ S : x[cell] = base[cell]
  BY DEF HydraulicsStay, Later
<1>7. ~HasInitialNodeQuality(options.analysis) => options.analysis = "SourceTrace"
  BY <1>1, <1>2, NetworkIs DEF Current, Analyses, HasInitialNodeQuality
<1> HIDE DEF options, plan, alone, base, S, x
<1>8. ASSUME NEW cell \in DOMAIN x \union DOMAIN alone, Heeds(options, cell)
      PROVE  cell \in DOMAIN x /\ cell \in DOMAIN alone /\ x[cell] = alone[cell]
  <2>1. CASE cell \in CellsOf(plan)
    BY <1>3, <1>4, <1>5, <2>1, LastDecides
  <2>2. CASE cell \notin CellsOf(plan)
    <3>1. cell \notin S
      BY <1>4, <1>7, <1>8, <2>2 DEF Heeds
    <3>2. cell \in DOMAIN base
      BY <1>5, <1>6, <1>8, <2>2, <3>1
    <3>3. x[cell] = base[cell] /\ alone[cell] = base[cell] /\ cell \in DOMAIN x /\ cell \in DOMAIN alone
      BY <1>5, <1>6, <2>2, <3>1, <3>2
    <3>4. QED
      BY <3>3
  <2>3. QED
    BY <2>1, <2>2
<1>9. IsolatedIn(x, options)
  BY <1>8 DEF IsolatedIn, alone
<1>10. QED
  BY <1>2, <1>9 DEF x, options

LEMMA IsolatedMeans ==
  ChildrenAreIsolated <=> \A s \in solved : IsolatedIn(s.cells, request.children[s.child])
BY DEF ChildrenAreIsolated, IsolatedIn

LEMMA ChildrenAreIsolatedStep ==
  ASSUME Shape, HydraulicsStay, ChildUnderway, ChildrenAreIsolated, Moves
  PROVE  ChildrenAreIsolated'
<1>1. UNCHANGED request
  BY DEF Moves, CallSucceeds, CallFails, Build, Retrieve, NextChild, SolveChild, Begins
<1>2. \A s \in solved : IsolatedIn(s.cells, request.children[s.child])
  BY IsolatedMeans
<1>3. ASSUME \A s \in solved' : IsolatedIn(s.cells, request.children[s.child])
      PROVE  ChildrenAreIsolated'
  BY <1>1, <1>3 DEF ChildrenAreIsolated, IsolatedIn, Network
<1>4. CASE SolveChild
  BY <1>2, <1>3, <1>4, SolvedAlone DEF SolveChild, Ready, Current
<1>5. CASE ~SolveChild
  <2>1. UNCHANGED solved
    BY <1>5 DEF Moves, CallSucceeds, CallFails, Build, Retrieve, NextChild, Begins
  <2>2. QED
    BY <1>2, <1>3, <2>1
<1>6. QED
  BY <1>4, <1>5

LEMMA InitInvariant ==
  ASSUME Init
  PROVE  IInv
<1> DEFINE plan == InitializePlan(Network)
<1>1. /\ request \in Requests /\ project = NewProject /\ failed = <<>> /\ child = 0 /\ solved = {} /\ text = NoRef
      /\ \/ stage = "returned" /\ todo = <<>>
         \/ stage = "initialize" /\ todo = plan
  BY DEF Init
<1>2. NoReport(plan)
  BY InitializeIs
<1>3. IsList(plan) /\ \A c \in Items(plan) : c.cell[1] \notin {"report", "ROUGHNESS"}
  BY <1>2 DEF NoReport
<1>4. Len(request.children) \in Nat
  BY <1>1, NetworkIs, ListIs
<1> HIDE DEF plan
<1>5. Shape
  <2>1. IsProject(project) /\ IsList(<<>>)
    BY <1>1, NewProjectIs, EmptyIsList
  <2>2. QED
    BY <1>1, <1>3, <1>4, <2>1 DEF Shape, Stages
<1>6. TodoFits
  BY <1>1, <1>3, NothingTodoFits DEF TodoFits
<1>7. Straight
  <2>1. CASE stage = "returned"
    BY <2>1 DEF Straight
  <2>2. CASE stage = "initialize" /\ todo = plan
    <3>1. IsProject(NewProject)
      BY NewProjectIs
    <3>2. 0 \in 0 .. Len(plan) /\ plan = Rest(plan, 0) /\ NewProject = ConfiguredRun(NewProject, plan)[0]
      BY <1>3, <3>1, UnderwayBegins
    <3>3. Underway(NewProject, plan)
      BY <1>1, <2>2, <3>2 DEF Underway
    <3>4. QED
      BY <2>2, <3>3 DEF Straight, plan
  <2>3. QED
    BY <1>1, <2>1, <2>2
<1>8. RoughUnderway /\ RoughStays /\ HydraulicsStay /\ ChildUnderway
  BY <1>1 DEF RoughUnderway, RoughStays, HydraulicsStay, ChildUnderway, Later
<1>9. ChildrenAreIsolated
  BY <1>1 DEF ChildrenAreIsolated
<1>10. QED
  BY <1>5, <1>6, <1>7, <1>8, <1>9 DEF IInv

LEMMA NextInvariant ==
  ASSUME IInv, Next
  PROVE  IInv'
<1>1. /\ Shape /\ TodoFits /\ Straight /\ RoughUnderway /\ RoughStays
      /\ HydraulicsStay /\ ChildUnderway /\ ChildrenAreIsolated
  BY DEF IInv
<1>2. Moves
  BY <1>1, StepsAreMoves
<1>3. Shape' /\ TodoFits'
  BY <1>1, <1>2, ShapeStep, TodoFitsStep
<1>4. Straight'
  BY <1>1, <1>2, StraightStep
<1>5. RoughUnderway' /\ RoughStays'
  BY <1>1, <1>2, RoughUnderwayStep, RoughStaysStep
<1>6. HydraulicsStay'
  BY <1>1, <1>2, HydraulicsStayStep
<1>7. ChildUnderway' /\ ChildrenAreIsolated'
  BY <1>1, <1>2, ChildUnderwayStep, ChildrenAreIsolatedStep
<1>8. QED
  BY <1>3, <1>4, <1>5, <1>6, <1>7 DEF IInv

(* An import of a file of its own begins with no run.                      *)
NoRunState == stage = "returned" /\ todo = <<>> /\ text = NoRef /\ solved = {}

ConfigurationInv == NoRunState \/ IInv

RunIsTheSame == UNCHANGED <<request, stage, todo, project, failed, child, solved, text>>

LEMMA NothingGoesOn ==
  ASSUME stage = "returned", todo = <<>>
  PROVE  ~Next
<1>1. ~CallSucceeds /\ ~CallFails
  BY DEF CallSucceeds, CallFails
<1>2. ~Build /\ ~BuildFails /\ ~Abandon /\ ~Solve /\ ~ConfigureForInp /\ ~ReportForInp /\ ~Retrieve /\ ~RetrieveFails
  BY DEF Build, BuildFails, Abandon, Solve, ConfigureForInp, ReportForInp, Retrieve, RetrieveFails, Ready
<1>3. ~NextChild /\ ~AnalysisEnds /\ ~SolveChild /\ ~ChildFails /\ ~Cancelled
  BY DEF NextChild, AnalysisEnds, SolveChild, ChildFails, Cancelled, Ready
<1>4. QED
  BY <1>1, <1>2, <1>3 DEF Next

LEMMA SameInvariant ==
  ASSUME IInv, RunIsTheSame
  PROVE  IInv'
<1>1. Network' = Network
  BY DEF RunIsTheSame, Network
<1>2. Shape' /\ TodoFits'
  BY <1>1 DEF IInv, RunIsTheSame, Shape, TodoFits
<1>3. Straight'
  BY <1>1 DEF IInv, RunIsTheSame, Straight, Underway
<1>4. RoughUnderway' /\ RoughStays'
  BY <1>1 DEF IInv, RunIsTheSame, RoughUnderway, RoughStays, HasFormula, Headloss, RoughPipe
<1>5. HydraulicsStay'
  BY <1>1 DEF IInv, RunIsTheSame, HydraulicsStay
<1>6. ChildUnderway'
  BY <1>1 DEF IInv, RunIsTheSame, ChildUnderway, Current
<1>7. ChildrenAreIsolated'
  BY <1>1 DEF IInv, RunIsTheSame, ChildrenAreIsolated
<1>8. QED
  BY <1>2, <1>3, <1>4, <1>5, <1>6, <1>7 DEF IInv

LEMMA ImportKeepsRun ==
  ASSUME ImportNext
  PROVE  Next \/ RunIsTheSame
BY DEF ImportNext, ImportRetrieved, ImportSection, ImportFails, vars, RunIsTheSame

LEMMA ImportInitInvariant ==
  ASSUME ImportInit
  PROVE  ConfigurationInv
<1>1. CASE Init
  BY <1>1, InitInvariant DEF ConfigurationInv
<1>2. CASE NoRun
  BY <1>2 DEF NoRun, ConfigurationInv, NoRunState
<1>3. QED
  BY <1>1, <1>2 DEF ImportInit

LEMMA ConfigurationStep ==
  ASSUME ConfigurationInv, Next \/ RunIsTheSame
  PROVE  ConfigurationInv'
<1>1. CASE NoRunState
  BY <1>1, NothingGoesOn DEF NoRunState, RunIsTheSame, ConfigurationInv
<1>2. CASE IInv
  BY <1>2, NextInvariant, SameInvariant DEF ConfigurationInv
<1>3. QED
  BY <1>1, <1>2 DEF ConfigurationInv

LEMMA RoughnessFollows ==
  ASSUME IInv
  PROVE  RoughnessFitsFormula
<1> DEFINE plan == HydraulicPlan(Network)
           m == Len(Network.pipes)
           calls == {todo[k].cell : k \in DOMAIN todo}
           reported == Items(failed) \union calls
<1>0. Shape /\ RoughUnderway /\ RoughStays
  BY DEF IInv
<1>1. request \in Requests /\ IsList(Network.pipes) /\ IsList(todo)
  BY <1>0, NetworkIs DEF Shape
<1>2. /\ IsList(plan) /\ Len(plan) = m + 1 /\ plan[1] = Call(Formula, Network.formula, TRUE)
      /\ \A k \in 1 .. m : plan[k + 1] = Call(<<"ROUGHNESS", Network.pipes[k].id>>, Network.formula, TRUE)
  BY <1>1, HydraulicPlanIs
<1>3. m \in Nat /\ DOMAIN todo = 1 .. Len(todo) /\ \A pipe \in Items(Network.pipes) : \E i \in 1 .. m : Network.pipes[i] = pipe
  BY <1>1, ListIs
<1>4. CASE stage \in Later
  BY <1>0, <1>4 DEF RoughStays, RoughPipe, RoughnessFitsFormula
<1>5. CASE stage = "hydraulics" /\ Formula \in Items(failed)
  BY <1>5 DEF RoughnessFitsFormula, Formula
<1>6. CASE stage = "hydraulics" /\ todo = plan
  <2>1. todo[1].cell = Formula /\ 1 \in DOMAIN todo
    <3>1. 1 \in DOMAIN todo
      <4>1. Len(todo) = m + 1
        BY <1>2, <1>6
      <4>2. 1 \in 1 .. m + 1
        BY <1>3
      <4>3. QED
        BY <1>3, <4>1, <4>2
    <3>2. todo[1] = Call(Formula, Network.formula, TRUE)
      BY <1>2, <1>6
    <3>3. todo[1].cell = Formula
      BY <3>2 DEF Call
    <3>4. QED
      BY <3>1, <3>3
  <2>2. Formula \in calls
    BY <2>1
  <2> HIDE DEF calls
  <2>3. QED
    BY <2>2 DEF RoughnessFitsFormula, Formula, calls
<1>7. ASSUME NEW k \in 0 .. m, todo = Rest(plan, k + 1), HasFormula,
             \A i \in 1 .. k : <<"ROUGHNESS", Network.pipes[i].id>> \in Items(failed) \/ RoughPipe(Network.pipes[i])
      PROVE  RoughnessFitsFormula
  <2>1. k + 1 \in 0 .. Len(plan)
    BY <1>2, <1>3
  <2> HIDE DEF plan, calls
  <2>2. Len(todo) = Len(plan) - (k + 1) /\ \A i \in 1 .. Len(plan) - (k + 1) : todo[i] = plan[i + (k + 1)]
    <3>1. Len(Rest(plan, k + 1)) = Len(plan) - (k + 1)
      BY <1>2, <2>1, RestIs
    <3>2. \A i \in 1 .. Len(plan) - (k + 1) : Rest(plan, k + 1)[i] = plan[i + (k + 1)]
      BY <1>2, <2>1, RestIs
    <3>3. QED
      BY <1>7, <3>1, <3>2
  <2>3. ASSUME NEW i \in 1 .. m
        PROVE  \/ project.cells[<<"ROUGHNESS", Network.pipes[i].id>>] = <<Network.formula, Network.formula>>
               \/ <<"ROUGHNESS", Network.pipes[i].id>> \in Items(failed) \union calls
    <3>1. CASE i <= k
      BY <1>7, <3>1 DEF RoughPipe
    <3>2. CASE i > k
      <4>1. i - k \in 1 .. Len(plan) - (k + 1) /\ (i - k) + (k + 1) = i + 1
        BY <1>2, <1>3, <3>2
      <4>2. todo[i - k] = plan[i + 1] /\ i - k \in DOMAIN todo
        BY <1>3, <2>2, <4>1
      <4>3. todo[i - k].cell = <<"ROUGHNESS", Network.pipes[i].id>>
        <5>1. todo[i - k] = Call(<<"ROUGHNESS", Network.pipes[i].id>>, Network.formula, TRUE)
          BY <1>2, <4>2
        <5>2. QED
          BY <5>1 DEF Call
      <4>4. <<"ROUGHNESS", Network.pipes[i].id>> \in calls
        BY <4>2, <4>3 DEF calls
      <4>5. QED
        BY <4>4
    <3>3. QED
      BY <1>3, <3>1, <3>2
  <2>4. \A pipe \in Items(Network.pipes) :
           \/ project.cells[<<"ROUGHNESS", pipe.id>>] = <<Network.formula, Network.formula>>
           \/ <<"ROUGHNESS", pipe.id>> \in Items(failed) \union calls
    BY <1>3, <2>3
  <2>5. QED
    BY <2>4 DEF RoughnessFitsFormula, calls
<1>8. CASE stage \in {"initialize", "returned"}
  BY <1>8 DEF RoughnessFitsFormula
<1>9. stage \in Stages /\ (stage = "hydraulics" =>
        \/ Formula \in Items(failed) \/ todo = plan
        \/ \E k \in 0 .. m :
              /\ todo = Rest(plan, k + 1) /\ HasFormula
              /\ \A i \in 1 .. k : <<"ROUGHNESS", Network.pipes[i].id>> \in Items(failed) \/ RoughPipe(Network.pipes[i]))
  BY <1>0 DEF Shape, RoughUnderway
<1> HIDE DEF plan
<1>10. QED
  BY <1>4, <1>5, <1>6, <1>7, <1>8, <1>9 DEF Stages

(* The inductive invariant of the configuration, under the imports too.    *)
LEMMA ConfigurationAlways == ImportSpec => []ConfigurationInv
<1>1. ImportInit => ConfigurationInv
  BY ImportInitInvariant
<1>2. ConfigurationInv /\ [ImportNext]_<<vars, importVars>> => ConfigurationInv'
  <2>1. ASSUME ConfigurationInv, ImportNext
        PROVE  ConfigurationInv'
    BY <2>1, ImportKeepsRun, ConfigurationStep
  <2>2. ASSUME ConfigurationInv, UNCHANGED <<vars, importVars>>
        PROVE  ConfigurationInv'
    BY <2>2, ConfigurationStep DEF vars, RunIsTheSame
  <2>3. QED
    BY <2>1, <2>2
<1>3. QED
  BY <1>1, <1>2, PTL DEF ImportSpec

(* Whatever is configured, at every step of it, a pipe that is set up has   *)
(* the roughness of the headloss formula the project has.                   *)
THEOREM RoughnessAlwaysFits == ImportSpec => []RoughnessFitsFormula
<1>1. ConfigurationInv => RoughnessFitsFormula
  BY RoughnessFollows DEF NoRunState, RoughnessFitsFormula, ConfigurationInv
<1>2. QED
  BY <1>1, ConfigurationAlways, PTL

(* A child that is solved has the options of its own run and no other's:    *)
(* nothing of an earlier child is left in the project.                      *)
THEOREM ChildrenAlwaysIsolated == ImportSpec => []ChildrenAreIsolated
<1>1. ConfigurationInv => ChildrenAreIsolated
  BY DEF ConfigurationInv, NoRunState, IInv, ChildrenAreIsolated
<1>2. QED
  BY <1>1, ConfigurationAlways, PTL

(* What the report's rows are about.                                       *)
FieldWords == {"ELEVATION", "DEMAND", "HEAD", "PRESSURE", "QUALITY", "LENGTH", "DIAMETER", "FLOW", "VELOCITY",
               "HEADLOSS", "STATE", "SETTING", "REACTION", "F-FACTOR"}
ChosenWords == {"NODES", "LINKS"}

LEMMA FieldWordsAre == Items(ReportFields) = FieldWords
<1>1. /\ DOMAIN ReportFields = 1 .. 14
      /\ ReportFields[1] = "ELEVATION" /\ ReportFields[2] = "DEMAND" /\ ReportFields[3] = "HEAD"
      /\ ReportFields[4] = "PRESSURE" /\ ReportFields[5] = "QUALITY" /\ ReportFields[6] = "LENGTH"
      /\ ReportFields[7] = "DIAMETER" /\ ReportFields[8] = "FLOW" /\ ReportFields[9] = "VELOCITY"
      /\ ReportFields[10] = "HEADLOSS" /\ ReportFields[11] = "STATE" /\ ReportFields[12] = "SETTING"
      /\ ReportFields[13] = "REACTION" /\ ReportFields[14] = "F-FACTOR"
  BY DEF ReportFields
<1>2. \A k \in 1 .. 14 : k \in {1, 2, 3, 4, 5, 6, 7, 8, 9, 10, 11, 12, 13, 14}
  OBVIOUS
<1>3. Items(ReportFields) = {ReportFields[k] : k \in 1 .. 14}
  BY <1>1 DEF Items
<1> DEFINE f == ReportFields
<1>4. \A k \in 1 .. 14 : f[k] \in FieldWords
  BY <1>1, <1>2 DEF FieldWords
<1>5. FieldWords \subseteq {f[k] : k \in 1 .. 14}
  BY <1>1 DEF f, FieldWords
<1>6. QED
  BY <1>3, <1>4, <1>5

-----------------------------------------------------------------------------
(* A report, part by part: what a command sets, and to what. *)

IsSelection(chosen) == chosen = [mode |-> chosen.mode, ids |-> chosen.ids]
IsSetField(field) ==
    field = [enabled |-> field.enabled, precision |-> field.precision, below |-> field.below, above |-> field.above]

Whole(r) ==
    /\ r = [flags |-> r.flags, chosen |-> r.chosen, fields |-> r.fields]
    /\ DOMAIN r.flags = FlagWords /\ r.flags = [w \in FlagWords |-> r.flags[w]]
    /\ DOMAIN r.chosen = ChosenWords /\ \A w \in ChosenWords : IsSelection(r.chosen[w])
    /\ DOMAIN r.fields = FieldWords /\ \A w \in FieldWords : IsSetField(r.fields[w])

Part(r, a) ==
    CASE a.part = "flag" -> r.flags[a.word]
      [] a.part = "mode" -> r.chosen[a.word].mode
      [] a.part = "has" -> IF a.item \in r.chosen[a.word].ids THEN "in" ELSE "out"
      [] a.part = "enabled" -> r.fields[a.word].enabled
      [] a.part = "precision" -> r.fields[a.word].precision
      [] a.part = "below" -> r.fields[a.word].below
      [] a.part = "above" -> r.fields[a.word].above

FieldParts == {"enabled", "precision", "below", "above"}

IsPart(a) ==
    \/ a.word \in FlagWords /\ a.part = "flag"
    \/ a.word \in ChosenWords /\ a.part \in {"mode", "has"}
    \/ a.word \in FieldWords /\ a.part \in FieldParts

Sets(c, a) ==
    /\ c.word = a.word
    /\ a.part = "has" => c.verb = "LIST" /\ a.item \in c.value
    /\ a.part = "enabled" => c.verb \in {"YES", "NO", "PRECISION"}
    /\ a.part = "precision" => c.verb = "PRECISION"
    /\ a.part = "below" => c.verb = "BELOW"
    /\ a.part = "above" => c.verb = "ABOVE"

Says(c, a) ==
    CASE a.part = "flag" -> <<c.verb, c.value>>
      [] a.part = "mode" -> c.verb
      [] a.part = "has" -> "in"
      [] a.part = "enabled" -> (c.verb # "NO")
      [] a.part \in {"precision", "below", "above"} -> c.value

LEMMA WordsApart ==
  /\ \A w \in FieldWords : w \notin ChosenWords /\ w \notin FlagWords
  /\ \A w \in ChosenWords : w \notin FieldWords /\ w \notin FlagWords
  /\ \A w \in FlagWords : w \notin FieldWords /\ w \notin ChosenWords
BY DEF FieldWords, ChosenWords, FlagWords

(* The three kinds of commands.                                            *)
LEMMA SetFieldWord ==
  ASSUME NEW r, Whole(r), NEW c, c.word \in FieldWords
  PROVE  SetReport(r, c) = [flags |-> r.flags, chosen |-> r.chosen,
                            fields |-> [r.fields EXCEPT ![c.word] = SetField(r.fields[c.word], c)]]
BY DEF Whole, SetReport

LEMMA SetChosenWord ==
  ASSUME NEW r, Whole(r), NEW c, c.word \in ChosenWords
  PROVE  SetReport(r, c) = [flags |-> r.flags, fields |-> r.fields,
                            chosen |-> [r.chosen EXCEPT ![c.word] =
                               [mode |-> c.verb, ids |-> IF c.verb = "LIST" THEN r.chosen[c.word].ids \union c.value
                                                         ELSE r.chosen[c.word].ids]]]
BY WordsApart DEF Whole, SetReport

LEMMA SetFlagWord ==
  ASSUME NEW r, Whole(r), NEW c, c.word \in FlagWords
  PROVE  SetReport(r, c) = [chosen |-> r.chosen, fields |-> r.fields,
                            flags |-> [r.flags EXCEPT ![c.word] = <<c.verb, c.value>>]]
BY WordsApart DEF Whole, SetReport

(* What a flag has beside its word.                                        *)
FlagFits(w, v, x) == IF w \in {"PAGESIZE", "FILE"} THEN v = "IS" ELSE v \in FlagVerbs /\ x = NoRef

LEMMA CommandWords ==
  ASSUME NEW c, IsCommand(c)
  PROVE  /\ c = [word |-> c.word, verb |-> c.verb, value |-> c.value]
         /\ \/ c.word \in FlagWords /\ FlagFits(c.word, c.verb, c.value)
            \/ c.word \in ChosenWords /\ c.verb \in {"NONE", "ALL", "LIST"}
            \/ c.word \in FieldWords /\ c.verb \in FieldVerbs /\ (c.verb \notin {"YES", "NO"} => c.value # NoRef)
<1>1. CASE c.word \in {"PAGESIZE", "FILE"} /\ c.verb = "IS"
  BY <1>1 DEF IsCommand, Command, FlagFits, FlagWords
<1>2. CASE c.word \in FlagWords \ {"PAGESIZE", "FILE"} /\ c.verb \in FlagVerbs /\ c.value = NoRef
  BY <1>2 DEF IsCommand, Command, FlagFits
<1>3. CASE ~(c.word \in {"PAGESIZE", "FILE"} /\ c.verb = "IS")
           /\ ~(c.word \in FlagWords \ {"PAGESIZE", "FILE"} /\ c.verb \in FlagVerbs /\ c.value = NoRef)
  BY <1>3, FieldWordsAre DEF IsCommand, Command, ChosenWords
<1>4. QED
  BY <1>1, <1>2, <1>3

LEMMA SetFieldIs ==
  ASSUME NEW field, IsSetField(field), NEW c, c.verb \in FieldVerbs
  PROVE  /\ IsSetField(SetField(field, c))
         /\ SetField(field, c).enabled =
               IF c.verb \in {"YES", "NO", "PRECISION"} THEN (c.verb # "NO") ELSE field.enabled
         /\ SetField(field, c).precision = IF c.verb = "PRECISION" THEN c.value ELSE field.precision
         /\ SetField(field, c).below = IF c.verb = "BELOW" THEN c.value ELSE field.below
         /\ SetField(field, c).above = IF c.verb = "ABOVE" THEN c.value ELSE field.above
BY DEF SetField, IsSetField, FieldVerbs

LEMMA SetReportWhole ==
  ASSUME NEW r, Whole(r), NEW c, IsCommand(c)
  PROVE  Whole(SetReport(r, c))
<1>1. CASE c.word \in FlagWords
  BY <1>1, SetFlagWord DEF Whole
<1>2. CASE c.word \in ChosenWords
  <2> DEFINE q == SetReport(r, c)
             v == [mode |-> c.verb, ids |-> IF c.verb = "LIST" THEN r.chosen[c.word].ids \union c.value
                                                         ELSE r.chosen[c.word].ids]
  <2>1. q = [flags |-> r.flags, fields |-> r.fields, chosen |-> [r.chosen EXCEPT ![c.word] = v]]
    BY <1>2, SetChosenWord
  <2>v. IsSelection(v)
    BY DEF IsSelection
  <2> HIDE DEF q, v
  <2>2. q.chosen = [r.chosen EXCEPT ![c.word] = v] /\ q.fields = r.fields /\ q.flags = r.flags
        /\ q = [flags |-> q.flags, chosen |-> q.chosen, fields |-> q.fields]
    BY <2>1
  <2>3. DOMAIN q.chosen = ChosenWords /\ \A w \in ChosenWords : IsSelection(q.chosen[w])
    BY <2>2, <2>v DEF Whole
  <2>4. QED
    BY <2>2, <2>3 DEF Whole, q
<1>3. CASE c.word \in FieldWords /\ c.verb \in FieldVerbs
  BY <1>3, SetFieldWord, SetFieldIs DEF Whole
<1>4. QED
  BY <1>1, <1>2, <1>3, CommandWords

(* The law of parts: a command sets a part or leaves it.                   *)
LEMMA SetReportPart ==
  ASSUME NEW r, Whole(r), NEW c, IsCommand(c), NEW a, IsPart(a)
  PROVE  Part(SetReport(r, c), a) = IF Sets(c, a) THEN Says(c, a) ELSE Part(r, a)
<1> DEFINE q == SetReport(r, c)
<1>1. CASE c.word \in FlagWords
  <2>1. q = [chosen |-> r.chosen, fields |-> r.fields, flags |-> [r.flags EXCEPT ![c.word] = <<c.verb, c.value>>]]
    BY <1>1, SetFlagWord
  <2> HIDE DEF q
  <2>2. q.chosen = r.chosen /\ q.fields = r.fields /\ q.flags = [r.flags EXCEPT ![c.word] = <<c.verb, c.value>>]
    BY <2>1
  <2>3. CASE a.word \in FlagWords /\ a.part = "flag"
    <3>1. Part(q, a) = q.flags[a.word] /\ Part(r, a) = r.flags[a.word] /\ Says(c, a) = <<c.verb, c.value>>
      BY <2>3 DEF Part, Says
    <3>2. Sets(c, a) <=> c.word = a.word
      BY <2>3 DEF Sets
    <3>3. DOMAIN r.flags = FlagWords
      BY DEF Whole
    <3>4. QED
      BY <2>2, <2>3, <3>1, <3>2, <3>3 DEF q
  <2>4. CASE ~(a.word \in FlagWords /\ a.part = "flag")
    <3>1. a.part # "flag" /\ a.word # c.word
      BY <1>1, <2>4, WordsApart DEF IsPart, FieldParts
    <3>2. ~Sets(c, a)
      BY <3>1 DEF Sets
    <3>p. a.part \in {"mode", "has"} \/ a.part \in FieldParts
      BY <2>4 DEF IsPart
    <3>3. Part(q, a) = Part(r, a)
      BY <2>2, <3>p DEF Part, FieldParts
    <3>4. QED
      BY <3>2, <3>3 DEF q
  <2>5. QED
    BY <2>3, <2>4
<1>2. CASE c.word \in ChosenWords
  <2> DEFINE v == [mode |-> c.verb, ids |-> IF c.verb = "LIST" THEN r.chosen[c.word].ids \union c.value
                                                         ELSE r.chosen[c.word].ids]
  <2>1. q = [flags |-> r.flags, fields |-> r.fields, chosen |-> [r.chosen EXCEPT ![c.word] = v]]
    BY <1>2, SetChosenWord
  <2>v. v.mode = c.verb /\ v.ids = IF c.verb = "LIST" THEN r.chosen[c.word].ids \union c.value ELSE r.chosen[c.word].ids
    OBVIOUS
  <2> HIDE DEF q, v
  <2>2. q.chosen = [r.chosen EXCEPT ![c.word] = v] /\ q.fields = r.fields /\ q.flags = r.flags
    BY <2>1
  <2>3. CASE a.word = c.word
    <3>1. q.chosen[a.word] = v
      BY <1>2, <2>2, <2>3 DEF Whole
    <3>2. a.part \in {"mode", "has"}
      BY <1>2, <2>3, WordsApart DEF IsPart
    <3>3. CASE a.part = "mode"
      <4>1. Part(q, a) = v.mode /\ Says(c, a) = c.verb
        BY <3>1, <3>3 DEF Part, Says
      <4>2. Sets(c, a)
        BY <2>3, <3>3 DEF Sets
      <4>3. QED
        BY <2>v, <4>1, <4>2 DEF q
    <3>4. CASE a.part = "has"
      <4>1. Part(q, a) = (IF a.item \in v.ids THEN "in" ELSE "out") /\ Says(c, a) = "in"
            /\ Part(r, a) = (IF a.item \in r.chosen[a.word].ids THEN "in" ELSE "out")
        BY <3>1, <3>4 DEF Part, Says
      <4>2. Sets(c, a) <=> c.verb = "LIST" /\ a.item \in c.value
        BY <2>3, <3>4 DEF Sets
      <4>3. QED
        BY <2>3, <2>v, <4>1, <4>2 DEF q
    <3>5. QED
      BY <3>2, <3>3, <3>4
  <2>4. CASE a.word # c.word
    <3>1. ~Sets(c, a)
      BY <2>4 DEF Sets
    <3>2. a.word \in ChosenWords => q.chosen[a.word] = r.chosen[a.word]
      BY <2>2, <2>4 DEF Whole
    <3>3. a.part \in {"mode", "has"} => a.word \in ChosenWords
      BY DEF IsPart, FieldParts
    <3>4. Part(q, a) = Part(r, a)
      <4>1. CASE a.part = "mode"
        BY <3>2, <3>3, <4>1 DEF Part
      <4>2. CASE a.part = "has"
        BY <3>2, <3>3, <4>2 DEF Part
      <4>3. CASE a.part \notin {"mode", "has"}
        BY <2>2, <4>3 DEF IsPart, Part, FieldParts
      <4>4. QED
        BY <4>1, <4>2, <4>3
    <3>5. QED
      BY <3>1, <3>4 DEF q
  <2>5. QED
    BY <2>3, <2>4
<1>3. CASE c.word \in FieldWords /\ c.verb \in FieldVerbs
  <2> DEFINE v == SetField(r.fields[c.word], c)
             w == r.fields[c.word]
  <2>1. q = [flags |-> r.flags, chosen |-> r.chosen, fields |-> [r.fields EXCEPT ![c.word] = v]]
    BY <1>3, SetFieldWord
  <2>v. /\ v.enabled = (IF c.verb \in {"YES", "NO", "PRECISION"} THEN (c.verb # "NO") ELSE w.enabled)
        /\ v.precision = (IF c.verb = "PRECISION" THEN c.value ELSE w.precision)
        /\ v.below = (IF c.verb = "BELOW" THEN c.value ELSE w.below)
        /\ v.above = (IF c.verb = "ABOVE" THEN c.value ELSE w.above)
    BY <1>3, SetFieldIs DEF Whole, w
  <2> HIDE DEF q, v
  <2>2. q.fields = [r.fields EXCEPT ![c.word] = v] /\ q.chosen = r.chosen /\ q.flags = r.flags
    BY <2>1
  <2>3. CASE a.word = c.word
    <3>1. q.fields[a.word] = v /\ r.fields[a.word] = w
      BY <1>3, <2>2, <2>3 DEF Whole
    <3>2. a.part \in FieldParts
      BY <1>3, <2>3, WordsApart DEF IsPart
    <3> HIDE DEF w
    <3>3. CASE a.part = "enabled"
      <4>1. Part(q, a) = v.enabled /\ Part(r, a) = w.enabled /\ Says(c, a) = (c.verb # "NO")
        BY <3>1, <3>3 DEF Part, Says
      <4>2. Sets(c, a) <=> c.verb \in {"YES", "NO", "PRECISION"}
        BY <2>3, <3>3 DEF Sets
      <4>3. QED
        BY <2>v, <4>1, <4>2 DEF q
    <3>4. CASE a.part = "precision"
      <4>1. Part(q, a) = v.precision /\ Part(r, a) = w.precision /\ Says(c, a) = c.value
        BY <3>1, <3>4 DEF Part, Says
      <4>2. Sets(c, a) <=> c.verb = "PRECISION"
        BY <2>3, <3>4 DEF Sets
      <4>3. QED
        BY <2>v, <4>1, <4>2 DEF q
    <3>5. CASE a.part = "below"
      <4>1. Part(q, a) = v.below /\ Part(r, a) = w.below /\ Says(c, a) = c.value
        BY <3>1, <3>5 DEF Part, Says
      <4>2. Sets(c, a) <=> c.verb = "BELOW"
        BY <2>3, <3>5 DEF Sets
      <4>3. QED
        BY <2>v, <4>1, <4>2 DEF q
    <3>6. CASE a.part = "above"
      <4>1. Part(q, a) = v.above /\ Part(r, a) = w.above /\ Says(c, a) = c.value
        BY <3>1, <3>6 DEF Part, Says
      <4>2. Sets(c, a) <=> c.verb = "ABOVE"
        BY <2>3, <3>6 DEF Sets
      <4>3. QED
        BY <2>v, <4>1, <4>2 DEF q
    <3>7. QED
      BY <3>2, <3>3, <3>4, <3>5, <3>6 DEF FieldParts
  <2>4. CASE a.word # c.word
    <3>1. ~Sets(c, a)
      BY <2>4 DEF Sets
    <3>2. a.word \in FieldWords => q.fields[a.word] = r.fields[a.word]
      BY <2>2, <2>4 DEF Whole
    <3>3. a.part \in FieldParts => a.word \in FieldWords
      BY DEF IsPart, FieldParts
    <3>4. Part(q, a) = Part(r, a)
      BY <2>2, <3>2, <3>3 DEF Part, FieldParts
    <3>5. QED
      BY <3>1, <3>4 DEF q
  <2>5. QED
    BY <2>3, <2>4
<1>4. QED
  BY <1>1, <1>2, <1>3, CommandWords

(* Commands, one after the other. *)

Commands(s) == IsList(s) /\ \A c \in Items(s) : IsCommand(c)

LEMMA CommandsAre ==
  ASSUME NEW s, Commands(s)
  PROVE  IsList(s) /\ Len(s) \in Nat /\ \A k \in 1 .. Len(s) : s[k] \in Items(s) /\ IsCommand(s[k])
BY ListIs DEF Commands

LEMMA ReportedAlong ==
  ASSUME NEW r, Whole(r), NEW s, Commands(s)
  PROVE  LET f == ReportedRun(r, s)
         IN  /\ Len(s) \in Nat /\ f[0] = r /\ f[Len(s)] = Reported(r, s)
             /\ \A k \in 0 .. Len(s) : Whole(f[k])
             /\ \A k \in 0 .. Len(s) - 1 : k + 1 \in 1 .. Len(s) /\ f[k + 1] = SetReport(f[k], s[k + 1])
<1> DEFINE f == ReportedRun(r, s)
           n == Len(s)
           T == {k \in Nat : k <= n => Whole(f[k])}
<1>1. n \in Nat /\ \A k \in 1 .. n : IsCommand(s[k])
  BY CommandsAre
<1>2. IsReported(f, r, s, n) /\ Reported(r, s) = f[n]
  BY <1>1, ReportedIsRun
<1> HIDE DEF f, n
<1>3. \A k \in 0 .. n : f[k] = IF k = 0 THEN r ELSE SetReport(f[k - 1], s[k])
  BY <1>2 DEF IsReported
<1>4. f[0] = r
  BY <1>1, <1>3
<1>5. \A k \in 0 .. n - 1 : k + 1 \in 1 .. n /\ f[k + 1] = SetReport(f[k], s[k + 1])
  BY <1>1, <1>3
<1>6. 0 \in T
  BY <1>4
<1>7. \A k \in Nat : k \in T => k + 1 \in T
  BY <1>1, <1>5, SetReportWhole
<1> HIDE DEF T
<1>8. \A k \in Nat : k \in T
  BY <1>6, <1>7, SetInduction
<1>9. \A k \in 0 .. n : Whole(f[k])
  BY <1>1, <1>8 DEF T
<1>10. QED
  BY <1>1, <1>2, <1>4, <1>5, <1>9 DEF f, n

LEMMA ReportedWhole ==
  ASSUME NEW r, Whole(r), NEW s, Commands(s)
  PROVE  Whole(Reported(r, s))
BY ReportedAlong

LEMMA CommandsAppend ==
  ASSUME NEW s, Commands(s), NEW c, IsCommand(c)
  PROVE  Commands(Append(s, c))
BY AppendIs DEF Commands

LEMMA ReportedAppend ==
  ASSUME NEW r, Whole(r), NEW s, Commands(s), NEW c, IsCommand(c)
  PROVE  Reported(r, Append(s, c)) = SetReport(Reported(r, s), c)
<1> DEFINE t == Append(s, c)
           n == Len(s)
           f == ReportedRun(r, s)
           g == ReportedRun(r, t)
<1>1. IsList(s) /\ n \in Nat
  BY CommandsAre
<1>2. Commands(t)
  BY CommandsAppend
<1>3. Len(t) = n + 1 /\ t[n + 1] = c /\ \A i \in 1 .. n : t[i] = s[i]
  BY <1>1, AppendIs
<1> HIDE DEF t
<1>4. f[n] = g[n]
  <2>1. IsReported(f, r, s, n)
    BY <1>1, ReportedIsRun
  <2>2. IsReported(g, r, t, n + 1)
    BY <1>1, <1>3, ReportedIsRun
  <2>3. n \in 0 .. n /\ n + 1 \in Nat /\ n <= n + 1
    BY <1>1
  <2>4. ASSUME NEW F, NEW G, NEW N \in Nat, NEW u, NEW v,
               IsReported(F, r, u, N), IsReported(G, r, v, N + 1), \A i \in 1 .. N : v[i] = u[i]
        PROVE  G[N] = F[N]
    BY <2>4, ReportedUnique
  <2> HIDE DEF f, g, n
  <2>5. \A i \in 1 .. n : t[i] = s[i]
    BY <1>3
  <2>6. g[n] = f[n]
    BY <1>1, <2>1, <2>2, <2>4, <2>5
  <2>7. QED
    BY <2>6
<1>5. f[n] = Reported(r, s)
  BY ReportedAlong
<1>6. g[Len(t)] = Reported(r, t) /\ \A k \in 0 .. Len(t) - 1 : g[k + 1] = SetReport(g[k], t[k + 1])
  BY <1>2, ReportedAlong
<1>7. n \in 0 .. Len(t) - 1
  BY <1>1, <1>3
<1> HIDE DEF f, g, n
<1>8. g[n + 1] = SetReport(g[n], c)
  BY <1>3, <1>6, <1>7
<1>9. QED
  BY <1>3, <1>4, <1>5, <1>6, <1>8 DEF t

(* What no command sets stays; what one of them sets is as the last of     *)
(* them says, wherever they began.                                         *)
LEMMA NoneSets ==
  ASSUME NEW r, Whole(r), NEW s, Commands(s), NEW a, IsPart(a), \A k \in 1 .. Len(s) : ~Sets(s[k], a)
  PROVE  Part(Reported(r, s), a) = Part(r, a)
<1> DEFINE f == ReportedRun(r, s)
           n == Len(s)
           T == {k \in Nat : k <= n => Part(f[k], a) = Part(r, a)}
<1>1. /\ n \in Nat /\ f[0] = r /\ f[n] = Reported(r, s) /\ \A k \in 0 .. n : Whole(f[k])
      /\ \A k \in 0 .. n - 1 : k + 1 \in 1 .. n /\ f[k + 1] = SetReport(f[k], s[k + 1])
  BY ReportedAlong
<1>2. \A k \in 1 .. n : IsCommand(s[k])
  BY CommandsAre
<1> HIDE DEF f, n
<1>3. 0 \in T
  BY <1>1
<1>4. \A k \in Nat : k \in T => k + 1 \in T
  BY <1>1, <1>2, SetReportPart DEF n
<1> HIDE DEF T
<1>5. n \in T
  BY <1>1, <1>3, <1>4, SetInduction
<1>6. QED
  BY <1>1, <1>5 DEF T

LEMMA SameSaid ==
  ASSUME NEW x, Whole(x), NEW y, Whole(y), NEW s, Commands(s), NEW a, IsPart(a),
         Part(x, a) = Part(y, a) \/ \E k \in 1 .. Len(s) : Sets(s[k], a)
  PROVE  Part(Reported(x, s), a) = Part(Reported(y, s), a)
<1> DEFINE f == ReportedRun(x, s)
           g == ReportedRun(y, s)
           n == Len(s)
           Begun(k) == Part(x, a) = Part(y, a) \/ \E i \in 1 .. k : Sets(s[i], a)
           Good(k) == Begun(k) => Part(f[k], a) = Part(g[k], a)
           T == {k \in Nat : k <= n => Good(k)}
<1>1. /\ n \in Nat /\ f[0] = x /\ f[n] = Reported(x, s) /\ \A k \in 0 .. n : Whole(f[k])
      /\ \A k \in 0 .. n - 1 : k + 1 \in 1 .. n /\ f[k + 1] = SetReport(f[k], s[k + 1])
  BY ReportedAlong
<1>2. /\ g[0] = y /\ g[n] = Reported(y, s) /\ \A k \in 0 .. n : Whole(g[k])
      /\ \A k \in 0 .. n - 1 : k + 1 \in 1 .. n /\ g[k + 1] = SetReport(g[k], s[k + 1])
  BY ReportedAlong
<1>3. \A k \in 1 .. n : IsCommand(s[k])
  BY CommandsAre
<1> HIDE DEF f, g, n
<1>4. 0 \in T
  BY <1>1, <1>2
<1>5. \A k \in Nat : k \in T => k + 1 \in T
  <2> SUFFICES ASSUME NEW k \in Nat, k \in T, k + 1 <= n
               PROVE  Good(k + 1)
    <3> HIDE DEF Good
    <3>1. QED
      OBVIOUS
  <2>a. k <= n
    BY <1>1
  <2>b. Good(k)
    BY <2>a
  <2> SUFFICES ASSUME Begun(k + 1)
               PROVE  Part(f[k + 1], a) = Part(g[k + 1], a)
    OBVIOUS
  <2>1. k \in 0 .. n - 1 /\ k \in 0 .. n /\ k + 1 \in 1 .. n
    BY <1>1
  <2>2. /\ f[k + 1] = SetReport(f[k], s[k + 1]) /\ g[k + 1] = SetReport(g[k], s[k + 1])
        /\ IsCommand(s[k + 1]) /\ Whole(f[k]) /\ Whole(g[k])
    BY <1>1, <1>2, <1>3, <2>1
  <2>3. Part(f[k + 1], a) = IF Sets(s[k + 1], a) THEN Says(s[k + 1], a) ELSE Part(f[k], a)
    BY <2>2, SetReportPart
  <2>4. Part(g[k + 1], a) = IF Sets(s[k + 1], a) THEN Says(s[k + 1], a) ELSE Part(g[k], a)
    BY <2>2, SetReportPart
  <2>5. CASE Sets(s[k + 1], a)
    BY <2>3, <2>4, <2>5
  <2>6. CASE ~Sets(s[k + 1], a)
    BY <2>3, <2>4, <2>6, <2>b
  <2>7. QED
    BY <2>5, <2>6
<1> HIDE DEF T
<1>6. n \in T
  BY <1>1, <1>4, <1>5, SetInduction
<1>7. Begun(n)
  BY DEF n
<1>8. Good(n)
  BY <1>1, <1>6 DEF T
<1>9. QED
  BY <1>1, <1>2, <1>7, <1>8

(* Rows that do not set a part can be left out.                            *)
LEMMA DroppedRows ==
  ASSUME NEW r, Whole(r), NEW rows, Commands(rows), NEW S, NEW a, IsPart(a),
         \A k \in (1 .. Len(rows)) \ S : ~Sets(rows[k], a)
  PROVE  Part(Reported(r, Those(rows, S)), a) = Part(Reported(r, rows), a)
<1> DEFINE n == Len(rows)
           q == ThoseRun(S, rows)
           f == ReportedRun(r, rows)
           Good(k) == Commands(q[k]) /\ Part(Reported(r, q[k]), a) = Part(f[k], a)
           T == {k \in Nat : k <= n => Good(k)}
<1>1. n \in Nat /\ \A k \in 1 .. n : IsCommand(rows[k])
  BY CommandsAre
<1>2. IsThose(q, S, rows, n) /\ Those(rows, S) = q[n]
  BY <1>1, ThoseIsRun
<1>3. /\ f[0] = r /\ f[n] = Reported(r, rows) /\ \A k \in 0 .. n : Whole(f[k])
      /\ \A k \in 0 .. n - 1 : k + 1 \in 1 .. n /\ f[k + 1] = SetReport(f[k], rows[k + 1])
  BY ReportedAlong
<1> HIDE DEF q, f, n
<1>4. \A k \in 0 .. n : q[k] = IF k = 0 THEN <<>> ELSE IF k \in S THEN Append(q[k - 1], rows[k]) ELSE q[k - 1]
  BY <1>2 DEF IsThose
<1>5. 0 \in T
  <2>1. q[0] = <<>>
    BY <1>1, <1>4
  <2>2. Commands(<<>>) /\ Len(<<>>) = 0
    BY EmptyIsList DEF Commands
  <2>3. Reported(r, <<>>) = r
    <3>1. ReportedRun(r, <<>>)[0] = r /\ ReportedRun(r, <<>>)[Len(<<>>)] = Reported(r, <<>>)
      BY <2>2, ReportedAlong
    <3>2. QED
      BY <2>2, <3>1
  <2>4. QED
    BY <1>3, <2>1, <2>2, <2>3
<1>6. \A k \in Nat : k \in T => k + 1 \in T
  <2> SUFFICES ASSUME NEW k \in Nat, k \in T, k + 1 <= n
               PROVE  Good(k + 1)
    OBVIOUS
  <2>1. k \in 0 .. n - 1 /\ k \in 0 .. n /\ k + 1 \in 1 .. n /\ k + 1 \in 0 .. n /\ (k + 1) - 1 = k /\ k + 1 # 0 /\ k <= n
    BY <1>1
  <2>2. Commands(q[k]) /\ Part(Reported(r, q[k]), a) = Part(f[k], a)
    BY <2>1
  <2>3. f[k + 1] = SetReport(f[k], rows[k + 1]) /\ IsCommand(rows[k + 1]) /\ Whole(f[k])
    BY <1>1, <1>3, <2>1
  <2>4. Part(f[k + 1], a) = IF Sets(rows[k + 1], a) THEN Says(rows[k + 1], a) ELSE Part(f[k], a)
    BY <2>3, SetReportPart
  <2>5. CASE k + 1 \in S
    <3>1. q[k + 1] = Append(q[k], rows[k + 1])
      BY <1>4, <2>1, <2>5
    <3>2. Reported(r, q[k + 1]) = SetReport(Reported(r, q[k]), rows[k + 1])
      BY <2>2, <2>3, <3>1, ReportedAppend
    <3>3. Whole(Reported(r, q[k]))
      BY <2>2, ReportedWhole
    <3>4. Part(Reported(r, q[k + 1]), a) = IF Sets(rows[k + 1], a) THEN Says(rows[k + 1], a) ELSE Part(Reported(r, q[k]), a)
      BY <2>3, <3>2, <3>3, SetReportPart
    <3>5. Commands(q[k + 1])
      BY <2>2, <2>3, <3>1, CommandsAppend
    <3>6. QED
      BY <2>2, <2>4, <3>4, <3>5
  <2>6. CASE k + 1 \notin S
    <3>1. q[k + 1] = q[k]
      BY <1>4, <2>1, <2>6
    <3>2. ~Sets(rows[k + 1], a)
      BY <2>1, <2>6 DEF n
    <3>3. QED
      BY <2>2, <2>4, <3>1, <3>2
  <2>7. QED
    BY <2>5, <2>6
<1> HIDE DEF T
<1>7. n \in T
  BY <1>1, <1>5, <1>6, SetInduction
<1>8. Good(n)
  BY <1>1, <1>7 DEF T
<1>9. QED
  BY <1>2, <1>3, <1>8

LEMMA CommandsThose ==
  ASSUME NEW rows, Commands(rows), NEW S
  PROVE  Commands(Those(rows, S))
BY CommandsAre, ThoseAre DEF Commands

(* Commands with one key set the same parts: what the exporter drops for a *)
(* backend command is overruled by that command.                           *)
LEMMA KeysDecide ==
  ASSUME NEW c, IsCommand(c), NEW d, IsCommand(d), ReportCommandKey(c) = ReportCommandKey(d), NEW a, IsPart(a), Sets(d, a)
  PROVE  Sets(c, a)
<1> DEFINE V == {"YES", "NO", "PRECISION", "BELOW", "ABOVE"}
<1>1. \A x, y, z, u, v, w : <<x, y>> # <<u>> /\ <<x, y>> # <<u, v, w>> /\ <<u>> # <<x, y, z>>
  OBVIOUS
<1>2. \A x : ReportCommandKey(x) = IF x.verb \in V THEN <<x.word, x.verb>>
                                   ELSE IF x.word = "FILE" THEN <<x.word>> ELSE <<x.word, x.verb, x.value>>
  BY DEF ReportCommandKey
<1>3. CASE c.verb \in V
  <2>1. d.verb \in V
    <3>1. ReportCommandKey(c) = <<c.word, c.verb>>
      BY <1>2, <1>3
    <3>2. CASE d.verb \notin V /\ d.word = "FILE"
      BY <1>1, <1>2, <3>1, <3>2
    <3>3. CASE d.verb \notin V /\ d.word # "FILE"
      BY <1>1, <1>2, <3>1, <3>3
    <3>4. QED
      BY <3>2, <3>3
  <2>2. c.word = d.word /\ c.verb = d.verb
    BY <1>2, <1>3, <2>1
  <2>3. d.verb # "LIST"
    BY <2>1
  <2>4. QED
    BY <2>2, <2>3 DEF Sets
<1>4. CASE c.verb \notin V /\ c.word = "FILE"
  <2>1. d.verb \notin V /\ d.word = "FILE"
    <3>1. ReportCommandKey(c) = <<c.word>>
      BY <1>2, <1>4
    <3>2. CASE d.verb \in V
      BY <1>1, <1>2, <3>1, <3>2
    <3>3. CASE d.verb \notin V /\ d.word # "FILE"
      BY <1>1, <1>2, <3>1, <3>3
    <3>4. QED
      BY <3>2, <3>3
  <2>2. a.word = "FILE"
    BY <2>1 DEF Sets
  <2>3. a.part = "flag"
    BY <2>2 DEF IsPart, ChosenWords, FieldWords
  <2>4. QED
    BY <1>4, <2>2, <2>3 DEF Sets
<1>5. CASE c.verb \notin V /\ c.word # "FILE"
  <2>1. d.verb \notin V /\ d.word # "FILE"
    <3>1. ReportCommandKey(c) = <<c.word, c.verb, c.value>>
      BY <1>2, <1>5
    <3>2. CASE d.verb \in V
      BY <1>1, <1>2, <3>1, <3>2
    <3>3. CASE d.verb \notin V /\ d.word = "FILE"
      BY <1>1, <1>2, <3>1, <3>3
    <3>4. QED
      BY <3>2, <3>3
  <2>2. c.word = d.word /\ c.verb = d.verb /\ c.value = d.value
    BY <1>2, <1>5, <2>1
  <2>3. QED
    BY <2>2 DEF Sets
<1>6. QED
  BY <1>3, <1>4, <1>5

LEMMA PreserveIs ==
  ASSUME NEW r, Whole(r), NEW rows, Commands(rows), NEW c, IsCommand(c)
  PROVE  /\ Commands(Preserve(rows, c))
         /\ \A a : IsPart(a) => Part(Reported(r, Preserve(rows, c)), a)
                                   = IF Sets(c, a) THEN Says(c, a) ELSE Part(Reported(r, rows), a)
<1> DEFINE S == {k \in DOMAIN rows : ReportCommandKey(rows[k]) # ReportCommandKey(c)}
           kept == Those(rows, S)
<1>1. Preserve(rows, c) = Append(kept, c)
  BY DEF Preserve
<1>2. Commands(kept)
  BY CommandsThose
<1>3. Commands(Append(kept, c))
  BY <1>2, CommandsAppend
<1>4. DOMAIN rows = 1 .. Len(rows) /\ \A k \in 1 .. Len(rows) : IsCommand(rows[k])
  BY CommandsAre, ListIs
<1>5. ASSUME NEW a, IsPart(a)
      PROVE  Part(Reported(r, Preserve(rows, c)), a) = IF Sets(c, a) THEN Says(c, a) ELSE Part(Reported(r, rows), a)
  <2> HIDE DEF kept
  <2>1. Reported(r, Append(kept, c)) = SetReport(Reported(r, kept), c) /\ Whole(Reported(r, kept))
    BY <1>2, ReportedAppend, ReportedWhole
  <2>2. Part(Reported(r, Append(kept, c)), a) = IF Sets(c, a) THEN Says(c, a) ELSE Part(Reported(r, kept), a)
    BY <1>5, <2>1, SetReportPart
  <2>3. ASSUME ~Sets(c, a)
        PROVE  Part(Reported(r, kept), a) = Part(Reported(r, rows), a)
    <3>1. \A k \in (1 .. Len(rows)) \ S : ~Sets(rows[k], a)
      BY <1>4, <1>5, <2>3, KeysDecide
    <3> HIDE DEF S
    <3>2. QED
      BY <1>5, <3>1, DroppedRows DEF kept
  <2>4. QED
    BY <1>1, <2>2, <2>3
<1>6. QED
  BY <1>1, <1>3, <1>5

(* The rows with the backend's commands among them mean what the backend's *)
(* commands would make of the rows.                                        *)
LEMMA PreserveBackendIs ==
  ASSUME NEW r, Whole(r), NEW rows, Commands(rows), NEW s, Commands(s)
  PROVE  /\ Commands(PreserveBackendReportCommands(rows, s))
         /\ \A a : IsPart(a) => Part(Reported(r, PreserveBackendReportCommands(rows, s)), a)
                                   = Part(Reported(Reported(r, rows), s), a)
<1> DEFINE n == Len(s)
           h == PreserveBackendReportCommandsRun(rows, s)
           base == Reported(r, rows)
           f == ReportedRun(base, s)
           Good(k) == Commands(h[k]) /\ \A a : IsPart(a) => Part(Reported(r, h[k]), a) = Part(f[k], a)
           T == {k \in Nat : k <= n => Good(k)}
<1>1. n \in Nat /\ \A k \in 1 .. n : IsCommand(s[k])
  BY CommandsAre
<1>2. IsPreserveBackendReportCommands(h, rows, s, n) /\ PreserveBackendReportCommands(rows, s) = h[n]
  BY <1>1, PreserveBackendReportCommandsIsRun
<1>b. Whole(base)
  BY ReportedWhole
<1> HIDE DEF base
<1>3. /\ f[0] = base /\ f[n] = Reported(base, s) /\ \A k \in 0 .. n : Whole(f[k])
      /\ \A k \in 0 .. n - 1 : k + 1 \in 1 .. n /\ f[k + 1] = SetReport(f[k], s[k + 1])
  BY <1>b, ReportedAlong
<1> HIDE DEF h, f, n
<1>4. \A k \in 0 .. n : h[k] = IF k = 0 THEN rows ELSE Preserve(h[k - 1], s[k])
  BY <1>2 DEF IsPreserveBackendReportCommands
<1>5. 0 \in T
  BY <1>1, <1>3, <1>4 DEF base
<1>6. \A k \in Nat : k \in T => k + 1 \in T
  <2> SUFFICES ASSUME NEW k \in Nat, k \in T, k + 1 <= n
               PROVE  Good(k + 1)
    OBVIOUS
  <2>1. k \in 0 .. n - 1 /\ k \in 0 .. n /\ k + 1 \in 1 .. n /\ k + 1 \in 0 .. n /\ (k + 1) - 1 = k /\ k + 1 # 0 /\ k <= n
    BY <1>1
  <2>2. Good(k)
    BY <2>1
  <2>3. f[k + 1] = SetReport(f[k], s[k + 1]) /\ IsCommand(s[k + 1]) /\ Whole(f[k])
    BY <1>1, <1>3, <2>1
  <2>4. h[k + 1] = Preserve(h[k], s[k + 1])
    BY <1>4, <2>1
  <2>5. Commands(h[k + 1])
    BY <2>2, <2>3, <2>4, PreserveIs
  <2>6. ASSUME NEW a, IsPart(a)
        PROVE  Part(Reported(r, h[k + 1]), a) = Part(f[k + 1], a)
    <3>1. Part(f[k + 1], a) = IF Sets(s[k + 1], a) THEN Says(s[k + 1], a) ELSE Part(f[k], a)
      BY <2>3, <2>6, SetReportPart
    <3>2. Part(Reported(r, h[k + 1]), a) = IF Sets(s[k + 1], a) THEN Says(s[k + 1], a) ELSE Part(Reported(r, h[k]), a)
      <4> DEFINE c == s[k + 1]
                 x == h[k]
      <4>1. Commands(x) /\ IsCommand(c)
        BY <2>2, <2>3
      <4> HIDE DEF c, x
      <4>2. Part(Reported(r, Preserve(x, c)), a) = IF Sets(c, a) THEN Says(c, a) ELSE Part(Reported(r, x), a)
        BY <2>6, <4>1, PreserveIs
      <4>3. QED
        BY <2>4, <4>2 DEF c, x
    <3>3. QED
      BY <2>2, <2>6, <3>1, <3>2
  <2>7. QED
    BY <2>5, <2>6
<1> HIDE DEF T
<1>7. n \in T
  BY <1>1, <1>5, <1>6, SetInduction
<1>8. Good(n)
  BY <1>1, <1>7 DEF T
<1>9. QED
  BY <1>2, <1>3, <1>8 DEF base

LEMMA CommandsJoin ==
  ASSUME NEW s, NEW t, Commands(s), Commands(t)
  PROVE  Commands(s \o t)
BY ConcatIs DEF Commands

LEMMA ReportedConcat ==
  ASSUME NEW r, Whole(r), NEW s, Commands(s), NEW t, Commands(t)
  PROVE  Reported(r, s \o t) = Reported(Reported(r, s), t)
<1> DEFINE w == s \o t
           a == Len(s)
           m == Len(t)
           f == ReportedRun(r, s)
           g == ReportedRun(r, w)
           p == Reported(r, s)
           h == ReportedRun(p, t)
           T == {k \in Nat : k <= m => g[a + k] = h[k]}
<1>1. IsList(s) /\ IsList(t) /\ a \in Nat /\ m \in Nat
  BY CommandsAre
<1>2. Commands(w)
  BY CommandsJoin
<1>3. Len(w) = a + m
  BY <1>1, ConcatIs
<1>4. \A i \in 1 .. a : w[i] = s[i]
  BY <1>1, ConcatIs
<1>5. \A i \in 1 .. m : w[a + i] = t[i]
  BY <1>1, ConcatIs
<1> HIDE DEF w
<1>6. IsReported(f, r, s, a) /\ IsReported(g, r, w, a + m) /\ f[a] = p
  BY <1>1, <1>3, ReportedIsRun
<1>7. g[a] = p
  <2>1. ASSUME NEW F, NEW G, NEW A \in Nat, NEW M \in Nat, A <= M, NEW u, NEW v,
               IsReported(F, r, u, A), IsReported(G, r, v, M), \A i \in 1 .. A : v[i] = u[i]
        PROVE  G[A] = F[A]
    BY <2>1, ReportedUnique
  <2> HIDE DEF f, g, a, m, p
  <2>2. Len(w) \in Nat /\ a <= Len(w) /\ IsReported(g, r, w, Len(w))
    BY <1>1, <1>3, <1>6
  <2>3. g[a] = f[a]
    BY <1>1, <1>4, <1>6, <2>1, <2>2
  <2>4. QED
    BY <1>6, <2>3
<1>8. Whole(p)
  BY ReportedWhole
<1>9. g[Len(w)] = Reported(r, w) /\ \A k \in 0 .. Len(w) - 1 : g[k + 1] = SetReport(g[k], w[k + 1])
  BY <1>2, ReportedAlong
<1> HIDE DEF p
<1>10. h[0] = p /\ h[m] = Reported(p, t) /\ \A k \in 0 .. m - 1 : h[k + 1] = SetReport(h[k], t[k + 1])
  BY <1>8, ReportedAlong
<1> HIDE DEF f, g, h, a, m
<1>11. 0 \in T
  BY <1>1, <1>7, <1>10
<1>12. \A k \in Nat : k \in T => k + 1 \in T
  <2> SUFFICES ASSUME NEW k \in Nat, k \in T, k + 1 <= m
               PROVE  g[a + (k + 1)] = h[k + 1]
    OBVIOUS
  <2>1. g[a + k] = h[k] /\ k \in 0 .. m - 1 /\ a + k \in 0 .. Len(w) - 1 /\ (a + k) + 1 = a + (k + 1) /\ k + 1 \in 1 .. m
    BY <1>1, <1>3
  <2>2. g[a + (k + 1)] = SetReport(g[a + k], w[a + (k + 1)])
    BY <1>9, <2>1
  <2>3. w[a + (k + 1)] = t[k + 1]
    BY <1>5, <2>1
  <2>4. h[k + 1] = SetReport(h[k], t[k + 1])
    BY <1>10, <2>1
  <2>5. QED
    BY <2>1, <2>2, <2>3, <2>4
<1> HIDE DEF T
<1>13. m \in T
  BY <1>1, <1>11, <1>12, SetInduction
<1>14. g[a + m] = h[m]
  BY <1>1, <1>13 DEF T
<1>15. QED
  BY <1>3, <1>9, <1>10, <1>14 DEF p, w

(* What all that set a part say of it, it is.                              *)
LEMMA AllSay ==
  ASSUME NEW r, Whole(r), NEW s, Commands(s), NEW a, IsPart(a), NEW v,
         \E c \in Items(s) : Sets(c, a), \A c \in Items(s) : Sets(c, a) => Says(c, a) = v
  PROVE  Part(Reported(r, s), a) = v
<1> DEFINE f == ReportedRun(r, s)
           n == Len(s)
           Begun(k) == \E i \in 1 .. k : Sets(s[i], a)
           Good(k) == Begun(k) => Part(f[k], a) = v
           T == {k \in Nat : k <= n => Good(k)}
<1>1. /\ n \in Nat /\ f[0] = r /\ f[n] = Reported(r, s) /\ \A k \in 0 .. n : Whole(f[k])
      /\ \A k \in 0 .. n - 1 : k + 1 \in 1 .. n /\ f[k + 1] = SetReport(f[k], s[k + 1])
  BY ReportedAlong
<1>2. \A k \in 1 .. n : IsCommand(s[k]) /\ s[k] \in Items(s)
  BY CommandsAre
<1> HIDE DEF f, n
<1>3. 0 \in T
  BY <1>1
<1>4. \A k \in Nat : k \in T => k + 1 \in T
  <2> SUFFICES ASSUME NEW k \in Nat, k \in T, k + 1 <= n, Begun(k + 1)
               PROVE  Part(f[k + 1], a) = v
    OBVIOUS
  <2>1. k \in 0 .. n - 1 /\ k \in 0 .. n /\ k + 1 \in 1 .. n /\ (Begun(k) => Part(f[k], a) = v)
    BY <1>1
  <2>2. f[k + 1] = SetReport(f[k], s[k + 1]) /\ IsCommand(s[k + 1]) /\ Whole(f[k]) /\ s[k + 1] \in Items(s)
    BY <1>1, <1>2, <2>1
  <2>3. Part(SetReport(f[k], s[k + 1]), a) = IF Sets(s[k + 1], a) THEN Says(s[k + 1], a) ELSE Part(f[k], a)
    BY <2>2, SetReportPart
  <2>4. CASE Sets(s[k + 1], a)
    BY <2>2, <2>3, <2>4
  <2>5. CASE ~Sets(s[k + 1], a)
    BY <2>1, <2>2, <2>3, <2>5
  <2>6. QED
    BY <2>4, <2>5
<1> HIDE DEF T
<1>5. n \in T
  BY <1>1, <1>3, <1>4, SetInduction
<1>6. Begun(n)
  BY ListIs DEF Commands, n
<1> HIDE DEF Begun
<1>7. Good(n)
  BY <1>1, <1>5 DEF T
<1>8. QED
  BY <1>1, <1>6, <1>7

LEMMA NoneOf ==
  ASSUME NEW r, Whole(r), NEW s, Commands(s), NEW a, IsPart(a), \A c \in Items(s) : ~Sets(c, a)
  PROVE  Part(Reported(r, s), a) = Part(r, a)
BY CommandsAre, NoneSets

LEMMA NewReportIs ==
  /\ Whole(NewReport)
  /\ \A w \in FlagWords : NewReport.flags[w] = <<>>
  /\ \A w \in ChosenWords : NewReport.chosen[w] = [mode |-> "NONE", ids |-> {}]
  /\ \A w \in FieldWords : /\ NewReport.fields[w].enabled \in BOOLEAN
                           /\ NewReport.fields[w].precision = IF w = "F-FACTOR" THEN 3 ELSE 2
                           /\ NewReport.fields[w].below = NoRef /\ NewReport.fields[w].above = NoRef
<1> DEFINE flags == [word \in FlagWords |-> <<>>]
           chosen == [word \in {"NODES", "LINKS"} |-> [mode |-> "NONE", ids |-> {}]]
           fields == DefaultFields
<1>1. NewReport = [flags |-> flags, chosen |-> chosen, fields |-> fields]
  BY DEF NewReport
<1>2. fields = [word \in FieldWords |->
                  [enabled |-> word \in ShownByDefault, precision |-> IF word = "F-FACTOR" THEN 3 ELSE 2,
                   below |-> NoRef, above |-> NoRef]]
  BY FieldWordsAre DEF DefaultFields
<1> HIDE DEF fields
<1>3. DOMAIN fields = FieldWords /\ \A w \in FieldWords : IsSetField(fields[w])
  <2>1. DOMAIN fields = FieldWords
    BY <1>2
  <2>2. ASSUME NEW w \in FieldWords PROVE IsSetField(fields[w])
    BY <1>2 DEF IsSetField
  <2>3. QED
    BY <2>1, <2>2
<1>4. \A w \in FieldWords : /\ fields[w].enabled \in BOOLEAN
                            /\ fields[w].precision = IF w = "F-FACTOR" THEN 3 ELSE 2
                            /\ fields[w].below = NoRef /\ fields[w].above = NoRef
  <2> SUFFICES ASSUME NEW w \in FieldWords
               PROVE  /\ fields[w].enabled \in BOOLEAN
                      /\ fields[w].precision = IF w = "F-FACTOR" THEN 3 ELSE 2
                      /\ fields[w].below = NoRef /\ fields[w].above = NoRef
    OBVIOUS
  <2> DEFINE e == w \in ShownByDefault
             d == IF w = "F-FACTOR" THEN 3 ELSE 2
  <2>1. e \in BOOLEAN
    OBVIOUS
  <2>2. fields[w] = [enabled |-> e, precision |-> d, below |-> NoRef, above |-> NoRef]
    BY <1>2
  <2> HIDE DEF e, d
  <2>3. fields[w].enabled = e /\ fields[w].precision = d /\ fields[w].below = NoRef /\ fields[w].above = NoRef
    BY <2>2
  <2>4. QED
    BY <2>1, <2>3 DEF d
<1>5. DOMAIN flags = FlagWords /\ flags = [w \in FlagWords |-> flags[w]] /\ \A w \in FlagWords : flags[w] = <<>>
  OBVIOUS
<1>6. DOMAIN chosen = ChosenWords /\ \A w \in ChosenWords : chosen[w] = [mode |-> "NONE", ids |-> {}] /\ IsSelection(chosen[w])
  BY DEF ChosenWords, IsSelection
<1> HIDE DEF flags, chosen, fields
<1>7. NewReport.flags = flags /\ NewReport.chosen = chosen /\ NewReport.fields = fields
  BY <1>1
<1>8. NewReport = [flags |-> NewReport.flags, chosen |-> NewReport.chosen, fields |-> NewReport.fields]
  BY <1>1, <1>7
<1>9. Whole(NewReport)
  BY <1>3, <1>5, <1>6, <1>7, <1>8 DEF Whole
<1>10. QED
  BY <1>4, <1>5, <1>6, <1>7, <1>9

-----------------------------------------------------------------------------
(* Rows that say what a field is, and what becomes of it. *)

Writes(s, w, field) ==
    /\ \A c \in Items(s) : c.word = w =>
          /\ field.enabled <=> c.verb # "NO"
          /\ c.verb = "PRECISION" => c.value = field.precision
          /\ c.verb = "BELOW" => c.value = field.below
          /\ c.verb = "ABOVE" => c.value = field.above
    /\ \E c \in Items(s) : c.word = w /\ c.verb \in {"YES", "NO", "PRECISION"}
    /\ field.enabled /\ field.precision # NoRef => \E c \in Items(s) : c.word = w /\ c.verb = "PRECISION"
    /\ field.enabled /\ field.below # NoRef => \E c \in Items(s) : c.word = w /\ c.verb = "BELOW"
    /\ field.enabled /\ field.above # NoRef => \E c \in Items(s) : c.word = w /\ c.verb = "ABOVE"

LEMMA WritesWithin ==
  ASSUME NEW s, NEW t, NEW w, NEW field, \A c : c.word = w => (c \in Items(s) <=> c \in Items(t)), Writes(t, w, field)
  PROVE  Writes(s, w, field)
BY DEF Writes

FieldPart(w, part) == [word |-> w, part |-> part, item |-> NoRef]

LEMMA FieldPartIs ==
  ASSUME NEW w \in FieldWords, NEW part \in FieldParts
  PROVE  IsPart(FieldPart(w, part)) /\ FieldPart(w, part).word = w /\ FieldPart(w, part).part = part
BY DEF IsPart, FieldPart

LEMMA FieldPartsOf ==
  ASSUME NEW r, NEW w
  PROVE  /\ Part(r, FieldPart(w, "enabled")) = r.fields[w].enabled
         /\ Part(r, FieldPart(w, "precision")) = r.fields[w].precision
         /\ Part(r, FieldPart(w, "below")) = r.fields[w].below
         /\ Part(r, FieldPart(w, "above")) = r.fields[w].above
BY DEF Part, FieldPart

LEMMA FieldWordCommand ==
  ASSUME NEW c, IsCommand(c), c.word \in FieldWords
  PROVE  c.verb \in FieldVerbs /\ (c.verb \notin {"YES", "NO"} => c.value # NoRef)
BY CommandWords, WordsApart

LEMMA EnabledIsWritten ==
  ASSUME NEW r, Whole(r), NEW s, Commands(s), NEW w \in FieldWords, NEW field, field.enabled \in BOOLEAN, Writes(s, w, field)
  PROVE  Reported(r, s).fields[w].enabled = field.enabled
<1> DEFINE a == FieldPart(w, "enabled")
           v == field.enabled
<1>1. IsPart(a) /\ a.word = w /\ a.part = "enabled"
  BY FieldPartIs DEF FieldParts
<1>2. Part(Reported(r, s), a) = Reported(r, s).fields[w].enabled
  BY FieldPartsOf
<1> HIDE DEF a
<1>3. \E c \in Items(s) : Sets(c, a)
  BY <1>1 DEF Writes, Sets
<1>4. ASSUME NEW c \in Items(s), Sets(c, a)
      PROVE  Says(c, a) = v
  BY <1>1, <1>4 DEF Sets, Writes, Says
<1> HIDE DEF v
<1>5. \A c \in Items(s) : Sets(c, a) => Says(c, a) = v
  BY <1>4
<1>6. Part(Reported(r, s), a) = v
  BY <1>1, <1>3, <1>5, AllSay
<1>7. QED
  BY <1>2, <1>6 DEF v

LEMMA PrecisionIsWritten ==
  ASSUME NEW r, Whole(r), NEW s, Commands(s), NEW w \in FieldWords, NEW field, Writes(s, w, field), field.enabled
  PROVE  Reported(r, s).fields[w].precision = IF field.precision = NoRef THEN r.fields[w].precision ELSE field.precision
<1> DEFINE a == FieldPart(w, "precision")
           v == field.precision
<1>1. IsPart(a) /\ a.word = w /\ a.part = "precision"
  BY FieldPartIs DEF FieldParts
<1>2. Part(Reported(r, s), a) = Reported(r, s).fields[w].precision /\ Part(r, a) = r.fields[w].precision
  BY FieldPartsOf
<1> HIDE DEF a
<1>3. \A c \in Items(s) : Sets(c, a) <=> c.word = w /\ c.verb = "PRECISION"
  BY <1>1 DEF Sets
<1>4. \A c \in Items(s) : Sets(c, a) => Says(c, a) = v
  BY <1>1, <1>3 DEF Says, Writes
<1>5. CASE field.precision # NoRef
  <2>1. \E c \in Items(s) : Sets(c, a)
    BY <1>3, <1>5 DEF Writes
  <2> HIDE DEF v
  <2>2. Part(Reported(r, s), a) = v
    BY <1>1, <1>4, <2>1, AllSay
  <2>3. QED
    BY <1>2, <1>5, <2>2 DEF v
<1>6. CASE field.precision = NoRef
  <2>1. \A c \in Items(s) : ~Sets(c, a)
    BY <1>3, <1>6, FieldWordCommand DEF Commands, Writes
  <2>2. Part(Reported(r, s), a) = Part(r, a)
    BY <1>1, <2>1, NoneOf
  <2>3. QED
    BY <1>2, <1>6, <2>2
<1>7. QED
  BY <1>5, <1>6

LEMMA BelowIsWritten ==
  ASSUME NEW r, Whole(r), NEW s, Commands(s), NEW w \in FieldWords, NEW field, Writes(s, w, field), field.enabled
  PROVE  Reported(r, s).fields[w].below = IF field.below = NoRef THEN r.fields[w].below ELSE field.below
<1> DEFINE a == FieldPart(w, "below")
           v == field.below
<1>1. IsPart(a) /\ a.word = w /\ a.part = "below"
  BY FieldPartIs DEF FieldParts
<1>2. Part(Reported(r, s), a) = Reported(r, s).fields[w].below /\ Part(r, a) = r.fields[w].below
  BY FieldPartsOf
<1> HIDE DEF a
<1>3. \A c \in Items(s) : Sets(c, a) <=> c.word = w /\ c.verb = "BELOW"
  BY <1>1 DEF Sets
<1>4. \A c \in Items(s) : Sets(c, a) => Says(c, a) = v
  BY <1>1, <1>3 DEF Says, Writes
<1>5. CASE field.below # NoRef
  <2>1. \E c \in Items(s) : Sets(c, a)
    BY <1>3, <1>5 DEF Writes
  <2> HIDE DEF v
  <2>2. Part(Reported(r, s), a) = v
    BY <1>1, <1>4, <2>1, AllSay
  <2>3. QED
    BY <1>2, <1>5, <2>2 DEF v
<1>6. CASE field.below = NoRef
  <2>1. \A c \in Items(s) : ~Sets(c, a)
    BY <1>3, <1>6, FieldWordCommand DEF Commands, Writes
  <2>2. Part(Reported(r, s), a) = Part(r, a)
    BY <1>1, <2>1, NoneOf
  <2>3. QED
    BY <1>2, <1>6, <2>2
<1>7. QED
  BY <1>5, <1>6

LEMMA AboveIsWritten ==
  ASSUME NEW r, Whole(r), NEW s, Commands(s), NEW w \in FieldWords, NEW field, Writes(s, w, field), field.enabled
  PROVE  Reported(r, s).fields[w].above = IF field.above = NoRef THEN r.fields[w].above ELSE field.above
<1> DEFINE a == FieldPart(w, "above")
           v == field.above
<1>1. IsPart(a) /\ a.word = w /\ a.part = "above"
  BY FieldPartIs DEF FieldParts
<1>2. Part(Reported(r, s), a) = Reported(r, s).fields[w].above /\ Part(r, a) = r.fields[w].above
  BY FieldPartsOf
<1> HIDE DEF a
<1>3. \A c \in Items(s) : Sets(c, a) <=> c.word = w /\ c.verb = "ABOVE"
  BY <1>1 DEF Sets
<1>4. \A c \in Items(s) : Sets(c, a) => Says(c, a) = v
  BY <1>1, <1>3 DEF Says, Writes
<1>5. CASE field.above # NoRef
  <2>1. \E c \in Items(s) : Sets(c, a)
    BY <1>3, <1>5 DEF Writes
  <2> HIDE DEF v
  <2>2. Part(Reported(r, s), a) = v
    BY <1>1, <1>4, <2>1, AllSay
  <2>3. QED
    BY <1>2, <1>5, <2>2 DEF v
<1>6. CASE field.above = NoRef
  <2>1. \A c \in Items(s) : ~Sets(c, a)
    BY <1>3, <1>6, FieldWordCommand DEF Commands, Writes
  <2>2. Part(Reported(r, s), a) = Part(r, a)
    BY <1>1, <2>1, NoneOf
  <2>3. QED
    BY <1>2, <1>6, <2>2
<1>7. QED
  BY <1>5, <1>6

LEMMA CommandIs ==
  ASSUME NEW w, NEW verb, NEW v
  PROVE  Command(w, verb, v).word = w /\ Command(w, verb, v).verb = verb /\ Command(w, verb, v).value = v
BY DEF Command

LEMMA FieldCommandIs ==
  ASSUME NEW w \in FieldWords, NEW verb \in FieldVerbs, NEW v, verb \in {"YES", "NO"} \/ v # NoRef
  PROVE  IsCommand(Command(w, verb, v))
BY CommandIs, FieldWordsAre DEF IsCommand

LEMMA FlagCommandIs ==
  ASSUME NEW w \in FlagWords, NEW verb, NEW v, FlagFits(w, verb, v)
  PROVE  IsCommand(Command(w, verb, v))
BY CommandIs DEF IsCommand, FlagFits

LEMMA ChosenCommandIs ==
  ASSUME NEW w \in ChosenWords, NEW verb \in {"NONE", "ALL", "LIST"}, NEW v
  PROVE  IsCommand(Command(w, verb, v))
BY CommandIs DEF IsCommand, ChosenWords

(* The rows of a field.                                                    *)
LEMMA GivenWrites ==
  ASSUME NEW w \in FieldWords, NEW verb \in {"PRECISION", "BELOW", "ABOVE"}, NEW v
  PROVE  \A c \in Items(Given(w, verb, v)) : IsCommand(c) /\ c.word = w /\ c.verb = verb /\ c.value = v
<1>1. CASE v = NoRef
  BY <1>1, GivenIs
<1>2. CASE v # NoRef
  BY <1>2, GivenIs, FieldCommandIs, CommandIs DEF FieldVerbs
<1>3. QED
  BY <1>1, <1>2

LEMMA FieldCommandsWrite ==
  ASSUME NEW w \in FieldWords, NEW field, field.enabled \in BOOLEAN
  PROVE  /\ Commands(FieldCommands(w, field)) /\ \A c \in Items(FieldCommands(w, field)) : c.word = w
         /\ Writes(FieldCommands(w, field), w, field)
<1> DEFINE s == FieldCommands(w, field)
           yes == Command(w, "YES", NoRef)
           no == Command(w, "NO", NoRef)
           p == Items(Given(w, "PRECISION", field.precision))
           b == Items(Given(w, "BELOW", field.below))
           u == Items(Given(w, "ABOVE", field.above))
<1>1. IsList(s) /\ Items(s) = IF ~field.enabled THEN {no} ELSE {yes} \union p \union b \union u
  BY FieldCommandsAre
<1>2. IsCommand(yes) /\ yes.word = w /\ yes.verb = "YES"
  BY FieldCommandIs, CommandIs DEF FieldVerbs
<1>3. IsCommand(no) /\ no.word = w /\ no.verb = "NO"
  BY FieldCommandIs, CommandIs DEF FieldVerbs
<1>4. \A c \in p : IsCommand(c) /\ c.word = w /\ c.verb = "PRECISION" /\ c.value = field.precision
  BY GivenWrites
<1>5. \A c \in b : IsCommand(c) /\ c.word = w /\ c.verb = "BELOW" /\ c.value = field.below
  BY GivenWrites
<1>6. \A c \in u : IsCommand(c) /\ c.word = w /\ c.verb = "ABOVE" /\ c.value = field.above
  BY GivenWrites
<1>7. (field.precision # NoRef => p # {}) /\ (field.below # NoRef => b # {}) /\ (field.above # NoRef => u # {})
  BY GivenIs
<1> HIDE DEF s, yes, no, p, b, u
<1>8. CASE ~field.enabled
  BY <1>1, <1>3, <1>8 DEF Commands, Writes, s
<1>9. CASE field.enabled
  <2>1. Commands(s) /\ \A c \in Items(s) : c.word = w
    BY <1>1, <1>2, <1>4, <1>5, <1>6, <1>9 DEF Commands
  <2>2. \A c \in Items(s) : c.word = w =>
          /\ field.enabled <=> c.verb # "NO"
          /\ c.verb = "PRECISION" => c.value = field.precision
          /\ c.verb = "BELOW" => c.value = field.below
          /\ c.verb = "ABOVE" => c.value = field.above
    BY <1>1, <1>2, <1>4, <1>5, <1>6, <1>9
  <2>3. \E c \in Items(s) : c.word = w /\ c.verb \in {"YES", "NO", "PRECISION"}
    BY <1>1, <1>2, <1>9
  <2>4. field.precision # NoRef => \E c \in Items(s) : c.word = w /\ c.verb = "PRECISION"
    BY <1>1, <1>4, <1>7, <1>9
  <2>5. field.below # NoRef => \E c \in Items(s) : c.word = w /\ c.verb = "BELOW"
    BY <1>1, <1>5, <1>7, <1>9
  <2>6. field.above # NoRef => \E c \in Items(s) : c.word = w /\ c.verb = "ABOVE"
    BY <1>1, <1>6, <1>7, <1>9
  <2>7. Writes(s, w, field)
    BY <2>2, <2>3, <2>4, <2>5, <2>6 DEF Writes
  <2>8. QED
    BY <2>1, <2>7 DEF s
<1>10. QED
  BY <1>8, <1>9

LEMMA SavedFieldWrites ==
  ASSUME NEW w \in FieldWords, NEW field, field.enabled \in BOOLEAN, field.precision # NoRef
  PROVE  /\ Commands(SavedField(w, field)) /\ \A c \in Items(SavedField(w, field)) : c.word = w
         /\ Writes(SavedField(w, field), w, field)
<1> DEFINE s == SavedField(w, field)
           no == Command(w, "NO", NoRef)
           p == Command(w, "PRECISION", field.precision)
           bb == Given(w, "BELOW", field.below)
           uu == Given(w, "ABOVE", field.above)
           b == Items(bb)
           u == Items(uu)
<1>1. IsList(s) /\ Items(s) = IF ~field.enabled THEN {no} ELSE {p} \union b \union u
  <2>1. CASE ~field.enabled
    BY <2>1, SingleIs DEF SavedField
  <2>2. CASE field.enabled
    BY <2>2, SingleIs, GivenIs, ConcatIs DEF SavedField
  <2>3. QED
    BY <2>1, <2>2
<1>2. IsCommand(p) /\ p.word = w /\ p.verb = "PRECISION" /\ p.value = field.precision
  BY FieldCommandIs, CommandIs DEF FieldVerbs
<1>3. IsCommand(no) /\ no.word = w /\ no.verb = "NO"
  BY FieldCommandIs, CommandIs DEF FieldVerbs
<1>5. \A c \in b : IsCommand(c) /\ c.word = w /\ c.verb = "BELOW" /\ c.value = field.below
  BY GivenWrites
<1>6. \A c \in u : IsCommand(c) /\ c.word = w /\ c.verb = "ABOVE" /\ c.value = field.above
  BY GivenWrites
<1>7. (field.below # NoRef => b # {}) /\ (field.above # NoRef => u # {})
  BY GivenIs
<1> HIDE DEF s, no, p, b, u
<1>8. CASE ~field.enabled
  BY <1>1, <1>3, <1>8 DEF Commands, Writes, s
<1>9. CASE field.enabled
  <2>1. Commands(s) /\ \A c \in Items(s) : c.word = w
    BY <1>1, <1>2, <1>5, <1>6, <1>9 DEF Commands
  <2>2. \A c \in Items(s) : c.word = w =>
          /\ field.enabled <=> c.verb # "NO"
          /\ c.verb = "PRECISION" => c.value = field.precision
          /\ c.verb = "BELOW" => c.value = field.below
          /\ c.verb = "ABOVE" => c.value = field.above
    BY <1>1, <1>2, <1>5, <1>6, <1>9
  <2>3. \E c \in Items(s) : c.word = w /\ c.verb = "PRECISION"
    BY <1>1, <1>2, <1>9
  <2>5. field.below # NoRef => \E c \in Items(s) : c.word = w /\ c.verb = "BELOW"
    BY <1>1, <1>5, <1>7, <1>9
  <2>6. field.above # NoRef => \E c \in Items(s) : c.word = w /\ c.verb = "ABOVE"
    BY <1>1, <1>6, <1>7, <1>9
  <2>7. Writes(s, w, field)
    BY <2>2, <2>3, <2>5, <2>6 DEF Writes
  <2>8. QED
    BY <2>1, <2>7 DEF s
<1>10. QED
  BY <1>8, <1>9

LEMMA ItemsWithin ==
  ASSUME NEW T, NEW s \in Seq(T)
  PROVE  IsList(s) /\ Items(s) \subseteq T
BY SequenceIsList DEF Items

(* The rows of several fields, word by word.                               *)
LEMMA FieldsJoined ==
  ASSUME NEW ws, IsList(ws), NEW lists, lists = [k \in DOMAIN ws |-> lists[k]], NEW g,
         \A k \in DOMAIN ws : lists[k] = g[ws[k]],
         \A w \in Items(ws) : IsList(g[w]) /\ \A c \in Items(g[w]) : c.word = w
  PROVE  /\ IsList(Joined(lists))
         /\ \A c \in Items(Joined(lists)) : c.word \in Items(ws) /\ c \in Items(g[c.word])
         /\ \A w \in Items(ws) : Items(g[w]) \subseteq Items(Joined(lists))
<1>1. IsList(lists) /\ Len(lists) = Len(ws)
  BY MadeOf
<1>2. DOMAIN ws = 1 .. Len(ws) /\ \A k \in 1 .. Len(ws) : ws[k] \in Items(ws)
  BY ListIs
<1>3. \A k \in 1 .. Len(lists) : IsList(lists[k])
  BY <1>1, <1>2
<1>4. IsList(Joined(lists)) /\ Items(Joined(lists)) = UNION {Items(lists[k]) : k \in 1 .. Len(lists)}
  BY <1>1, <1>3, JoinedAre
<1>5. ASSUME NEW c \in Items(Joined(lists))
      PROVE  c.word \in Items(ws) /\ c \in Items(g[c.word])
  BY <1>1, <1>2, <1>4
<1>6. ASSUME NEW w \in Items(ws), NEW c \in Items(g[w])
      PROVE  c \in Items(Joined(lists))
  BY <1>1, <1>2, <1>4, ListIs
<1>7. QED
  BY <1>4, <1>5, <1>6

Typed(options) ==
    <<Command("PAGESIZE", "IS", options.page), Command("STATUS", options.status, NoRef),
      Command("SUMMARY", options.summary, NoRef), Command("MESSAGES", options.messages, NoRef),
      Command("ENERGY", options.energy, NoRef),
      SelectionCommand("NODES", options.nodes), SelectionCommand("LINKS", options.links)>>
    \o TypedFieldCommands(options.fields)

LEMMA TypedIs ==
  ASSUME NEW options, IsReport(options)
  PROVE  /\ ReportCommands(options) = Typed(options) \o options.backend
         /\ Commands(Typed(options)) /\ Commands(options.backend)
         /\ \A c \in Items(Typed(options)) : c.word # "FILE"
         /\ \A w \in FieldWords : options.fields[w].enabled \in BOOLEAN /\ Writes(Typed(options), w, options.fields[w])
<1> DEFINE a == Command("PAGESIZE", "IS", options.page)
           b == Command("STATUS", options.status, NoRef)
           c == Command("SUMMARY", options.summary, NoRef)
           d == Command("MESSAGES", options.messages, NoRef)
           e == Command("ENERGY", options.energy, NoRef)
           f == SelectionCommand("NODES", options.nodes)
           g == SelectionCommand("LINKS", options.links)
           s == <<a, b, c, d, e, f, g>>
           t == TypedFieldCommands(options.fields)
           rows == [w \in FieldWords |-> FieldCommands(w, options.fields[w])]
           lists == [k \in DOMAIN ReportFields |-> FieldCommands(ReportFields[k], options.fields[ReportFields[k]])]
<1>1. ReportCommands(options) = s \o t \o options.backend /\ Typed(options) = s \o t
  BY DEF ReportCommands, Typed
<1>2. IsCommand(a) /\ IsCommand(b) /\ IsCommand(c) /\ IsCommand(d) /\ IsCommand(e)
  BY FlagCommandIs DEF FlagWords, FlagFits, IsReport
<1>3. IsCommand(f) /\ IsCommand(g)
  BY ChosenCommandIs DEF IsReport, SelectionCommand, ChosenWords
<1>4. /\ a.word = "PAGESIZE" /\ b.word = "STATUS" /\ c.word = "SUMMARY" /\ d.word = "MESSAGES" /\ e.word = "ENERGY"
      /\ f.word = "NODES" /\ g.word = "LINKS"
  BY CommandIs DEF SelectionCommand
<1>5. \A w \in FieldWords : options.fields[w].enabled \in BOOLEAN
  BY FieldWordsAre DEF IsReport, IsField
<1>6. Commands(options.backend)
  BY DEF IsReport, Commands, IsList
<1> HIDE DEF a, b, c, d, e, f, g
<1>7. IsList(s) /\ Items(s) \subseteq {a, b, c, d, e, f, g}
  <2>1. s \in Seq({a, b, c, d, e, f, g})
    OBVIOUS
  <2> HIDE DEF s
  <2>2. QED
    BY <2>1, ItemsWithin
<1> HIDE DEF s
<1>8. Commands(s) /\ \A x \in Items(s) : x.word \notin FieldWords /\ x.word # "FILE"
  BY <1>2, <1>3, <1>4, <1>7 DEF Commands, FieldWords
<1>9. \A w \in FieldWords : /\ rows[w] = FieldCommands(w, options.fields[w])
                            /\ Commands(rows[w]) /\ IsList(rows[w]) /\ \A x \in Items(rows[w]) : x.word = w
                            /\ Writes(rows[w], w, options.fields[w])
  BY <1>5, FieldCommandsWrite DEF Commands
<1>10. t = Joined(lists) /\ lists = [k \in DOMAIN ReportFields |-> lists[k]]
  BY DEF TypedFieldCommands
<1>11. \A k \in DOMAIN ReportFields : lists[k] = rows[ReportFields[k]]
  BY FieldWordsAre DEF Items
<1> HIDE DEF t, rows, lists
<1>12. /\ IsList(t)
       /\ \A x \in Items(t) : x.word \in FieldWords /\ x \in Items(rows[x.word])
       /\ \A w \in FieldWords : Items(rows[w]) \subseteq Items(t)
  <2>1. \A w \in Items(ReportFields) : IsList(rows[w]) /\ \A x \in Items(rows[w]) : x.word = w
    BY <1>9, FieldWordsAre
  <2>2. IsList(ReportFields)
    BY ReportFieldsAre
  <2>3. /\ IsList(Joined(lists))
        /\ \A x \in Items(Joined(lists)) : x.word \in Items(ReportFields) /\ x \in Items(rows[x.word])
        /\ \A w \in Items(ReportFields) : Items(rows[w]) \subseteq Items(Joined(lists))
    BY <1>10, <1>11, <2>1, <2>2, FieldsJoined
  <2>4. QED
    BY <1>10, <2>3, FieldWordsAre
<1>13. Commands(t)
  BY <1>9, <1>12 DEF Commands
<1>14. Commands(s \o t) /\ Items(s \o t) = Items(s) \union Items(t)
  BY <1>8, <1>13, CommandsJoin, ConcatIs DEF Commands
<1> DEFINE u == s \o t
<1> HIDE DEF u
<1>15. \A x \in Items(u) : x.word # "FILE"
  BY <1>8, <1>12, <1>14 DEF FieldWords, u
<1>16. ASSUME NEW w \in FieldWords
       PROVE  Writes(u, w, options.fields[w])
  <2>1. \A x : x.word = w => (x \in Items(u) <=> x \in Items(rows[w]))
    BY <1>8, <1>12, <1>14 DEF u
  <2>2. QED
    BY <1>9, <2>1, WritesWithin
<1>17. QED
  BY <1>1, <1>5, <1>6, <1>14, <1>15, <1>16 DEF u

(* A report that the toolkit can write down. *)
Sound(r) ==
    /\ Whole(r)
    /\ \A w \in FlagWords : r.flags[w] = <<>> \/ \E v, x : r.flags[w] = <<v, x>> /\ FlagFits(w, v, x)
    /\ \A w \in ChosenWords : r.chosen[w].mode \in {"NONE", "ALL", "LIST"}
    /\ \A w \in FieldWords : r.fields[w].enabled \in BOOLEAN /\ r.fields[w].precision # NoRef

LEMMA NewIsSound == Sound(NewReport)
BY NewReportIs, IdsAssumption DEF Sound

FlagPart(w) == [word |-> w, part |-> "flag", item |-> NoRef]
ModePart(w) == [word |-> w, part |-> "mode", item |-> NoRef]
HasPart(w, x) == [word |-> w, part |-> "has", item |-> x]

LEMMA OtherParts ==
  /\ \A w \in FlagWords : IsPart(FlagPart(w)) /\ FlagPart(w).word = w /\ FlagPart(w).part = "flag"
  /\ \A w \in ChosenWords : IsPart(ModePart(w)) /\ ModePart(w).word = w /\ ModePart(w).part = "mode"
  /\ \A w \in ChosenWords : \A x : /\ IsPart(HasPart(w, x)) /\ HasPart(w, x).word = w /\ HasPart(w, x).part = "has"
                                   /\ HasPart(w, x).item = x
  /\ \A r, w : Part(r, FlagPart(w)) = r.flags[w]
  /\ \A r, w : Part(r, ModePart(w)) = r.chosen[w].mode
  /\ \A r, w, x : Part(r, HasPart(w, x)) = IF x \in r.chosen[w].ids THEN "in" ELSE "out"
<1>1. \A w \in FlagWords : IsPart(FlagPart(w)) /\ FlagPart(w).word = w /\ FlagPart(w).part = "flag"
  BY DEF IsPart, FlagPart
<1>2. \A w \in ChosenWords : IsPart(ModePart(w)) /\ ModePart(w).word = w /\ ModePart(w).part = "mode"
  BY DEF IsPart, ModePart
<1>3. \A w \in ChosenWords : \A x : /\ IsPart(HasPart(w, x)) /\ HasPart(w, x).word = w /\ HasPart(w, x).part = "has"
                                    /\ HasPart(w, x).item = x
  BY DEF IsPart, HasPart
<1>4. \A r, w : Part(r, FlagPart(w)) = r.flags[w]
  BY DEF Part, FlagPart
<1>5. \A r, w : Part(r, ModePart(w)) = r.chosen[w].mode
  BY DEF Part, ModePart
<1>6. \A r, w, x : Part(r, HasPart(w, x)) = IF x \in r.chosen[w].ids THEN "in" ELSE "out"
  BY DEF Part, HasPart
<1>7. QED
  BY <1>1, <1>2, <1>3, <1>4, <1>5, <1>6

LEMMA SoundStep ==
  ASSUME NEW r, Sound(r), NEW c, IsCommand(c)
  PROVE  Sound(SetReport(r, c))
<1> DEFINE q == SetReport(r, c)
<1>1. Whole(r) /\ Whole(q)
  BY SetReportWhole DEF Sound
<1>2. \A a : IsPart(a) => Part(q, a) = IF Sets(c, a) THEN Says(c, a) ELSE Part(r, a)
  BY <1>1, SetReportPart
<1> HIDE DEF q
<1>3. ASSUME NEW w \in FlagWords
      PROVE  q.flags[w] = <<>> \/ \E v, x : q.flags[w] = <<v, x>> /\ FlagFits(w, v, x)
  <2> DEFINE a == FlagPart(w)
  <2>1. IsPart(a) /\ a.word = w /\ a.part = "flag" /\ Part(q, a) = q.flags[w] /\ Part(r, a) = r.flags[w]
    BY OtherParts
  <2> HIDE DEF a
  <2>2. Says(c, a) = <<c.verb, c.value>> /\ (Sets(c, a) => c.word = w)
    BY <2>1 DEF Says, Sets
  <2>3. CASE Sets(c, a)
    <3>1. FlagFits(w, c.verb, c.value)
      BY <2>2, <2>3, CommandWords, WordsApart
    <3>2. q.flags[w] = <<c.verb, c.value>>
      BY <1>2, <2>1, <2>2, <2>3
    <3>3. QED
      BY <3>1, <3>2
  <2>4. CASE ~Sets(c, a)
    BY <1>2, <2>1, <2>4 DEF Sound
  <2>5. QED
    BY <2>3, <2>4
<1>4. ASSUME NEW w \in ChosenWords
      PROVE  q.chosen[w].mode \in {"NONE", "ALL", "LIST"}
  <2> DEFINE a == ModePart(w)
  <2>1. IsPart(a) /\ a.word = w /\ a.part = "mode" /\ Part(q, a) = q.chosen[w].mode /\ Part(r, a) = r.chosen[w].mode
    BY OtherParts
  <2> HIDE DEF a
  <2>2. CASE Sets(c, a)
    <3>1. c.word = w /\ Says(c, a) = c.verb
      BY <2>1, <2>2 DEF Sets, Says
    <3>2. c.verb \in {"NONE", "ALL", "LIST"}
      BY <3>1, CommandWords, WordsApart
    <3>3. QED
      BY <1>2, <2>1, <2>2, <3>1, <3>2
  <2>3. CASE ~Sets(c, a)
    BY <1>2, <2>1, <2>3 DEF Sound
  <2>4. QED
    BY <2>2, <2>3
<1>5. ASSUME NEW w \in FieldWords
      PROVE  q.fields[w].enabled \in BOOLEAN
  <2> DEFINE a == FieldPart(w, "enabled")
  <2>1. IsPart(a) /\ a.part = "enabled"
    BY FieldPartIs DEF FieldParts
  <2>2. Part(q, a) = q.fields[w].enabled /\ Part(r, a) = r.fields[w].enabled
    BY FieldPartsOf
  <2> HIDE DEF a
  <2>3. Says(c, a) = (c.verb # "NO")
    BY <2>1 DEF Says
  <2>4. Says(c, a) \in BOOLEAN
    BY <2>3
  <2>5. QED
    BY <1>2, <2>1, <2>2, <2>4 DEF Sound
<1>6. ASSUME NEW w \in FieldWords
      PROVE  q.fields[w].precision # NoRef
  <2> DEFINE a == FieldPart(w, "precision")
  <2>1. IsPart(a) /\ a.word = w /\ a.part = "precision"
    BY FieldPartIs DEF FieldParts
  <2>2. Part(q, a) = q.fields[w].precision /\ Part(r, a) = r.fields[w].precision
    BY FieldPartsOf
  <2> HIDE DEF a
  <2>3. CASE Sets(c, a)
    <3>1. c.word = w /\ c.verb = "PRECISION" /\ Says(c, a) = c.value
      BY <2>1, <2>3 DEF Sets, Says
    <3>2. c.value # NoRef
      BY <3>1, FieldWordCommand
    <3>3. QED
      BY <1>2, <2>1, <2>2, <2>3, <3>1, <3>2
  <2>4. CASE ~Sets(c, a)
    BY <1>2, <2>1, <2>2, <2>4 DEF Sound
  <2>5. QED
    BY <2>3, <2>4
<1>7. Sound(q)
  BY <1>1, <1>3, <1>4, <1>5, <1>6 DEF Sound
<1>8. QED
  BY <1>7 DEF q

LEMMA ReportedSound ==
  ASSUME NEW r, Sound(r), NEW s, Commands(s)
  PROVE  Sound(Reported(r, s))
<1> DEFINE f == ReportedRun(r, s)
           n == Len(s)
           T == {k \in Nat : k <= n => Sound(f[k])}
<1>0. Whole(r)
  BY DEF Sound
<1>1. /\ n \in Nat /\ f[0] = r /\ f[n] = Reported(r, s)
      /\ \A k \in 0 .. n - 1 : k + 1 \in 1 .. n /\ f[k + 1] = SetReport(f[k], s[k + 1])
  BY <1>0, ReportedAlong
<1>2. \A k \in 1 .. n : IsCommand(s[k])
  BY CommandsAre
<1> HIDE DEF f, n
<1>3. 0 \in T
  BY <1>1
<1>4. \A k \in Nat : k \in T => k + 1 \in T
  BY <1>1, <1>2, SoundStep
<1> HIDE DEF T
<1>5. n \in T
  BY <1>1, <1>3, <1>4, SetInduction
<1>6. QED
  BY <1>1, <1>5 DEF T

-----------------------------------------------------------------------------
(* What EN_saveinpfile writes of a sound report. *)

SavedFlag(r, w) ==
    IF r.flags[w] = <<>> THEN <<>> ELSE <<Command(w, r.flags[w][1], r.flags[w][2])>>

Kept == {k \in DOMAIN ReportFields : ReportFields[k] # "F-FACTOR"}
Written == Those(ReportFields, Kept)
SavedFields(r) == Joined([k \in DOMAIN Written |-> SavedField(Written[k], r.fields[Written[k]])])

LEMMA WrittenAre == IsList(Written) /\ Items(Written) = FieldWords \ {"F-FACTOR"}
<1>1. IsList(ReportFields)
  BY ReportFieldsAre
<1>2. IsList(Written) /\ Items(Written) = {ReportFields[k] : k \in Kept \intersect (1 .. Len(ReportFields))}
  BY <1>1, ThoseAre DEF Written
<1>3. DOMAIN ReportFields = 1 .. Len(ReportFields)
  BY <1>1, ListIs
<1> DEFINE f == ReportFields
<1> HIDE DEF f
<1>4. {f[k] : k \in {i \in DOMAIN f : f[i] # "F-FACTOR"}} = {f[k] : k \in DOMAIN f} \ {"F-FACTOR"}
  OBVIOUS
<1>5. Items(Written) = Items(ReportFields) \ {"F-FACTOR"}
  BY <1>2, <1>3, <1>4 DEF f, Kept, Items
<1>6. QED
  BY <1>2, <1>5, FieldWordsAre

LEMMA SavedFlagIs ==
  ASSUME NEW r, Sound(r), NEW w \in FlagWords
  PROVE  /\ IsList(SavedFlag(r, w))
         /\ \A c \in Items(SavedFlag(r, w)) : IsCommand(c) /\ c.word = w /\ <<c.verb, c.value>> = r.flags[w]
         /\ r.flags[w] = <<>> <=> Items(SavedFlag(r, w)) = {}
<1>1. CASE r.flags[w] = <<>>
  BY <1>1, EmptyIsList DEF SavedFlag
<1>2. CASE r.flags[w] # <<>>
  BY <1>2, FlagCommandIs, CommandIs, SingleIs DEF Sound, SavedFlag
<1>3. QED
  BY <1>1, <1>2

LEMMA SavedFieldsAre ==
  ASSUME NEW r, Sound(r)
  PROVE  /\ Commands(SavedFields(r))
         /\ \A c \in Items(SavedFields(r)) : c.word \in FieldWords \ {"F-FACTOR"}
         /\ \A w \in FieldWords \ {"F-FACTOR"} : Writes(SavedFields(r), w, r.fields[w])
<1> DEFINE ws == Written
           W == FieldWords \ {"F-FACTOR"}
           rows == [w \in W |-> SavedField(w, r.fields[w])]
           lists == [k \in DOMAIN ws |-> SavedField(ws[k], r.fields[ws[k]])]
           t == SavedFields(r)
<1>1. IsList(ws) /\ Items(ws) = W
  BY WrittenAre
<1>2. \A w \in W : r.fields[w].enabled \in BOOLEAN /\ r.fields[w].precision # NoRef
  BY DEF Sound
<1>3. \A w \in W : /\ rows[w] = SavedField(w, r.fields[w])
                   /\ Commands(rows[w]) /\ IsList(rows[w]) /\ \A x \in Items(rows[w]) : x.word = w
                   /\ Writes(rows[w], w, r.fields[w])
  BY <1>2, SavedFieldWrites DEF Commands
<1>4. t = Joined(lists) /\ lists = [k \in DOMAIN ws |-> lists[k]]
  BY DEF SavedFields
<1>5. \A k \in DOMAIN ws : lists[k] = rows[ws[k]]
  BY <1>1 DEF Items
<1> HIDE DEF t, rows, lists, ws, W
<1>6. /\ IsList(t)
      /\ \A x \in Items(t) : x.word \in W /\ x \in Items(rows[x.word])
      /\ \A w \in W : Items(rows[w]) \subseteq Items(t)
  <2>1. \A w \in Items(ws) : IsList(rows[w]) /\ \A x \in Items(rows[w]) : x.word = w
    BY <1>1, <1>3
  <2>2. /\ IsList(Joined(lists))
        /\ \A x \in Items(Joined(lists)) : x.word \in Items(ws) /\ x \in Items(rows[x.word])
        /\ \A w \in Items(ws) : Items(rows[w]) \subseteq Items(Joined(lists))
    BY <1>1, <1>4, <1>5, <2>1, FieldsJoined
  <2>3. QED
    BY <1>1, <1>4, <2>2
<1>7. Commands(t)
  BY <1>3, <1>6 DEF Commands
<1>8. ASSUME NEW w \in W
      PROVE  Writes(t, w, r.fields[w])
  BY <1>3, <1>6, WritesWithin
<1>9. QED
  BY <1>6, <1>7, <1>8 DEF t, W

LEMMA SavedIs ==
  ASSUME NEW r, Sound(r)
  PROVE  /\ Commands(SavedReport(r))
         /\ \A c \in Items(SavedReport(r)) : c.word \in FlagWords => c.word # "FILE" /\ <<c.verb, c.value>> = r.flags[c.word]
         /\ \A w \in FlagWords \ {"FILE"} : r.flags[w] # <<>> <=> \E c \in Items(SavedReport(r)) : c.word = w
         /\ \A w \in ChosenWords : \A c : c.word = w => (c \in Items(SavedReport(r)) <=> c = SelectionCommand(w, r.chosen[w]))
         /\ \A w \in FieldWords \ {"F-FACTOR"} : Writes(SavedReport(r), w, r.fields[w])
         /\ \A c \in Items(SavedReport(r)) : c.word # "F-FACTOR"
<1> DEFINE a == SavedFlag(r, "PAGESIZE")
           b == SavedFlag(r, "STATUS")
           c == SavedFlag(r, "SUMMARY")
           d == SavedFlag(r, "MESSAGES")
           e == SavedFlag(r, "ENERGY")
           f == SelectionCommand("NODES", r.chosen["NODES"])
           g == SelectionCommand("LINKS", r.chosen["LINKS"])
           s == <<f, g>>
           t == SavedFields(r)
           u == SavedReport(r)
<1>1. u = a \o b \o c \o d \o e \o s \o t
  BY Zenon DEF SavedReport, SavedFlag, SavedFields, Written, Kept
<1>2. IsList(a) /\ IsList(b) /\ IsList(c) /\ IsList(d) /\ IsList(e)
  BY SavedFlagIs DEF FlagWords
<1>3. IsList(s) /\ Items(s) = {f, g}
  BY PairIs
<1>4. IsList(t)
  BY SavedFieldsAre DEF Commands
<1>5. \A x \in Items(a) : IsCommand(x) /\ x.word = "PAGESIZE" /\ <<x.verb, x.value>> = r.flags["PAGESIZE"]
  BY SavedFlagIs DEF FlagWords
<1>6. \A x \in Items(b) : IsCommand(x) /\ x.word = "STATUS" /\ <<x.verb, x.value>> = r.flags["STATUS"]
  BY SavedFlagIs DEF FlagWords
<1>7. \A x \in Items(c) : IsCommand(x) /\ x.word = "SUMMARY" /\ <<x.verb, x.value>> = r.flags["SUMMARY"]
  BY SavedFlagIs DEF FlagWords
<1>8. \A x \in Items(d) : IsCommand(x) /\ x.word = "MESSAGES" /\ <<x.verb, x.value>> = r.flags["MESSAGES"]
  BY SavedFlagIs DEF FlagWords
<1>9. \A x \in Items(e) : IsCommand(x) /\ x.word = "ENERGY" /\ <<x.verb, x.value>> = r.flags["ENERGY"]
  BY SavedFlagIs DEF FlagWords
<1>10. /\ r.flags["PAGESIZE"] # <<>> <=> Items(a) # {}
       /\ r.flags["STATUS"] # <<>> <=> Items(b) # {}
       /\ r.flags["SUMMARY"] # <<>> <=> Items(c) # {}
       /\ r.flags["MESSAGES"] # <<>> <=> Items(d) # {}
       /\ r.flags["ENERGY"] # <<>> <=> Items(e) # {}
  BY SavedFlagIs DEF FlagWords
<1>11. IsCommand(f) /\ IsCommand(g) /\ f.word = "NODES" /\ g.word = "LINKS"
  BY ChosenCommandIs, CommandIs DEF Sound, ChosenWords, SelectionCommand
<1>12. /\ Commands(t) /\ \A x \in Items(t) : x.word \in FieldWords \ {"F-FACTOR"}
       /\ \A w \in FieldWords \ {"F-FACTOR"} : Writes(t, w, r.fields[w])
  BY SavedFieldsAre
<1> HIDE DEF a, b, c, d, e, f, g, s, t, u
<1>13. IsList(u) /\ Items(u) = Items(a) \union Items(b) \union Items(c) \union Items(d) \union Items(e) \union Items(s) \union Items(t)
  <2>1. IsList(a \o b) /\ Items(a \o b) = Items(a) \union Items(b)
    BY <1>2, ConcatIs
  <2> DEFINE ab == a \o b
             abc == ab \o c
             abcd == abc \o d
             abcde == abcd \o e
             abcdes == abcde \o s
  <2> HIDE DEF ab, abc, abcd, abcde, abcdes
  <2>2. IsList(abc) /\ Items(abc) = Items(a) \union Items(b) \union Items(c)
    BY <1>2, <2>1, ConcatIs DEF ab, abc
  <2>3. IsList(abcd) /\ Items(abcd) = Items(a) \union Items(b) \union Items(c) \union Items(d)
    BY <1>2, <2>2, ConcatIs DEF abcd
  <2>4. IsList(abcde) /\ Items(abcde) = Items(a) \union Items(b) \union Items(c) \union Items(d) \union Items(e)
    BY <1>2, <2>3, ConcatIs DEF abcde
  <2>5. IsList(abcdes) /\ Items(abcdes) = Items(a) \union Items(b) \union Items(c) \union Items(d) \union Items(e) \union Items(s)
    BY <1>3, <2>4, ConcatIs DEF abcdes
  <2>6. u = abcdes \o t
    BY <1>1 DEF ab, abc, abcd, abcde, abcdes
  <2>7. QED
    BY <1>4, <2>5, <2>6, ConcatIs
<1> DEFINE F == Items(a) \union Items(b) \union Items(c) \union Items(d) \union Items(e)
<1>14. \A x \in F : IsCommand(x) /\ x.word \in FlagWords \ {"FILE"} /\ <<x.verb, x.value>> = r.flags[x.word]
  BY <1>5, <1>6, <1>7, <1>8, <1>9 DEF FlagWords
<1>15. \A w \in FlagWords \ {"FILE"} : r.flags[w] # <<>> <=> \E x \in F : x.word = w
  <2>1. /\ r.flags["PAGESIZE"] # <<>> <=> \E x \in F : x.word = "PAGESIZE"
        /\ r.flags["STATUS"] # <<>> <=> \E x \in F : x.word = "STATUS"
        /\ r.flags["SUMMARY"] # <<>> <=> \E x \in F : x.word = "SUMMARY"
        /\ r.flags["MESSAGES"] # <<>> <=> \E x \in F : x.word = "MESSAGES"
        /\ r.flags["ENERGY"] # <<>> <=> \E x \in F : x.word = "ENERGY"
    BY <1>5, <1>6, <1>7, <1>8, <1>9, <1>10
  <2> HIDE DEF F
  <2>2. QED
    BY <2>1 DEF FlagWords
<1> HIDE DEF F
<1>16. Items(u) = F \union {f, g} \union Items(t)
  BY <1>3, <1>13 DEF F
<1>17. Commands(u)
  BY <1>11, <1>12, <1>13, <1>14, <1>16 DEF Commands
<1>18. \A x \in Items(u) : x.word \in FlagWords => x \in F
  BY <1>11, <1>12, <1>16, WordsApart DEF ChosenWords
<1>19. \A x \in Items(u) : x.word \in FlagWords => x.word # "FILE" /\ <<x.verb, x.value>> = r.flags[x.word]
  BY <1>14, <1>18
<1>20. \A w \in FlagWords \ {"FILE"} : r.flags[w] # <<>> <=> \E x \in Items(u) : x.word = w
  BY <1>15, <1>16, <1>18
<1>21. \A w \in ChosenWords : \A x : x.word = w => (x \in Items(u) <=> x = SelectionCommand(w, r.chosen[w]))
  <2> SUFFICES ASSUME NEW w \in ChosenWords, NEW x, x.word = w
               PROVE  x \in Items(u) <=> x = SelectionCommand(w, r.chosen[w])
    OBVIOUS
  <2>1. x \notin F /\ x \notin Items(t)
    BY <1>12, <1>14, WordsApart
  <2>2. x \in Items(u) <=> x = f \/ x = g
    BY <1>16, <2>1
  <2>3. CASE w = "NODES"
    BY <1>11, <2>2, <2>3 DEF f
  <2>4. CASE w = "LINKS"
    BY <1>11, <2>2, <2>4 DEF g
  <2>5. QED
    BY <2>3, <2>4 DEF ChosenWords
<1>22. \A x : x.word \in FieldWords => (x \in Items(u) <=> x \in Items(t))
  BY <1>11, <1>14, <1>16, WordsApart DEF ChosenWords
<1>23. \A w \in FieldWords \ {"F-FACTOR"} : Writes(u, w, r.fields[w])
  BY <1>12, <1>22, WritesWithin
<1>24. \A x \in Items(u) : x.word # "F-FACTOR"
  BY <1>12, <1>22 DEF FieldWords
<1>25. QED
  BY <1>17, <1>19, <1>20, <1>21, <1>23, <1>24 DEF u

(* The parts of a report that can be seen, and that EN_saveinpfile writes. *)
Alive(r, a) ==
    /\ a.word # "FILE" /\ a.word # "F-FACTOR"
    /\ a.part = "has" => r.chosen[a.word].mode = "LIST"
    /\ a.part \in {"precision", "below", "above"} => r.fields[a.word].enabled

LEMMA SavedMeans ==
  ASSUME NEW r, Sound(r), NEW a, IsPart(a), Alive(r, a)
  PROVE  Part(Reported(NewReport, SavedReport(r)), a) = Part(r, a)
<1> DEFINE s == SavedReport(r)
           q == Reported(NewReport, s)
           w == a.word
<1>1. Commands(s) /\ Whole(NewReport)
  BY SavedIs, NewReportIs
<1>2. CASE a.part = "flag"
  <2>1. w \in FlagWords \ {"FILE"} /\ Part(r, a) = r.flags[w] /\ Part(NewReport, a) = <<>>
    <3>1. w \in FlagWords \ {"FILE"}
      BY <1>2 DEF IsPart, Alive, FieldParts
    <3>2. Part(r, a) = r.flags[w] /\ Part(NewReport, a) = NewReport.flags[w]
      BY <1>2 DEF Part
    <3>3. QED
      BY <3>1, <3>2, NewReportIs
  <2>2. \A c \in Items(s) : c.word \in FlagWords => <<c.verb, c.value>> = r.flags[c.word]
    BY SavedIs
  <2>3. r.flags[w] # <<>> <=> \E c \in Items(s) : c.word = w
    BY <2>1, SavedIs
  <2> HIDE DEF s
  <2>4. \A c : Sets(c, a) <=> c.word = w
    BY <1>2 DEF Sets
  <2>5. \A c : Says(c, a) = <<c.verb, c.value>>
    BY <1>2 DEF Says
  <2>6. CASE r.flags[w] = <<>>
    <3>1. \A c \in Items(s) : ~Sets(c, a)
      BY <2>3, <2>4, <2>6
    <3>2. Part(q, a) = Part(NewReport, a)
      BY <1>1, <3>1, NoneOf
    <3>3. QED
      BY <2>1, <2>6, <3>2 DEF s
  <2>7. CASE r.flags[w] # <<>>
    <3> DEFINE v == r.flags[w]
    <3>1. \E c \in Items(s) : Sets(c, a)
      BY <2>3, <2>4, <2>7
    <3>2. \A c \in Items(s) : Sets(c, a) => Says(c, a) = v
      BY <2>1, <2>2, <2>4, <2>5
    <3> HIDE DEF v, w
    <3>3. Part(q, a) = v
      BY <1>1, <3>1, <3>2, AllSay
    <3>4. QED
      BY <2>1, <3>3 DEF s, v
  <2>8. QED
    BY <2>6, <2>7
<1>3. CASE a.part \in {"mode", "has"}
  <2>1. w \in ChosenWords
    BY <1>3 DEF IsPart, FieldParts
  <2> DEFINE d == SelectionCommand(w, r.chosen[w])
  <2>2. \A c : c.word = w => (c \in Items(s) <=> c = d)
    BY <2>1, SavedIs
  <2>3. d.word = w /\ d.verb = r.chosen[w].mode /\ d.value = r.chosen[w].ids
    BY CommandIs DEF SelectionCommand
  <2> HIDE DEF d, s
  <2>4. d \in Items(s)
    BY <2>2, <2>3
  <2>5. CASE a.part = "mode"
    <3>1. \A c : Sets(c, a) <=> c.word = w
      BY <2>5 DEF Sets
    <3>2. Says(d, a) = d.verb
      BY <2>5 DEF Says
    <3> DEFINE v == d.verb
    <3>3. \E c \in Items(s) : Sets(c, a)
      BY <2>3, <2>4, <3>1
    <3>4. \A c \in Items(s) : Sets(c, a) => Says(c, a) = v
      BY <2>2, <3>1, <3>2
    <3> HIDE DEF v, w
    <3>5. Part(q, a) = v
      BY <1>1, <3>3, <3>4, AllSay
    <3>6. Part(r, a) = r.chosen[w].mode
      BY <2>5 DEF Part, w
    <3>7. QED
      BY <2>3, <3>5, <3>6 DEF v, s
  <2>6. CASE a.part = "has"
    <3>1. \A c : Sets(c, a) <=> c.word = w /\ c.verb = "LIST" /\ a.item \in c.value
      BY <2>6 DEF Sets
    <3>2. d.verb = "LIST"
      BY <2>3, <2>6 DEF Alive
    <3>3. Part(r, a) = IF a.item \in r.chosen[w].ids THEN "in" ELSE "out"
      BY <2>6 DEF Part
    <3>4. Part(NewReport, a) = "out"
      BY <2>1, <2>6, NewReportIs DEF Part
    <3>5. CASE a.item \in r.chosen[w].ids
      <4>1. \E c \in Items(s) : Sets(c, a)
        BY <2>3, <2>4, <3>1, <3>2, <3>5
      <4>2. \A c \in Items(s) : Sets(c, a) => Says(c, a) = "in"
        BY <2>6 DEF Says
      <4>3. Part(q, a) = "in"
        BY <1>1, <4>1, <4>2, AllSay
      <4>4. QED
        BY <3>3, <3>5, <4>3 DEF s
    <3>6. CASE a.item \notin r.chosen[w].ids
      <4>1. \A c \in Items(s) : ~Sets(c, a)
        BY <2>2, <2>3, <3>1, <3>6
      <4>2. Part(q, a) = Part(NewReport, a)
        BY <1>1, <4>1, NoneOf
      <4>3. QED
        BY <3>3, <3>4, <3>6, <4>2 DEF s
    <3>7. QED
      BY <3>5, <3>6
  <2>7. QED
    BY <1>3, <2>5, <2>6
<1>4. CASE a.part \in FieldParts
  <2>1. w \in FieldWords \ {"F-FACTOR"}
    BY <1>4 DEF IsPart, FieldParts, Alive
  <2> DEFINE field == r.fields[w]
             old == NewReport.fields[w]
             new == q.fields[w]
  <2>2. field.enabled \in BOOLEAN /\ field.precision # NoRef /\ w \in FieldWords
    BY <2>1 DEF Sound
  <2>3. Writes(s, w, field)
    BY <2>1, SavedIs
  <2>4. old.below = NoRef /\ old.above = NoRef
    BY <2>2, NewReportIs
  <2>5. CASE a.part = "enabled"
    <3> HIDE DEF s, field
    <3>1. new.enabled = field.enabled
      BY <1>1, <2>2, <2>3, EnabledIsWritten
    <3>2. QED
      BY <2>5, <3>1 DEF Part, field, s
  <2>6. CASE a.part = "precision"
    <3>0. field.enabled
      BY <2>6 DEF Alive
    <3> HIDE DEF s, field
    <3>1. new.precision = field.precision
      BY <1>1, <2>2, <2>3, <3>0, PrecisionIsWritten
    <3>2. QED
      BY <2>6, <3>1 DEF Part, field, s
  <2>7. CASE a.part = "below"
    <3>0. field.enabled
      BY <2>7 DEF Alive
    <3> HIDE DEF s, field
    <3>1. new.below = field.below
      BY <1>1, <2>2, <2>3, <2>4, <3>0, BelowIsWritten
    <3>2. QED
      BY <2>7, <3>1 DEF Part, field, s
  <2>8. CASE a.part = "above"
    <3>0. field.enabled
      BY <2>8 DEF Alive
    <3> HIDE DEF s, field
    <3>1. new.above = field.above
      BY <1>1, <2>2, <2>3, <2>4, <3>0, AboveIsWritten
    <3>2. QED
      BY <2>8, <3>1 DEF Part, field, s
  <2>9. QED
    BY <1>4, <2>5, <2>6, <2>7, <2>8 DEF FieldParts
<1>5. QED
  BY <1>2, <1>3, <1>4 DEF IsPart

(* The report of a run, of its text, and of the rows the text ends up with. *)
Told(options) == Reported(NewReport, ReportCommands(options))
Base(options) == Reported(NewReport, Typed(options))
Saved(options) == Reported(NewReport, SavedReport(Told(options)))
Restored(options) == PreserveBackendReportCommands(SavedReport(Told(options)), options.backend)
Rows(options) == PreserveFrictionReportField(Restored(options), options)
Again(options) == Reported(NewReport, Rows(options))

LEMMA ToldIs ==
  ASSUME NEW options, IsReport(options)
  PROVE  /\ Sound(Told(options)) /\ Whole(Told(options)) /\ Whole(Base(options))
         /\ Told(options) = Reported(Base(options), options.backend)
<1> DEFINE typed == Typed(options)
           backend == options.backend
<1>1. ReportCommands(options) = typed \o backend /\ Commands(typed) /\ Commands(backend)
  BY TypedIs
<1>2. Sound(NewReport) /\ Whole(NewReport)
  BY NewIsSound, NewReportIs
<1> HIDE DEF typed, backend
<1>3. Commands(typed \o backend)
  BY <1>1, CommandsJoin
<1>4. Sound(Reported(NewReport, typed \o backend))
  BY <1>2, <1>3, ReportedSound
<1>5. Whole(Reported(NewReport, typed))
  BY <1>1, <1>2, ReportedWhole
<1>6. Reported(NewReport, typed \o backend) = Reported(Reported(NewReport, typed), backend)
  BY <1>1, <1>2, ReportedConcat
<1>7. QED
  BY <1>1, <1>4, <1>5, <1>6 DEF Told, Base, typed, backend, Sound

-----------------------------------------------------------------------------
(* The friction factor, which the exporter writes from the request. *)

(* Its options hold no qualifiers back.                                    *)
Open(field) ==
    field.enabled \/ (field.precision = NoRef /\ field.below = NoRef /\ field.above = NoRef)

(* What the request has of it, and what the toolkit has.                   *)
SameFriction(e, t) ==
    /\ t.precision = IF e.precision = NoRef THEN 3 ELSE e.precision
    /\ t.below = e.below /\ t.above = e.above

LEMMA OverrideIs ==
  ASSUME NEW e, IsField(e), NEW c, IsCommand(c), c.word = "F-FACTOR"
  PROVE  LET o == OverrideFriction(e, c)
         IN  /\ IsField(o)
             /\ o.enabled = IF c.verb \in {"YES", "NO", "PRECISION"} THEN (c.verb # "NO") ELSE e.enabled
             /\ o.precision = IF c.verb = "PRECISION" THEN c.value ELSE e.precision
             /\ o.below = IF c.verb = "BELOW" THEN c.value ELSE e.below
             /\ o.above = IF c.verb = "ABOVE" THEN c.value ELSE e.above
<1> DEFINE o == OverrideFriction(e, c)
<1>1. c.verb \in FieldVerbs
  BY FieldWordCommand DEF FieldWords
<1>2. e = [enabled |-> e.enabled, precision |-> e.precision, below |-> e.below, above |-> e.above] /\ e.enabled \in BOOLEAN
  BY DEF IsField
<1>3. CASE c.verb = "YES"
  BY <1>2, <1>3 DEF OverrideFriction, IsField, o
<1>4. CASE c.verb = "NO"
  BY <1>2, <1>4 DEF OverrideFriction, IsField, o
<1>5. CASE c.verb = "PRECISION"
  BY <1>2, <1>5 DEF OverrideFriction, IsField, o
<1>6. CASE c.verb = "BELOW"
  BY <1>2, <1>6 DEF OverrideFriction, IsField, o
<1>7. CASE c.verb = "ABOVE"
  BY <1>2, <1>7 DEF OverrideFriction, IsField, o
<1>8. QED
  BY <1>1, <1>3, <1>4, <1>5, <1>6, <1>7 DEF FieldVerbs

(* One command, on both sides.                                             *)
LEMMA FrictionStep ==
  ASSUME NEW e, IsField(e), NEW r, Whole(r), NEW c, IsCommand(c), NEW open \in BOOLEAN,
         r.fields["F-FACTOR"].enabled = e.enabled, open => SameFriction(e, r.fields["F-FACTOR"])
  PROVE  LET o == OverrideFriction(e, c)
             t == SetReport(r, c).fields["F-FACTOR"]
         IN  IsField(o) /\ t.enabled = o.enabled /\ (open => SameFriction(o, t))
<1> DEFINE w == "F-FACTOR"
           o == OverrideFriction(e, c)
           q == SetReport(r, c)
           t == q.fields[w]
           p == r.fields[w]
<1>1. w \in FieldWords
  BY DEF FieldWords
<1>2. ASSUME NEW part \in FieldParts
      PROVE  Part(q, FieldPart(w, part)) =
                IF Sets(c, FieldPart(w, part)) THEN Says(c, FieldPart(w, part)) ELSE Part(r, FieldPart(w, part))
  BY <1>1, FieldPartIs, SetReportPart
<1>3. /\ t.enabled = IF c.word = w /\ c.verb \in {"YES", "NO", "PRECISION"} THEN (c.verb # "NO") ELSE p.enabled
      /\ t.precision = IF c.word = w /\ c.verb = "PRECISION" THEN c.value ELSE p.precision
      /\ t.below = IF c.word = w /\ c.verb = "BELOW" THEN c.value ELSE p.below
      /\ t.above = IF c.word = w /\ c.verb = "ABOVE" THEN c.value ELSE p.above
  <2> HIDE DEF q, w
  <2>1. t.enabled = IF c.word = w /\ c.verb \in {"YES", "NO", "PRECISION"} THEN (c.verb # "NO") ELSE p.enabled
    BY <1>1, <1>2, FieldPartIs, FieldPartsOf DEF FieldParts, Sets, Says
  <2>2. t.precision = IF c.word = w /\ c.verb = "PRECISION" THEN c.value ELSE p.precision
    BY <1>1, <1>2, FieldPartIs, FieldPartsOf DEF FieldParts, Sets, Says
  <2>3. t.below = IF c.word = w /\ c.verb = "BELOW" THEN c.value ELSE p.below
    BY <1>1, <1>2, FieldPartIs, FieldPartsOf DEF FieldParts, Sets, Says
  <2>4. t.above = IF c.word = w /\ c.verb = "ABOVE" THEN c.value ELSE p.above
    BY <1>1, <1>2, FieldPartIs, FieldPartsOf DEF FieldParts, Sets, Says
  <2>5. QED
    BY <2>1, <2>2, <2>3, <2>4
<1>4. CASE c.word # w
  <2>1. o = e
    BY <1>4 DEF OverrideFriction
  <2>2. t.enabled = p.enabled /\ t.precision = p.precision /\ t.below = p.below /\ t.above = p.above
    BY <1>3, <1>4
  <2> HIDE DEF o, q, t, p
  <2>3. IsField(o) /\ t.enabled = o.enabled /\ (open => SameFriction(o, t))
    BY <2>1, <2>2 DEF SameFriction, p
  <2>4. QED
    BY <2>3 DEF o, t, q
<1>5. CASE c.word = w
  <2>1. /\ IsField(o)
        /\ o.enabled = IF c.verb \in {"YES", "NO", "PRECISION"} THEN (c.verb # "NO") ELSE e.enabled
        /\ o.precision = IF c.verb = "PRECISION" THEN c.value ELSE e.precision
        /\ o.below = IF c.verb = "BELOW" THEN c.value ELSE e.below
        /\ o.above = IF c.verb = "ABOVE" THEN c.value ELSE e.above
    BY <1>5, OverrideIs
  <2>2. c.verb = "PRECISION" => c.value # NoRef
    BY <1>1, <1>5, FieldWordCommand
  <2>3. p.enabled = e.enabled /\ (open => SameFriction(e, p))
    OBVIOUS
  <2> HIDE DEF o, q, t, p
  <2>4. t.enabled = o.enabled
    BY <1>3, <1>5, <2>1, <2>3
  <2>5. open => SameFriction(o, t)
    BY <1>3, <1>5, <2>1, <2>2, <2>3 DEF SameFriction
  <2>6. QED
    BY <2>1, <2>4, <2>5 DEF o, t, q
<1>6. QED
  BY <1>4, <1>5

LEMMA OffIsSilent ==
  ASSUME NEW r, Whole(r), NEW s, Commands(s), NEW w \in FieldWords, NEW field, Writes(s, w, field), ~field.enabled
  PROVE  /\ Reported(r, s).fields[w].precision = r.fields[w].precision
         /\ Reported(r, s).fields[w].below = r.fields[w].below
         /\ Reported(r, s).fields[w].above = r.fields[w].above
<1>1. ASSUME NEW part \in {"precision", "below", "above"}
      PROVE  Part(Reported(r, s), FieldPart(w, part)) = Part(r, FieldPart(w, part))
  BY FieldPartIs, NoneOf DEF FieldParts, Sets, Writes
<1> DEFINE q == Reported(r, s)
<1> HIDE DEF q
<1>2. /\ Part(q, FieldPart(w, "precision")) = Part(r, FieldPart(w, "precision"))
      /\ Part(q, FieldPart(w, "below")) = Part(r, FieldPart(w, "below"))
      /\ Part(q, FieldPart(w, "above")) = Part(r, FieldPart(w, "above"))
  BY <1>1 DEF q
<1>3. q.fields[w].precision = r.fields[w].precision
  BY <1>2, FieldPartsOf
<1>4. q.fields[w].below = r.fields[w].below
  BY <1>2, FieldPartsOf
<1>5. q.fields[w].above = r.fields[w].above
  BY <1>2, FieldPartsOf
<1>6. QED
  BY <1>3, <1>4, <1>5 DEF q

LEMMA FrictionBegins ==
  ASSUME NEW options, IsReport(options)
  PROVE  LET e == options.fields["F-FACTOR"]
             t == Base(options).fields["F-FACTOR"]
         IN  IsField(e) /\ t.enabled = e.enabled /\ (Open(e) => SameFriction(e, t))
<1> DEFINE w == "F-FACTOR"
           e == options.fields[w]
           s == Typed(options)
           t == Reported(NewReport, s).fields[w]
           old == NewReport.fields[w]
<1>1. w \in FieldWords
  BY DEF FieldWords
<1>2. IsField(e) /\ e.enabled \in BOOLEAN /\ Commands(s) /\ Writes(s, w, e) /\ Whole(NewReport)
  BY <1>1, FieldWordsAre, TypedIs, NewReportIs DEF IsReport, IsField
<1>3. old.precision = 3 /\ old.below = NoRef /\ old.above = NoRef
  BY <1>1, NewReportIs
<1> HIDE DEF w, e, s
<1>4. t.enabled = e.enabled
  BY <1>1, <1>2, EnabledIsWritten
<1>5. CASE e.enabled
  <2>1. t.precision = IF e.precision = NoRef THEN old.precision ELSE e.precision
    BY <1>1, <1>2, <1>5, PrecisionIsWritten
  <2>2. t.below = IF e.below = NoRef THEN old.below ELSE e.below
    BY <1>1, <1>2, <1>5, BelowIsWritten
  <2>3. t.above = IF e.above = NoRef THEN old.above ELSE e.above
    BY <1>1, <1>2, <1>5, AboveIsWritten
  <2> HIDE DEF t, old
  <2>4. SameFriction(e, t)
    BY <1>3, <2>1, <2>2, <2>3 DEF SameFriction
  <2>5. QED
    BY <1>2, <1>4, <2>4 DEF Base, t, w, e, s
<1>6. CASE ~e.enabled
  <2>1. t.precision = old.precision /\ t.below = old.below /\ t.above = old.above
    BY <1>1, <1>2, <1>6, OffIsSilent
  <2> HIDE DEF t, old
  <2>2. Open(e) => SameFriction(e, t)
    BY <1>3, <1>6, <2>1 DEF SameFriction, Open
  <2>3. QED
    BY <1>2, <1>4, <2>2 DEF Base, t, w, e, s
<1>7. QED
  BY <1>5, <1>6

LEMMA EffectiveIs ==
  ASSUME NEW options, IsReport(options)
  PROVE  LET e == EffectiveFrictionReportField(options)
             t == Told(options).fields["F-FACTOR"]
         IN  IsField(e) /\ t.enabled = e.enabled /\ (Open(options.fields["F-FACTOR"]) => SameFriction(e, t))
<1> DEFINE w == "F-FACTOR"
           s == options.backend
           n == Len(s)
           first == options.fields[w]
           open == Open(first)
           f == EffectiveFrictionReportFieldRun(first, s)
           b == Base(options)
           g == ReportedRun(b, s)
           Good(k) == IsField(f[k]) /\ g[k].fields[w].enabled = f[k].enabled /\ (open => SameFriction(f[k], g[k].fields[w]))
           T == {k \in Nat : k <= n => Good(k)}
<1>1. Commands(s) /\ n \in Nat
  BY TypedIs, CommandsAre
<1>2. IsEffectiveFrictionReportField(f, first, s, n) /\ EffectiveFrictionReportField(options) = f[n]
  BY <1>1, EffectiveFrictionReportFieldIsRun
<1>3. Whole(b) /\ Told(options) = Reported(b, s)
  BY ToldIs
<1>4. IsField(first) /\ b.fields[w].enabled = first.enabled /\ (open => SameFriction(first, b.fields[w]))
  BY FrictionBegins
<1>5. open \in BOOLEAN
  BY <1>4 DEF IsField, Open
<1> HIDE DEF first, b, open, s
<1>6. /\ g[0] = b /\ g[n] = Reported(b, s) /\ \A k \in 0 .. n : Whole(g[k])
      /\ \A k \in 0 .. n - 1 : k + 1 \in 1 .. n /\ g[k + 1] = SetReport(g[k], s[k + 1])
  BY <1>1, <1>3, ReportedAlong
<1>7. \A k \in 1 .. n : IsCommand(s[k])
  BY <1>1, CommandsAre
<1> HIDE DEF f, g, n
<1>8. \A k \in 0 .. n : f[k] = IF k = 0 THEN first ELSE OverrideFriction(f[k - 1], s[k])
  BY <1>2 DEF IsEffectiveFrictionReportField
<1>9. f[0] = first /\ \A k \in 0 .. n - 1 : f[k + 1] = OverrideFriction(f[k], s[k + 1])
  <2>1. f[0] = first
    BY <1>1, <1>8
  <2>2. ASSUME NEW k \in 0 .. n - 1
        PROVE  f[k + 1] = OverrideFriction(f[k], s[k + 1])
    BY <1>1, <1>8
  <2>3. QED
    BY <2>1, <2>2
<1>10. Good(0)
  BY <1>4, <1>6, <1>9
<1>11. ASSUME NEW k \in Nat, k \in T, k + 1 <= n
       PROVE  Good(k + 1)
  <2> DEFINE e == f[k]
             r == g[k]
             c == s[k + 1]
  <2>1. k \in 0 .. n - 1 /\ k \in 0 .. n /\ k + 1 \in 1 .. n /\ Good(k)
    BY <1>1, <1>11
  <2>2. IsField(e) /\ r.fields[w].enabled = e.enabled /\ (open => SameFriction(e, r.fields[w]))
    BY <2>1
  <2>3. Whole(r) /\ IsCommand(c) /\ g[k + 1] = SetReport(r, c) /\ f[k + 1] = OverrideFriction(e, c)
    BY <1>6, <1>7, <1>9, <2>1
  <2> DEFINE o == OverrideFriction(e, c)
             t == SetReport(r, c).fields[w]
  <2> HIDE DEF e, r, c
  <2>4. IsField(o) /\ t.enabled = o.enabled /\ (open => SameFriction(o, t))
    BY <1>5, <2>2, <2>3, FrictionStep
  <2> HIDE DEF o, t
  <2>5. f[k + 1] = o /\ g[k + 1].fields[w] = t
    BY <2>3 DEF o, t
  <2>6. QED
    BY <2>4, <2>5
<1> HIDE DEF Good
<1>12. 0 \in T
  BY <1>10
<1>13. \A k \in Nat : k \in T => k + 1 \in T
  BY <1>11
<1> HIDE DEF T
<1>14. n \in T
  BY <1>1, <1>12, <1>13, SetInduction
<1>15. Good(n)
  BY <1>1, <1>14 DEF T
<1>16. QED
  BY <1>2, <1>3, <1>6, <1>15 DEF Good, open, first

LEMMA RowsAre ==
  ASSUME NEW options, IsReport(options)
  PROVE  /\ Commands(Rows(options))
         /\ Writes(Rows(options), "F-FACTOR", EffectiveFrictionReportField(options))
         /\ \A a : IsPart(a) /\ a.word # "F-FACTOR" =>
               Part(Again(options), a) = Part(Reported(Saved(options), options.backend), a)
<1> DEFINE w == "F-FACTOR"
           saved == SavedReport(Told(options))
           backend == options.backend
           rows == Restored(options)
           S == {k \in DOMAIN rows : rows[k].word # "F-FACTOR"}
           kept == Those(rows, S)
           e == EffectiveFrictionReportField(options)
           friction == FieldCommands(w, e)
<1>1. Commands(saved) /\ Commands(backend) /\ Whole(NewReport) /\ w \in FieldWords
  BY ToldIs, SavedIs, TypedIs, NewReportIs DEF FieldWords
<1>2. Rows(options) = kept \o friction
  BY DEF Rows, PreserveFrictionReportField
<1>3. e.enabled \in BOOLEAN
  BY EffectiveIs DEF IsField
<1>4. Commands(friction) /\ (\A c \in Items(friction) : c.word = w) /\ Writes(friction, w, e)
  BY <1>1, <1>3, FieldCommandsWrite
<1>5. rows = PreserveBackendReportCommands(saved, backend)
  BY DEF Restored
<1>s. Saved(options) = Reported(NewReport, saved)
  BY DEF Saved
<1> HIDE DEF saved, backend, rows, friction, e, w
<1>6. /\ Commands(rows)
      /\ \A a : IsPart(a) => Part(Reported(NewReport, rows), a) = Part(Reported(Reported(NewReport, saved), backend), a)
  BY <1>1, <1>5, PreserveBackendIs
<1>7. IsList(rows) /\ DOMAIN rows = 1 .. Len(rows) /\ IsList(friction)
  BY <1>4, <1>6, ListIs DEF Commands
<1> HIDE DEF S
<1>8. IsList(kept) /\ Items(kept) = {rows[k] : k \in S \intersect (1 .. Len(rows))}
  BY <1>7, ThoseAre
<1>9. \A c \in Items(kept) : c.word # w
  BY <1>8 DEF S, w
<1>10. Commands(kept)
  BY <1>6, CommandsThose
<1> DEFINE all == Rows(options)
<1>11. Commands(all) /\ Items(all) = Items(kept) \union Items(friction)
  <2> HIDE DEF kept
  <2>1. Commands(kept \o friction)
    BY <1>4, <1>10, CommandsJoin
  <2>2. Items(kept \o friction) = Items(kept) \union Items(friction)
    BY <1>7, <1>8, ConcatIs
  <2>3. QED
    BY <1>2, <2>1, <2>2
<1>12. Writes(all, w, e)
  BY <1>4, <1>9, <1>11, WritesWithin
<1>13. ASSUME NEW a, IsPart(a), a.word # w
       PROVE  Part(Again(options), a) = Part(Reported(Saved(options), backend), a)
  <2>1. Reported(NewReport, kept \o friction) = Reported(Reported(NewReport, kept), friction)
    BY <1>1, <1>4, <1>10, ReportedConcat
  <2>2. Whole(Reported(NewReport, kept))
    BY <1>1, <1>10, ReportedWhole
  <2>3. \A c \in Items(friction) : ~Sets(c, a)
    BY <1>4, <1>13 DEF Sets
  <2> DEFINE q == Reported(NewReport, kept)
  <2>4. Part(Reported(q, friction), a) = Part(q, a)
    <3> HIDE DEF q, kept
    <3>1. Whole(q)
      BY <2>2 DEF q
    <3>2. QED
      BY <1>4, <1>13, <2>3, <3>1, NoneOf
  <2>5. Part(q, a) = Part(Reported(NewReport, rows), a)
    <3>1. \A k \in (1 .. Len(rows)) \ S : ~Sets(rows[k], a)
      BY <1>7, <1>13 DEF S, w, Sets
    <3>2. QED
      BY <1>1, <1>6, <1>13, <3>1, DroppedRows
  <2>6. Again(options) = Reported(q, friction)
    BY <1>2, <2>1 DEF Again
  <2>7. QED
    BY <1>6, <1>13, <1>s, <2>4, <2>5, <2>6
<1>14. QED
  BY <1>11, <1>12, <1>13 DEF w, e, backend

(* Every other part that can be seen comes back.                           *)
LEMMA PartsComeBack ==
  ASSUME NEW options, IsReport(options), NEW a, IsPart(a), a.word # "F-FACTOR",
         a.word = "FILE" \/ Alive(Told(options), a)
  PROVE  Part(Again(options), a) = Part(Told(options), a)
<1> DEFINE backend == options.backend
           x == Saved(options)
           y == Base(options)
           told == Told(options)
<1>1. Commands(backend) /\ Sound(told) /\ Whole(y) /\ told = Reported(y, backend)
  BY TypedIs, ToldIs
<1>2. Whole(x)
  BY <1>1, SavedIs, NewReportIs, ReportedWhole DEF Saved
<1>3. Part(Again(options), a) = Part(Reported(x, backend), a)
  BY RowsAre
<1>4. Alive(told, a) => Part(x, a) = Part(told, a)
  BY <1>1, SavedMeans DEF Saved
<1>5. a.word = "FILE" => Part(x, a) = Part(y, a)
  <2> SUFFICES ASSUME a.word = "FILE"
               PROVE  Part(x, a) = Part(y, a)
    OBVIOUS
  <2>1. Commands(SavedReport(told)) /\ \A c \in Items(SavedReport(told)) : c.word # "FILE"
    BY <1>1, SavedIs DEF FlagWords
  <2>2. Commands(Typed(options)) /\ \A c \in Items(Typed(options)) : c.word # "FILE"
    BY TypedIs
  <2>3. Whole(NewReport)
    BY NewReportIs
  <2>4. Part(Reported(NewReport, SavedReport(told)), a) = Part(NewReport, a)
    BY <2>1, <2>3, NoneOf DEF Sets
  <2>5. Part(Reported(NewReport, Typed(options)), a) = Part(NewReport, a)
    BY <2>2, <2>3, NoneOf DEF Sets
  <2>6. QED
    BY <2>4, <2>5 DEF Saved, Base
<1> HIDE DEF backend, x, y, told
<1>6. CASE \E k \in 1 .. Len(backend) : Sets(backend[k], a)
  <2>1. Part(Reported(x, backend), a) = Part(Reported(y, backend), a)
    BY <1>1, <1>2, <1>6, SameSaid
  <2>2. QED
    BY <1>1, <1>3, <2>1 DEF told
<1>7. CASE \A k \in 1 .. Len(backend) : ~Sets(backend[k], a)
  <2>1. Part(Reported(x, backend), a) = Part(x, a)
    BY <1>1, <1>2, <1>7, NoneSets
  <2>2. Part(told, a) = Part(y, a)
    BY <1>1, <1>7, NoneSets
  <2>3. QED
    BY <1>3, <1>4, <1>5, <2>1, <2>2 DEF told
<1>8. QED
  BY <1>6, <1>7

LEMMA AgainIs ==
  ASSUME NEW options, IsReport(options)
  PROVE  Whole(Again(options)) /\ Whole(Told(options))
BY RowsAre, NewReportIs, ToldIs, ReportedWhole DEF Again

LEMMA FlagsComeBack ==
  ASSUME NEW options, IsReport(options)
  PROVE  Again(options).flags = Told(options).flags
<1> DEFINE x == Again(options)
           y == Told(options)
<1>1. Whole(x) /\ Whole(y)
  BY AgainIs
<1>2. ASSUME NEW w \in FlagWords
      PROVE  x.flags[w] = y.flags[w]
  BY OtherParts, PartsComeBack DEF FlagWords, Alive
<1> HIDE DEF x, y
<1>3. x.flags = [w \in FlagWords |-> x.flags[w]] /\ y.flags = [w \in FlagWords |-> y.flags[w]]
  BY <1>1 DEF Whole
<1>4. x.flags = y.flags
  BY <1>2, <1>3
<1>5. QED
  BY <1>4 DEF x, y

LEMMA SelectionsComeBack ==
  ASSUME NEW options, IsReport(options), NEW w \in ChosenWords
  PROVE  Selected(Again(options).chosen[w]) = Selected(Told(options).chosen[w])
<1> DEFINE x == Again(options)
           y == Told(options)
           p == x.chosen[w]
           q == y.chosen[w]
<1>1. Whole(x) /\ Whole(y)
  BY AgainIs
<1>2. IsSelection(p) /\ IsSelection(q)
  BY <1>1 DEF Whole
<1>3. p.mode = q.mode
  BY OtherParts, PartsComeBack DEF ChosenWords, Alive
<1>4. ASSUME q.mode = "LIST", NEW i
      PROVE  i \in p.ids <=> i \in q.ids
  BY <1>4, OtherParts, PartsComeBack DEF ChosenWords, Alive
<1> HIDE DEF x, y, p, q
<1>5. CASE q.mode = "LIST"
  <2>1. p.ids = q.ids
    BY <1>4, <1>5
  <2>2. p = q
    BY <1>2, <1>3, <2>1 DEF IsSelection
  <2>3. QED
    BY <2>2 DEF p, q, x, y
<1>6. CASE q.mode # "LIST"
  <2>1. Selected(p) = [p EXCEPT !.ids = {}] /\ Selected(q) = [q EXCEPT !.ids = {}]
    BY <1>3, <1>6 DEF Selected
  <2>2. [p EXCEPT !.ids = {}] = [mode |-> p.mode, ids |-> {}]
    BY <1>2 DEF IsSelection
  <2>3. [q EXCEPT !.ids = {}] = [mode |-> q.mode, ids |-> {}]
    BY <1>2 DEF IsSelection
  <2>4. QED
    BY <1>3, <2>1, <2>2, <2>3 DEF p, q, x, y
<1>7. QED
  BY <1>5, <1>6

LEMMA ShownAlike ==
  ASSUME NEW p, NEW q, IsSetField(p), IsSetField(q), p.enabled = q.enabled,
         q.enabled => p.precision = q.precision /\ p.below = q.below /\ p.above = q.above
  PROVE  Shown(p) = Shown(q)
<1>1. CASE q.enabled
  BY <1>1 DEF IsSetField
<1>2. CASE ~q.enabled
  BY <1>2 DEF Shown
<1>3. QED
  BY <1>1, <1>2

LEMMA FieldsComeBack ==
  ASSUME NEW options, IsReport(options), NEW w \in FieldWords \ {"F-FACTOR"}
  PROVE  Shown(Again(options).fields[w]) = Shown(Told(options).fields[w])
<1> DEFINE x == Again(options)
           y == Told(options)
           p == x.fields[w]
           q == y.fields[w]
<1>1. Whole(x) /\ Whole(y)
  BY AgainIs
<1>2. IsSetField(p) /\ IsSetField(q)
  BY <1>1 DEF Whole
<1>3. ASSUME NEW part \in FieldParts, part # "enabled" => q.enabled
      PROVE  Part(x, FieldPart(w, part)) = Part(y, FieldPart(w, part))
  BY <1>3, FieldPartIs, PartsComeBack DEF FieldWords, Alive, FieldParts
<1> HIDE DEF x, y
<1>4. p.enabled = q.enabled
  BY <1>3, FieldPartsOf DEF FieldParts
<1>5. ASSUME q.enabled
      PROVE  p.precision = q.precision
  BY <1>3, <1>5, FieldPartsOf DEF FieldParts
<1>6. ASSUME q.enabled
      PROVE  p.below = q.below
  BY <1>3, <1>6, FieldPartsOf DEF FieldParts
<1>7. ASSUME q.enabled
      PROVE  p.above = q.above
  BY <1>3, <1>7, FieldPartsOf DEF FieldParts
<1> HIDE DEF p, q
<1>8. Shown(p) = Shown(q)
  BY <1>2, <1>4, <1>5, <1>6, <1>7, ShownAlike
<1>9. QED
  BY <1>8 DEF p, q, x, y

LEMMA FrictionComesBack ==
  ASSUME NEW options, IsReport(options),
         Open(options.fields["F-FACTOR"]) \/ ~EffectiveFrictionReportField(options).enabled
  PROVE  Shown(Again(options).fields["F-FACTOR"]) = Shown(Told(options).fields["F-FACTOR"])
<1> DEFINE w == "F-FACTOR"
           x == Again(options)
           y == Told(options)
           p == x.fields[w]
           q == y.fields[w]
           e == EffectiveFrictionReportField(options)
           s == Rows(options)
           old == NewReport.fields[w]
<1>1. w \in FieldWords
  BY DEF FieldWords
<1>2. IsSetField(p) /\ IsSetField(q)
  BY <1>1, AgainIs DEF Whole
<1>3. e.enabled \in BOOLEAN /\ q.enabled = e.enabled
  BY EffectiveIs DEF IsField
<1>4. Open(options.fields[w]) => SameFriction(e, q)
  BY EffectiveIs
<1>5. Commands(s) /\ Writes(s, w, e) /\ Whole(NewReport)
  BY RowsAre, NewReportIs
<1>6. old.precision = 3 /\ old.below = NoRef /\ old.above = NoRef
  BY <1>1, NewReportIs
<1>7. x = Reported(NewReport, s)
  BY DEF Again
<1>8. Open(options.fields[w]) \/ ~e.enabled
  OBVIOUS
<1> HIDE DEF w, x, y, e, s
<1>9. p.enabled = e.enabled
  BY <1>1, <1>3, <1>5, <1>7, EnabledIsWritten
<1>10. ASSUME e.enabled
       PROVE  p.precision = q.precision /\ p.below = q.below /\ p.above = q.above
  <2>1. p.precision = IF e.precision = NoRef THEN old.precision ELSE e.precision
    BY <1>1, <1>5, <1>7, <1>10, PrecisionIsWritten
  <2>2. p.below = IF e.below = NoRef THEN old.below ELSE e.below
    BY <1>1, <1>5, <1>7, <1>10, BelowIsWritten
  <2>3. p.above = IF e.above = NoRef THEN old.above ELSE e.above
    BY <1>1, <1>5, <1>7, <1>10, AboveIsWritten
  <2>4. SameFriction(e, q)
    BY <1>4, <1>8, <1>10
  <2> HIDE DEF p, q, old
  <2>5. QED
    BY <1>6, <2>1, <2>2, <2>3, <2>4 DEF SameFriction
<1> HIDE DEF p, q
<1>11. Shown(p) = Shown(q)
  BY <1>2, <1>3, <1>9, <1>10, ShownAlike
<1>12. QED
  BY <1>11 DEF p, q, x, y, w

-----------------------------------------------------------------------------
(* The network that a text says. *)

LEMMA LeastOfIs ==
  ASSUME NEW S, S \subseteq Nat, S # {}
  PROVE  \E j \in S : \A i \in S : j <= i
<1> DEFINE R == OpToRel(<, Nat)
<1>1. IsWellFoundedOn(R, Nat)
  BY NatLessThanWellFounded
<1>2. \A x, y \in Nat : <<x, y>> \in R <=> x < y
  BY DEF OpToRel
<1> HIDE DEF R
<1>3. PICK j \in S : \A i \in S : ~ (<<i, j>> \in R)
  BY <1>1, WFMin
<1>4. ASSUME NEW i \in S
      PROVE  j <= i
  <2>1. i \in Nat /\ j \in Nat
    BY <1>3
  <2>2. ~ (i < j)
    BY <1>2, <1>3, <1>4, <2>1
  <2>3. QED
    BY <2>1, <2>2
<1>5. QED
  BY <1>3, <1>4

LEMMA FirstNotInIs ==
  ASSUME NEW ids, IsList(ids), NEW taken, ~(Items(ids) \subseteq taken)
  PROVE  FirstNotIn(ids, taken) \in Items(ids) \ taken
<1> DEFINE n == Len(ids)
           S == {k \in 1 .. n : ids[k] \notin taken}
           Good(k) == ids[k] \notin taken /\ \A i \in 1 .. k - 1 : ids[i] \in taken
<1>1. n \in Nat /\ DOMAIN ids = 1 .. n /\ (\A k \in 1 .. n : ids[k] \in Items(ids)) /\ \A x \in Items(ids) : \E k \in 1 .. n : ids[k] = x
  BY ListIs
<1>2. S # {} /\ S \subseteq Nat
  BY <1>1
<1>3. PICK j \in S : \A i \in S : j <= i
  BY <1>2, LeastOfIs
<1>4. j \in DOMAIN ids /\ Good(j)
  BY <1>1, <1>3
<1> DEFINE k == CHOOSE k \in DOMAIN ids : Good(k)
<1>5. k \in DOMAIN ids /\ Good(k)
  BY <1>4
<1>6. FirstNotIn(ids, taken) = ids[k]
  BY DEF FirstNotIn
<1> HIDE DEF k
<1>7. QED
  BY <1>1, <1>5, <1>6

SaysNetwork(t, n) ==
    /\ t.patterns = n.patterns \union ({InternalConstantDemandPatternId(n)} \ {NoRef})
    /\ t.pattern = IF n.default # NoRef THEN n.default ELSE FirstNotIn(NoDefaultIds, t.patterns)
    /\ t.demands = PreserveDemandCategories(n)
    /\ t.rules = [r \in DOMAIN n.rules |-> [form |-> "hours", value |-> n.rules[r]]]
    /\ t.map = PreserveMapLayoutSections(n)

LEMMA ConstantIs ==
  ASSUME NEW n, IsNetwork(n)
  PROVE  LET constant == InternalConstantDemandPatternId(n)
         IN  /\ n.default = NoRef => constant = NoRef
             /\ n.default # NoRef /\ HasConstantDemand(n) => constant # NoRef /\ constant \notin n.patterns
<1>1. CASE n.default # NoRef /\ HasConstantDemand(n)
  BY <1>1, IdsAssumption, FirstNotInIs DEF InternalConstantDemandPatternId, IsList, IsNetwork
<1>2. CASE n.default = NoRef
  BY <1>2 DEF InternalConstantDemandPatternId
<1>3. QED
  BY <1>1, <1>2

LEMMA ReopenedDefaultIs ==
  ASSUME NEW n, IsNetwork(n), NEW t, SaysNetwork(t, n)
  PROVE  ReopenedDefault(t) = n.default
<1>1. CASE n.default # NoRef
  BY <1>1 DEF SaysNetwork, IsNetwork, ReopenedDefault
<1>2. CASE n.default = NoRef
  <2>1. t.patterns = n.patterns
    BY <1>2, ConstantIs DEF SaysNetwork
  <2>2. t.pattern = FirstNotIn(NoDefaultIds, n.patterns)
    BY <1>2, <2>1 DEF SaysNetwork
  <2>3. IsList(NoDefaultIds) /\ ~(Items(NoDefaultIds) \subseteq n.patterns)
    BY IdsAssumption DEF IsList, IsNetwork
  <2>4. FirstNotIn(NoDefaultIds, n.patterns) \in Items(NoDefaultIds) \ n.patterns
    BY <2>3, FirstNotInIs
  <2>5. NoRef \notin Items(NoDefaultIds)
    BY IdsAssumption
  <2>6. t.pattern # NoRef /\ t.pattern \notin t.patterns
    BY <2>1, <2>2, <2>4, <2>5
  <2>7. QED
    BY <1>2, <2>6 DEF ReopenedDefault
<1>3. QED
  BY <1>1, <1>2

LEMMA SixDecimalsIs ==
  ASSUME NEW b \in Int
  PROVE  SixDecimals(b) - b \in -5 .. 5
BY DEF SixDecimals

LEMMA DemandComesBack ==
  ASSUME NEW n, IsNetwork(n), NEW t, SaysNetwork(t, n), NEW j \in DOMAIN n.demands, NEW k \in DOMAIN n.demands[j]
  PROVE  LET meant == n.demands[j][k]
             row == t.demands[j][k]
             pattern == ReopenedPattern(t, row)
         IN  /\ row.category = meant.category
             /\ row.base - meant.base \in -5 .. 5
             /\ row.pattern \in {NoRef} \union t.patterns
             /\ CASE meant.pattern = Constant -> pattern \notin n.patterns
                  [] meant.pattern = NoRef -> pattern = n.default
                  [] OTHER -> pattern = meant.pattern
<1> DEFINE meant == n.demands[j][k]
           row == t.demands[j][k]
           pattern == ReopenedPattern(t, row)
           constant == InternalConstantDemandPatternId(n)
<1>1. row = [base |-> SixDecimals(meant.base),
             pattern |-> IF meant.pattern = Constant THEN constant ELSE meant.pattern,
             category |-> meant.category]
  BY DEF SaysNetwork, PreserveDemandCategories
<1>2. meant.base \in Int /\ meant.pattern \in {NoRef, Constant} \union n.patterns
  BY DEF Items, IsNetwork
<1>3. t.patterns = n.patterns \union ({constant} \ {NoRef}) /\ NoRef \notin n.patterns /\ NoRef # Constant
  BY IdsAssumption DEF SaysNetwork, IsNetwork
<1>4. meant.pattern = Constant => HasConstantDemand(n)
  BY DEF HasConstantDemand, Items
<1>5. /\ n.default = NoRef => constant = NoRef
      /\ n.default # NoRef /\ HasConstantDemand(n) => constant # NoRef /\ constant \notin n.patterns
  BY ConstantIs
<1>6. ReopenedDefault(t) = n.default
  BY ReopenedDefaultIs
<1> HIDE DEF meant, row, constant
<1>7. row.category = meant.category /\ row.base = SixDecimals(meant.base)
      /\ row.pattern = IF meant.pattern = Constant THEN constant ELSE meant.pattern
  BY <1>1
<1>8. row.base - meant.base \in -5 .. 5
  BY <1>2, <1>7, SixDecimalsIs
<1>9. row.pattern \in {NoRef} \union t.patterns
  BY <1>2, <1>3, <1>7
<1>10. pattern = IF row.pattern = NoRef THEN n.default ELSE row.pattern
  BY <1>6 DEF ReopenedPattern
<1> HIDE DEF pattern
<1>11. meant.pattern = Constant => pattern \notin n.patterns
  BY <1>3, <1>4, <1>5, <1>7, <1>10
<1>12. meant.pattern = NoRef => pattern = n.default
  BY <1>3, <1>7, <1>10
<1>13. meant.pattern # Constant /\ meant.pattern # NoRef => pattern = meant.pattern
  BY <1>7, <1>10
<1>14. QED
  BY <1>3, <1>7, <1>8, <1>9, <1>11, <1>12, <1>13 DEF meant, row, pattern

LEMMA NetworkComesBack ==
  ASSUME IsNetwork(Network), SaysNetwork(text, Network)
  PROVE  NetworkKept
<1>1. ASSUME NEW r \in DOMAIN Network.rules
      PROVE  text.rules[r] = [form |-> "hours", value |-> Network.rules[r]]
  BY <1>1 DEF SaysNetwork
<1>2. ASSUME NEW k \in DOMAIN Network.labels
      PROVE  text.map.labels[k] = IF Network.labels[k] \in Network.nodes THEN Network.labels[k] ELSE NoRef
  BY <1>2 DEF SaysNetwork, PreserveMapLayoutSections
<1> DEFINE n == Network
           t == text
<1> HIDE DEF n, t
<1>3. ASSUME NEW j \in DOMAIN n.demands, NEW k \in DOMAIN n.demands[j]
      PROVE  LET meant == n.demands[j][k]
                 row == t.demands[j][k]
                 pattern == ReopenedPattern(t, row)
             IN  /\ row.category = meant.category
                 /\ row.base - meant.base \in -5 .. 5
                 /\ row.pattern \in {NoRef} \union t.patterns
                 /\ CASE meant.pattern = Constant -> pattern \notin n.patterns
                      [] meant.pattern = NoRef -> pattern = n.default
                      [] OTHER -> pattern = meant.pattern
  BY DemandComesBack DEF n, t
<1>4. QED
  BY <1>1, <1>2, <1>3 DEF NetworkKept, n, t

-----------------------------------------------------------------------------
(* The text that is retrieved of a project. *)

HasBuilt(p, n) ==
    /\ p.patterns = n.patterns \union ({InternalConstantDemandPatternId(n)} \ {NoRef})
    /\ p.default = n.default /\ p.rules = n.rules

IsText(t) ==
    t = [pattern |-> t.pattern, patterns |-> t.patterns, demands |-> t.demands,
         report |-> t.report, rules |-> t.rules, map |-> t.map]

TextSections == {"pattern", "patterns", "demands", "report", "rules", "map"}

LEMMA RulesAndDemands ==
  ASSUME NEW t, IsText(t), NEW x, NEW y
  PROVE  LET u == [t EXCEPT !.rules = x, !.demands = y]
         IN  u = [pattern |-> t.pattern, patterns |-> t.patterns, demands |-> y,
                  report |-> t.report, rules |-> x, map |-> t.map]
<1> DEFINE u == [t EXCEPT !.rules = x, !.demands = y]
           v == [pattern |-> t.pattern, patterns |-> t.patterns, demands |-> y,
                 report |-> t.report, rules |-> x, map |-> t.map]
<1>1. DOMAIN t = TextSections
  BY DEF IsText, TextSections
<1>2. u = [f \in TextSections |-> u[f]] /\ u.rules = x /\ u.demands = y /\ u.pattern = t.pattern
      /\ u.patterns = t.patterns /\ u.report = t.report /\ u.map = t.map
  BY <1>1 DEF TextSections
<1> HIDE DEF u
<1>3. v = [f \in TextSections |-> v[f]]
  BY DEF TextSections
<1>4. \A f \in TextSections : u[f] = v[f]
  BY <1>2 DEF TextSections
<1> HIDE DEF v
<1>5. u = v
  BY <1>2, <1>3, <1>4
<1>6. QED
  BY <1>5 DEF u, v

LEMMA ReportAndMap ==
  ASSUME NEW t, IsText(t), NEW x, NEW y
  PROVE  LET u == [t EXCEPT !.report = x, !.map = y]
         IN  u = [pattern |-> t.pattern, patterns |-> t.patterns, demands |-> t.demands,
                  report |-> x, rules |-> t.rules, map |-> y]
<1> DEFINE u == [t EXCEPT !.report = x, !.map = y]
           v == [pattern |-> t.pattern, patterns |-> t.patterns, demands |-> t.demands,
                 report |-> x, rules |-> t.rules, map |-> y]
<1>1. DOMAIN t = TextSections
  BY DEF IsText, TextSections
<1>2. u = [f \in TextSections |-> u[f]] /\ u.rules = t.rules /\ u.demands = t.demands /\ u.pattern = t.pattern
      /\ u.patterns = t.patterns /\ u.report = x /\ u.map = y
  BY <1>1 DEF TextSections
<1> HIDE DEF u
<1>3. v = [f \in TextSections |-> v[f]]
  BY DEF TextSections
<1>4. \A f \in TextSections : u[f] = v[f]
  BY <1>2 DEF TextSections
<1> HIDE DEF v
<1>5. u = v
  BY <1>2, <1>3, <1>4
<1>6. QED
  BY <1>5 DEF u, v

LEMMA SavedTextIs ==
  ASSUME NEW p
  PROVE  LET t == SavedText(p)
         IN  /\ IsText(t) /\ t.pattern = p.default /\ t.patterns = p.patterns
             /\ t.report = SavedReport(p.report)
             /\ t.rules = [r \in DOMAIN p.rules |-> [form |-> "clock", value |-> p.rules[r]]]
BY DEF SavedText, IsText

LEMMA NormalizedIs ==
  ASSUME NEW rules
  PROVE  NormalizeSavedRuleFillDrainTimes([r \in DOMAIN rules |-> [form |-> "clock", value |-> rules[r]]])
            = [r \in DOMAIN rules |-> [form |-> "hours", value |-> rules[r]]]
BY DEF NormalizeSavedRuleFillDrainTimes

LEMMA WithDemandsIs ==
  ASSUME NEW p, NEW n
  PROVE  LET t == TextWithDemands(p, n)
         IN  /\ IsText(t) /\ t.pattern = p.default /\ t.patterns = p.patterns
             /\ t.report = SavedReport(p.report) /\ t.demands = PreserveDemandCategories(n)
             /\ t.rules = [r \in DOMAIN p.rules |-> [form |-> "hours", value |-> p.rules[r]]]
<1> DEFINE s == SavedText(p)
           x == NormalizeSavedRuleFillDrainTimes(s.rules)
           y == PreserveDemandCategories(n)
           t == TextWithDemands(p, n)
<1>1. /\ IsText(s) /\ s.pattern = p.default /\ s.patterns = p.patterns /\ s.report = SavedReport(p.report)
      /\ s.rules = [r \in DOMAIN p.rules |-> [form |-> "clock", value |-> p.rules[r]]]
  BY SavedTextIs
<1>2. x = [r \in DOMAIN p.rules |-> [form |-> "hours", value |-> p.rules[r]]]
  BY <1>1, NormalizedIs
<1>3. t = [s EXCEPT !.rules = x, !.demands = y]
  BY DEF TextWithDemands
<1> HIDE DEF s, x, y, t
<1>4. t = [pattern |-> s.pattern, patterns |-> s.patterns, demands |-> y,
           report |-> s.report, rules |-> x, map |-> s.map]
  BY <1>1, <1>3, RulesAndDemands
<1>5. IsText(t)
  BY <1>4 DEF IsText
<1>6. t.pattern = s.pattern /\ t.patterns = s.patterns /\ t.demands = y /\ t.report = s.report /\ t.rules = x
  BY <1>4
<1>7. QED
  BY <1>1, <1>2, <1>5, <1>6 DEF t, y

LEMMA TextIs ==
  ASSUME NEW p, NEW n, HasBuilt(p, n), p.report = Told(n.report)
  PROVE  SaysNetwork(RetrievedText(p, n), n) /\ RetrievedText(p, n).report = Rows(n.report)
<1> DEFINE s == TextWithDemands(p, n)
           d == PreserveNoDefaultDemandPattern(s, p)
           x == PreserveFrictionReportField(PreserveBackendReportCommands(d.report, n.report.backend), n.report)
           y == PreserveMapLayoutSections(n)
           t == RetrievedText(p, n)
           a == FirstNotIn(NoDefaultIds, p.patterns)
<1>1. /\ IsText(s) /\ s.pattern = p.default /\ s.patterns = p.patterns
      /\ s.report = SavedReport(p.report) /\ s.demands = PreserveDemandCategories(n)
      /\ s.rules = [r \in DOMAIN p.rules |-> [form |-> "hours", value |-> p.rules[r]]]
  BY WithDemandsIs
<1>2. d = IF p.default # NoRef THEN s ELSE [s EXCEPT !.pattern = a]
  BY DEF PreserveNoDefaultDemandPattern
<1>3. t = [d EXCEPT !.report = x, !.map = y]
  BY DEF RetrievedText
<1>4. d.report = s.report => x = Rows(n.report)
  BY <1>1 DEF HasBuilt, Rows, Restored
<1> HIDE DEF s, d, x, y, t, a
<1>5. IsText(d) /\ d.patterns = s.patterns /\ d.report = s.report /\ d.demands = s.demands /\ d.rules = s.rules
  BY <1>1, <1>2 DEF IsText
<1>6. d.pattern = IF p.default # NoRef THEN p.default ELSE a
  BY <1>1, <1>2 DEF IsText
<1>7. t = [pattern |-> d.pattern, patterns |-> d.patterns, demands |-> d.demands,
           report |-> x, rules |-> d.rules, map |-> y]
  BY <1>3, <1>5, ReportAndMap
<1>8. t.pattern = d.pattern /\ t.patterns = d.patterns /\ t.demands = d.demands /\ t.report = x /\ t.rules = d.rules /\ t.map = y
  BY <1>7
<1>9. t.report = Rows(n.report)
  BY <1>4, <1>5, <1>8
<1>10. t.patterns = p.patterns /\ p.default = n.default /\ p.rules = n.rules
       /\ p.patterns = n.patterns \union ({InternalConstantDemandPatternId(n)} \ {NoRef})
  BY <1>1, <1>5, <1>8 DEF HasBuilt
<1>11. t.pattern = IF n.default # NoRef THEN n.default ELSE FirstNotIn(NoDefaultIds, t.patterns)
  BY <1>6, <1>8, <1>10 DEF a
<1>12. t.demands = PreserveDemandCategories(n)
  BY <1>1, <1>5, <1>8
<1>13. t.rules = [r \in DOMAIN n.rules |-> [form |-> "hours", value |-> n.rules[r]]]
  BY <1>1, <1>5, <1>8, <1>10
<1>14. SaysNetwork(t, n)
  BY <1>8, <1>10, <1>11, <1>12, <1>13 DEF SaysNetwork, y
<1>15. QED
  BY <1>9, <1>14 DEF t

LEMMA HeldNothing ==
  ASSUME NEW field, IsField(field), ~Open(field)
  PROVE  field # [field EXCEPT !.precision = NoRef, !.below = NoRef, !.above = NoRef]
BY DEF IsField, Open

LEMMA ReportComesBack ==
  ASSUME IsReport(Network.report), project.report = Told(Network.report), text.report = Rows(Network.report)
  PROVE  ReportKept
<1> DEFINE options == Network.report
           again == ReopenedReport(text)
           w == "F-FACTOR"
           friction == options.fields[w]
<1> SUFFICES ASSUME ~FrictionQualifiersWereHeld
             PROVE  /\ again.flags = project.report.flags
                    /\ \A word \in {"NODES", "LINKS"} : Selected(again.chosen[word]) = Selected(project.report.chosen[word])
                    /\ \A word \in Items(ReportFields) : Shown(again.fields[word]) = Shown(project.report.fields[word])
  BY DEF ReportKept
<1>1. again = Again(options)
  BY DEF ReopenedReport, Again
<1>2. IsField(friction)
  BY FieldWordsAre DEF FieldWords, IsReport
<1>3. Open(friction) \/ ~EffectiveFrictionReportField(options).enabled
  BY <1>2, HeldNothing DEF FrictionQualifiersWereHeld, Open
<1>4. IsReport(options) /\ project.report = Told(options)
  OBVIOUS
<1>5. Shown(Again(options).fields[w]) = Shown(Told(options).fields[w])
  BY <1>3, <1>4, FrictionComesBack
<1> HIDE DEF options, again
<1>6. Again(options).flags = Told(options).flags
  BY <1>4, FlagsComeBack
<1>7. \A word \in ChosenWords : Selected(Again(options).chosen[word]) = Selected(Told(options).chosen[word])
  BY <1>4, SelectionsComeBack
<1>8. \A word \in FieldWords : Shown(Again(options).fields[word]) = Shown(Told(options).fields[word])
  BY <1>4, <1>5, FieldsComeBack
<1>9. QED
  BY <1>1, <1>4, <1>6, <1>7, <1>8, FieldWordsAre DEF ChosenWords

-----------------------------------------------------------------------------
(* What of a run is exported: how it comes to be, and that it stays. *)

(* What the builder has put in stays.                                      *)
BuiltKept == stage \in Later \union {"hydraulics"} => HasBuilt(project, Network)

(* Before the report's calls the toolkit's report is the one of a new      *)
(* project.                                                                *)
Unreported == stage \in {"initialize", "hydraulics"} \/ (request.inp /\ stage \in {"analysis", "reactions"})

OneText == request.inp => stage # "children"

ReportFresh == Unreported => project.report = NewReport

(* The report is what the commands given so far make of it.                *)
ReportUnderway ==
    stage = "report" /\ failed = <<>> =>
        LET commands == ReportCommands(Network.report)
            plan == ReportPlan(Network)
        IN  IF SelectionsResolve(Network.report, Network.nodes, Network.links)
              THEN \E k \in 0 .. Len(commands) :
                      todo = Rest(plan, k) /\ project.report = ReportedRun(NewReport, commands)[k]
              ELSE todo = plan

(* The text says the network, and the report rows that are restored; the   *)
(* project still has the report the text was saved from.                   *)
Texted ==
    text # NoRef =>
        /\ stage \in {"children", "analysis", "reactions", "returned"} /\ (request.inp => stage = "returned")
        /\ SaysNetwork(text, Network) /\ text.report = Rows(Network.report)
        /\ project.report = Told(Network.report)

ExportInv == BuiltKept /\ OneText /\ ReportFresh /\ ReportUnderway /\ Texted

(* The calls before the report, and those behind it, leave it alone.       *)
LEMMA CallsKeep ==
  ASSUME Shape, TodoFits, CallSucceeds
  PROVE  /\ UNCHANGED <<request, stage, failed, text>>
         /\ stage \in Later \union {"hydraulics"} =>
               project'.patterns = project.patterns /\ project'.default = project.default /\ project'.rules = project.rules
         /\ stage \in {"hydraulics", "analysis", "reactions"} => project'.report = project.report
         /\ stage = "initialize" => project'.report \in {NewReport, project.report}
         /\ stage \notin {"children", "returned"}
<1> DEFINE c == Head(todo)
<1>1. /\ todo # <<>> /\ c.fine /\ project' = Called(project, c) /\ IsProject(project) /\ request \in Requests
      /\ UNCHANGED <<request, stage, failed, text>>
  BY DEF CallSucceeds, Shape
<1>2. c \in Items(todo)
  BY <1>1, CallIs
<1>3. stage \notin {"children", "returned"}
  BY <1>1 DEF TodoFits
<1>4. stage = "report" => c.cell[1] = "report"
  BY <1>1, <1>2 DEF TodoFits
<1>5. stage = "hydraulics" => c.cell[1] \in {"HEADLOSSFORM", "ROUGHNESS"}
  BY <1>2 DEF TodoFits
<1>6. stage = "initialize" => c.cell[1] # "report"
  BY <1>2 DEF TodoFits
<1>7. stage \in {"analysis", "reactions"} => c.cell[1] \in QualityNames
  BY <1>1, <1>2, NetworkIs, QualityCellsAre DEF TodoFits
<1> HIDE DEF c
<1>8. \A name \in QualityNames : name \notin {"init", "report"}
  BY DEF QualityNames, SettingNames
<1>9. stage \in Later \union {"hydraulics"} => c.cell[1] # "init"
  BY <1>3, <1>4, <1>5, <1>7, <1>8 DEF Later
<1>10. stage \in Later \union {"hydraulics"} =>
          project'.patterns = project.patterns /\ project'.default = project.default /\ project'.rules = project.rules
  BY <1>1, <1>9, CalledKeeps
<1>11. stage \in {"hydraulics", "analysis", "reactions"} => c.cell[1] \notin {"init", "report"}
  BY <1>5, <1>7, <1>8
<1>12. stage \in {"hydraulics", "analysis", "reactions"} => project'.report = project.report
  BY <1>1, <1>11, CalledSilent
<1>13. stage = "initialize" => project'.report \in {NewReport, project.report}
  BY <1>1, <1>6, CalledReport
<1>14. QED
  BY <1>1, <1>3, <1>10, <1>12, <1>13

(* A network keeps what it has when it is built.                           *)
LEMMA BuildKeeps ==
  ASSUME Shape, Build
  PROVE  HasBuilt(project', Network) /\ project'.report = project.report
BY NetworkIs, BuiltIs DEF Build, Shape, HasBuilt

LEMMA BuiltKeptStep ==
  ASSUME Shape, TodoFits, BuiltKept, Moves
  PROVE  BuiltKept'
<1> SUFFICES ASSUME stage' \in Later \union {"hydraulics"}
             PROVE  HasBuilt(project', Network')
  BY DEF BuiltKept
<1>1. CASE CallSucceeds
  BY <1>1, CallsKeep DEF BuiltKept, Network, HasBuilt
<1>2. CASE Build
  BY <1>2, BuildKeeps DEF Build, Network
<1>3. CASE stage' \in Later /\ ~CallSucceeds
  BY <1>3, LaterMoves DEF BuiltKept, Network
<1>4. CASE stage' = "hydraulics" /\ ~CallSucceeds /\ ~Build
  <2>1. UNCHANGED <<request, stage, project>>
    <3>1. CallFails \/ Retrieve \/ NextChild \/ SolveChild
      BY <1>4 DEF Moves, Begins
    <3>2. ~Retrieve /\ ~SolveChild
      BY <1>4 DEF Retrieve, SolveChild
    <3>3. ~NextChild
      BY <1>4 DEF NextChild, Begin
    <3>4. QED
      BY <3>1, <3>2, <3>3 DEF CallFails
  <2>2. HasBuilt(project, Network) /\ Network' = Network
    BY <1>4, <2>1 DEF BuiltKept, Network
  <2>3. QED
    BY <2>1, <2>2
<1>5. QED
  BY <1>1, <1>2, <1>3, <1>4

LEMMA OneTextStep ==
  ASSUME OneText, Moves
  PROVE  OneText'
<1>1. CASE CallSucceeds \/ CallFails
  BY <1>1 DEF CallSucceeds, CallFails, OneText
<1>2. CASE Build
  BY <1>2 DEF Build, Begin, OneText
<1>3. CASE Retrieve
  BY <1>3 DEF Retrieve, OneText
<1>4. CASE NextChild
  BY <1>4 DEF NextChild, OneText
<1>5. CASE SolveChild
  BY <1>5 DEF SolveChild, OneText
<1>6. CASE ~(CallSucceeds \/ CallFails \/ Build \/ Retrieve \/ NextChild \/ SolveChild)
  BY <1>6 DEF Moves, Begins, OneText
<1>7. QED
  BY <1>1, <1>2, <1>3, <1>4, <1>5, <1>6

LEMMA ReportFreshStep ==
  ASSUME Shape, TodoFits, OneText, ReportFresh, Moves
  PROVE  ReportFresh'
<1> SUFFICES ASSUME Unreported'
             PROVE  project'.report = NewReport
  BY DEF ReportFresh
<1>1. CASE CallSucceeds
  BY <1>1, CallsKeep DEF Unreported, ReportFresh
<1>2. CASE Build
  <2>1. stage = "initialize" /\ project'.report = project.report
    BY <1>2, BuildKeeps DEF Build, Ready
  <2>2. QED
    BY <2>1 DEF ReportFresh, Unreported
<1>3. CASE CallFails
  BY <1>3 DEF CallFails, Unreported, ReportFresh
<1>4. CASE Retrieve
  BY <1>4 DEF Retrieve, Unreported
<1>5. CASE SolveChild
  BY <1>5 DEF SolveChild, Unreported
<1>6. CASE NextChild
  <2>1. stage = "children" /\ UNCHANGED <<request, project>> /\ stage' \in {"children", "analysis"}
    BY <1>6 DEF NextChild, Begin
  <2>2. ~request.inp
    BY <2>1 DEF OneText
  <2>3. QED
    BY <2>1, <2>2 DEF Unreported
<1>7. CASE ~(CallSucceeds \/ CallFails \/ Build \/ Retrieve \/ NextChild \/ SolveChild)
  <2>1. UNCHANGED <<request, project>>
    BY <1>7 DEF Moves, Begins
  <2>2. \/ stage = "hydraulics" /\ stage' = "analysis"
        \/ stage = "analysis" /\ stage' = "reactions"
    BY <1>7 DEF Moves, Begins, Unreported
  <2>3. QED
    BY <2>1, <2>2 DEF Unreported, ReportFresh
<1>8. QED
  BY <1>1, <1>2, <1>3, <1>4, <1>5, <1>6, <1>7

LEMMA ReportCallsAre ==
  ASSUME NEW n, IsReport(n.report), SelectionsResolve(n.report, n.nodes, n.links)
  PROVE  LET commands == ReportCommands(n.report)
             plan == ReportPlan(n)
         IN  /\ Commands(commands) /\ IsList(plan) /\ Len(plan) = Len(commands)
             /\ \A k \in 1 .. Len(commands) : plan[k] = Call(<<"report", NoRef>>, commands[k], TRUE)
<1> DEFINE commands == ReportCommands(n.report)
           plan == ReportPlan(n)
<1>1. Commands(commands)
  BY TypedIs, CommandsJoin
<1>2. DOMAIN commands = 1 .. Len(commands) /\ Len(commands) \in Nat
  BY <1>1, ListIs DEF Commands
<1>3. plan = [k \in 1 .. Len(commands) |-> Call(<<"report", NoRef>>, commands[k], TRUE)]
  BY <1>2 DEF ReportPlan
<1> HIDE DEF commands, plan
<1>4. IsList(plan) /\ Len(plan) = Len(commands)
  BY <1>2, <1>3, MadeIsList
<1>5. QED
  BY <1>1, <1>3, <1>4 DEF commands, plan

(* The report begins with nothing told, and goes on command by command.    *)
LEMMA ReportBegins ==
  ASSUME request \in Requests, project.report = NewReport,
         stage' = "report", todo' = ReportPlan(Network), UNCHANGED <<request, project>>
  PROVE  ReportUnderway'
<1> DEFINE commands == ReportCommands(Network.report)
           plan == ReportPlan(Network)
           ok == SelectionsResolve(Network.report, Network.nodes, Network.links)
<1>1. Network' = Network /\ IsReport(Network.report)
  BY NetworkIs DEF Network
<1>2. ASSUME ok
      PROVE  0 \in 0 .. Len(commands) /\ plan = Rest(plan, 0) /\ NewReport = ReportedRun(NewReport, commands)[0]
  <2>1. Commands(commands) /\ IsList(plan) /\ Len(plan) = Len(commands)
    BY <1>1, <1>2, ReportCallsAre
  <2>2. Len(commands) \in Nat
    BY <2>1, ListIs DEF Commands
  <2>3. 0 \in 0 .. Len(commands)
    BY <2>2
  <2>4. Whole(NewReport)
    BY NewReportIs
  <2>5. ReportedRun(NewReport, commands)[0] = NewReport
    BY <2>1, <2>4, ReportedAlong
  <2>6. Rest(plan, 0) = plan
    BY <2>1, <2>3, RestIs
  <2>7. QED
    BY <2>3, <2>5, <2>6
<1>3. UNCHANGED <<commands, plan, ok>>
  BY <1>1
<1> HIDE DEF commands, plan, ok
<1>4. todo' = plan' /\ project'.report = NewReport
  BY <1>3 DEF plan
<1>5. CASE ok
  <2>1. \E k \in 0 .. Len(commands') : todo' = Rest(plan', k) /\ project'.report = ReportedRun(NewReport, commands')[k]
    BY <1>2, <1>3, <1>4, <1>5
  <2>2. QED
    BY <1>3, <1>5, <2>1 DEF ReportUnderway, commands, plan, ok
<1>6. CASE ~ok
  BY <1>3, <1>4, <1>6 DEF ReportUnderway, commands, plan, ok
<1>7. QED
  BY <1>5, <1>6

LEMMA ReportCall ==
  ASSUME Shape, TodoFits, ReportUnderway, stage = "report", CallSucceeds
  PROVE  ReportUnderway'
<1> DEFINE commands == ReportCommands(Network.report)
           plan == ReportPlan(Network)
           ok == SelectionsResolve(Network.report, Network.nodes, Network.links)
           run == ReportedRun(NewReport, commands)
           c == Head(todo)
<1>1. /\ todo # <<>> /\ c.fine /\ project' = Called(project, c) /\ todo' = Tail(todo) /\ IsProject(project)
      /\ request \in Requests /\ UNCHANGED <<request, stage, failed>>
  BY DEF CallSucceeds, Shape
<1>2. Network' = Network /\ IsReport(Network.report)
  BY <1>1, NetworkIs DEF Network
<1>3. UNCHANGED <<commands, plan, ok, run>>
  BY <1>2
<1> SUFFICES ASSUME failed = <<>>
             PROVE  ok /\ \E k \in 0 .. Len(commands) : todo' = Rest(plan, k) /\ project'.report = run[k]
  BY <1>1, <1>3 DEF ReportUnderway
<1>4. ok
  <2>1. CASE ~ok
    BY <1>1, <2>1 DEF ReportUnderway, ReportPlan, Call
  <2>2. QED
    BY <2>1
<1>5. /\ Commands(commands) /\ IsList(plan) /\ Len(plan) = Len(commands)
      /\ \A k \in 1 .. Len(commands) : plan[k] = Call(<<"report", NoRef>>, commands[k], TRUE)
  BY <1>2, <1>4, ReportCallsAre
<1>6. PICK k \in 0 .. Len(commands) : todo = Rest(plan, k) /\ project.report = run[k]
  BY <1>4 DEF ReportUnderway
<1>7. \A j \in 0 .. Len(commands) - 1 : j + 1 \in 1 .. Len(commands) /\ run[j + 1] = SetReport(run[j], commands[j + 1])
  BY <1>5, NewReportIs, ReportedAlong
<1>8. k + 1 \in 1 .. Len(plan) /\ c = plan[k + 1] /\ Tail(todo) = Rest(plan, k + 1)
  <2> HIDE DEF plan, commands
  <2>1. Head(Rest(plan, k)) = plan[k + 1] /\ k + 1 \in 1 .. Len(plan) /\ Tail(Rest(plan, k)) = Rest(plan, k + 1)
    <3>1. k \in 0 .. Len(plan) /\ Rest(plan, k) # <<>>
      BY <1>1, <1>5, <1>6
    <3>2. QED
      BY <1>5, <3>1, RestIs
  <2>2. QED
    BY <1>6, <2>1
<1>n. Len(commands) \in Nat
  BY <1>5, ListIs DEF Commands
<1> HIDE DEF commands, plan, ok, run, c
<1>9. k \in 0 .. Len(commands) - 1 /\ k + 1 \in 1 .. Len(commands) /\ k + 1 \in 0 .. Len(commands)
  BY <1>5, <1>8, <1>n
<1>10. c = Call(<<"report", NoRef>>, commands[k + 1], TRUE)
  BY <1>5, <1>8, <1>9
<1>11. c.cell[1] = "report" /\ c.value = commands[k + 1]
  BY <1>10 DEF Call
<1>12. project'.report = SetReport(project.report, commands[k + 1])
  BY <1>1, <1>11, CalledReport
<1>13. run[k + 1] = SetReport(run[k], commands[k + 1])
  BY <1>7, <1>9
<1>14. todo' = Rest(plan, k + 1) /\ project'.report = run[k + 1]
  BY <1>1, <1>6, <1>8, <1>12, <1>13
<1>15. QED
  BY <1>4, <1>9, <1>14

LEMMA ReportUnderwayStep ==
  ASSUME Shape, TodoFits, ReportFresh, ReportUnderway, Moves
  PROVE  ReportUnderway'
<1> SUFFICES ASSUME stage' = "report", failed' = <<>>
             PROVE  ReportUnderway'
  BY DEF ReportUnderway
<1>r. request \in Requests
  BY DEF Shape
<1>1. CASE CallSucceeds
  BY <1>1, ReportCall DEF CallSucceeds
<1>2. CASE CallFails
  BY <1>2, FailedGrows
<1>3. CASE Build \/ Retrieve \/ SolveChild
  BY <1>3 DEF Build, Begin, Retrieve, SolveChild
<1>4. CASE NextChild
  BY <1>4 DEF NextChild, Begin
<1>5. CASE ~(CallSucceeds \/ CallFails \/ Build \/ Retrieve \/ NextChild \/ SolveChild)
  <2>1. UNCHANGED <<request, project>> /\ todo' = ReportPlan(Network)
    BY <1>5 DEF Moves, Begins
  <2>2. stage = "hydraulics" \/ (stage = "reactions" /\ request.inp)
    BY <1>5 DEF Moves, Begins
  <2>3. project.report = NewReport
    BY <2>2 DEF ReportFresh, Unreported
  <2>4. QED
    BY <1>r, <2>1, <2>3, ReportBegins
<1>6. QED
  BY <1>1, <1>2, <1>3, <1>4, <1>5

(* When it has been configured without a failure, all has been told.       *)
LEMMA ReportEnds ==
  ASSUME Shape, ReportUnderway, stage = "report", todo = <<>>, failed = <<>>
  PROVE  project.report = Told(Network.report)
<1> DEFINE commands == ReportCommands(Network.report)
           plan == ReportPlan(Network)
           ok == SelectionsResolve(Network.report, Network.nodes, Network.links)
           run == ReportedRun(NewReport, commands)
<1>1. IsReport(Network.report)
  BY NetworkIs DEF Shape
<1>2. ok
  <2>1. CASE ~ok
    BY <2>1 DEF ReportUnderway, ReportPlan
  <2>2. QED
    BY <2>1
<1>3. Commands(commands) /\ IsList(plan) /\ Len(plan) = Len(commands)
  BY <1>1, <1>2, ReportCallsAre
<1>4. PICK k \in 0 .. Len(commands) : todo = Rest(plan, k) /\ project.report = run[k]
  BY <1>2 DEF ReportUnderway
<1>5. run[Len(commands)] = Reported(NewReport, commands)
  BY <1>3, NewReportIs, ReportedAlong
<1>6. k = Len(plan)
  BY <1>3, <1>4, RestIs
<1>7. QED
  BY <1>3, <1>4, <1>5, <1>6 DEF Told

LEMMA TextedStep ==
  ASSUME Shape, TodoFits, BuiltKept, ReportUnderway, Texted, Moves
  PROVE  Texted'
<1>1. CASE Retrieve
  <2>1. /\ stage = "report" /\ todo = <<>> /\ failed = <<>> /\ text' = RetrievedText(project, Network)
        /\ stage' = IF request.inp THEN "returned" ELSE "children"
        /\ UNCHANGED <<request, project>>
    BY <1>1 DEF Retrieve, Ready
  <2>2. project.report = Told(Network.report)
    BY <2>1, ReportEnds
  <2>3. HasBuilt(project, Network)
    BY <2>1 DEF BuiltKept, Later
  <2>4. SaysNetwork(RetrievedText(project, Network), Network) /\ RetrievedText(project, Network).report = Rows(Network.report)
    BY <2>2, <2>3, TextIs
  <2>5. Network' = Network
    BY <2>1 DEF Network
  <2>6. SaysNetwork(text', Network') /\ text'.report = Rows(Network'.report) /\ project'.report = Told(Network'.report)
    BY <2>1, <2>2, <2>4, <2>5
  <2>7. stage' \in {"children", "analysis", "reactions", "returned"} /\ (request'.inp => stage' = "returned")
    BY <2>1
  <2>8. QED
    BY <2>6, <2>7 DEF Texted
<1>2. ASSUME ~Retrieve, UNCHANGED <<request, text>>, project'.report = project.report,
             text # NoRef => stage' \in {"children", "analysis", "reactions", "returned"} /\ (request.inp => stage' = "returned")
      PROVE  Texted'
  BY <1>2 DEF Network, Texted
<1>3. CASE CallSucceeds
  <2>1. UNCHANGED <<request, text, stage>> /\ stage \notin {"children", "returned"}
    BY <1>3, CallsKeep
  <2>2. CASE text = NoRef
    BY <2>1, <2>2 DEF Texted
  <2>3. CASE text # NoRef
    BY <1>3, <2>1, <2>3, CallsKeep DEF Texted, Network
  <2>4. QED
    BY <2>2, <2>3
<1>4. CASE Build
  BY <1>4 DEF Build, Ready, Texted
<1>5. CASE CallFails
  BY <1>5 DEF CallFails, Network, Texted
<1>6. CASE NextChild
  <2>1. UNCHANGED <<request, text, project>> /\ stage = "children" /\ stage' \in {"children", "analysis"}
    BY <1>6 DEF NextChild, Begin
  <2>2. Network' = Network
    BY <2>1 DEF Network
  <2>3. text # NoRef => ~request.inp
    BY <2>1 DEF Texted
  <2>4. QED
    BY <2>1, <2>2, <2>3 DEF Texted
<1>7. CASE SolveChild
  BY <1>7 DEF SolveChild, Network, Texted
<1>8. CASE ~(CallSucceeds \/ CallFails \/ Build \/ Retrieve \/ NextChild \/ SolveChild)
  <2>1. UNCHANGED <<request, text, project>>
    BY <1>8 DEF Moves, Begins
  <2>2. Network' = Network
    BY <2>1 DEF Network
  <2>3. \/ stage' = "returned"
        \/ stage = "hydraulics"
        \/ stage = "reactions" /\ request.inp
        \/ stage = "analysis" /\ stage' = "reactions"
        \/ stage = "reactions" /\ ~request.inp /\ stage' = "children"
    BY <1>8 DEF Moves, Begins
  <2>4. text # NoRef => /\ stage \in {"children", "analysis", "reactions", "returned"}
                        /\ (request.inp => stage = "returned")
    BY DEF Texted
  <2>5. text # NoRef => /\ stage' \in {"children", "analysis", "reactions", "returned"}
                        /\ (request.inp => stage' = "returned")
    BY <2>3, <2>4
  <2>6. QED
    BY <2>1, <2>2, <2>5 DEF Texted
<1>9. QED
  BY <1>1, <1>3, <1>4, <1>5, <1>6, <1>7, <1>8

LEMMA SameExport ==
  ASSUME ExportInv, RunIsTheSame
  PROVE  ExportInv'
<1>1. Network' = Network
  BY DEF RunIsTheSame, Network
<1>2. BuiltKept' /\ OneText' /\ ReportFresh'
  BY <1>1 DEF ExportInv, RunIsTheSame, BuiltKept, OneText, ReportFresh, Unreported
<1>3. ReportUnderway'
  BY <1>1 DEF ExportInv, RunIsTheSame, ReportUnderway
<1>4. Texted'
  BY <1>1 DEF ExportInv, RunIsTheSame, Texted
<1>5. QED
  BY <1>2, <1>3, <1>4 DEF ExportInv

LEMMA ExportStep ==
  ASSUME ConfigurationInv, ExportInv, Next \/ RunIsTheSame
  PROVE  ExportInv'
<1>1. CASE RunIsTheSame
  BY <1>1, SameExport
<1>2. CASE Next /\ IInv
  <2>1. Shape /\ TodoFits /\ BuiltKept /\ OneText /\ ReportFresh /\ ReportUnderway /\ Texted
    BY <1>2 DEF IInv, ExportInv
  <2>2. Moves
    BY <1>2, <2>1, StepsAreMoves
  <2>3. BuiltKept' /\ OneText' /\ ReportFresh'
    BY <2>1, <2>2, BuiltKeptStep, OneTextStep, ReportFreshStep
  <2>4. ReportUnderway' /\ Texted'
    BY <2>1, <2>2, ReportUnderwayStep, TextedStep
  <2>5. QED
    BY <2>3, <2>4 DEF ExportInv
<1>3. CASE Next /\ NoRunState
  BY <1>3, NothingGoesOn DEF NoRunState
<1>4. QED
  BY <1>1, <1>2, <1>3 DEF ConfigurationInv

LEMMA ExportBegins ==
  ASSUME ImportInit
  PROVE  ExportInv
<1>1. CASE Init
  <2>1. project = NewProject /\ text = NoRef /\ stage \in {"initialize", "returned"}
    BY <1>1 DEF Init
  <2>2. project.report = NewReport
    BY <2>1, NewProjectIs
  <2>3. QED
    BY <2>1, <2>2 DEF ExportInv, BuiltKept, Later, OneText, ReportFresh, ReportUnderway, Texted
<1>2. CASE NoRun
  <2>1. text = NoRef /\ stage = "returned"
    BY <1>2 DEF NoRun
  <2>2. ~Unreported
    BY <2>1 DEF Unreported
  <2>3. QED
    BY <2>1, <2>2 DEF ExportInv, BuiltKept, Later, OneText, ReportFresh, ReportUnderway, Texted
<1>3. QED
  BY <1>1, <1>2 DEF ImportInit

(* The inductive invariant of what is exported.                            *)
LEMMA ExportAlways == ImportSpec => []ExportInv
<1>1. ImportInit => ExportInv
  BY ExportBegins
<1>2. ConfigurationInv /\ ExportInv /\ [ImportNext]_<<vars, importVars>> => ExportInv'
  <2>1. ASSUME ConfigurationInv, ExportInv, ImportNext
        PROVE  ExportInv'
    BY <2>1, ImportKeepsRun, ExportStep
  <2>2. ASSUME ConfigurationInv, ExportInv, UNCHANGED <<vars, importVars>>
        PROVE  ExportInv'
    BY <2>2, ExportStep DEF vars, RunIsTheSame
  <2>3. QED
    BY <2>1, <2>2
<1>3. QED
  BY <1>1, <1>2, ConfigurationAlways, PTL DEF ImportSpec

(* The text that retrieveInp returns, imported again, gives the network     *)
(* that was configured, and a report that shows what the project's shows.   *)
THEOREM ExportAlwaysKeepsProject == ImportSpec => []ExportKeepsProject
<1>1. ConfigurationInv /\ ExportInv => ExportKeepsProject
  <2> SUFFICES ASSUME ConfigurationInv, ExportInv, text # NoRef
               PROVE  NetworkKept /\ ReportKept
    BY DEF ExportKeepsProject
  <2>1. IInv
    BY DEF ConfigurationInv, NoRunState
  <2>2. request \in Requests
    BY <2>1 DEF IInv, Shape
  <2>3. IsNetwork(Network) /\ IsReport(Network.report)
    BY <2>2, NetworkIs
  <2>4. SaysNetwork(text, Network) /\ text.report = Rows(Network.report) /\ project.report = Told(Network.report)
    BY DEF ExportInv, Texted
  <2>5. NetworkKept
    BY <2>3, <2>4, NetworkComesBack
  <2>6. ReportKept
    BY <2>3, <2>4, ReportComesBack
  <2>7. QED
    BY <2>5, <2>6
<1>2. QED
  BY <1>1, ConfigurationAlways, ExportAlways, PTL

-----------------------------------------------------------------------------
(* The import: what is read of pumps and of the report. *)

(* What [STATUS] makes of a pump: the function behind it, which exists.    *)
IsNativePump(f, link, s, n) ==
    f = [k \in 0 .. n |-> IF k = 0 THEN [speed |-> SpeedInPumps(link), open |-> TRUE] ELSE SetPump(f[k - 1], link, s[k])]

LEMMA NativePumpExists ==
  ASSUME NEW link, NEW s
  PROVE  \A n \in Nat : \E f : IsNativePump(f, link, s, n)
<1> DEFINE T == {n \in Nat : \E f : IsNativePump(f, link, s, n)}
<1>1. 0 \in T
  <2>1. IsNativePump([k \in 0 .. 0 |-> [speed |-> SpeedInPumps(link), open |-> TRUE]], link, s, 0)
    BY DEF IsNativePump
  <2>2. QED
    BY <2>1
<1>2. \A n \in Nat : n \in T => n + 1 \in T
  <2> SUFFICES ASSUME NEW n \in Nat, NEW f, IsNativePump(f, link, s, n)
               PROVE  \E g : IsNativePump(g, link, s, n + 1)
    OBVIOUS
  <2> DEFINE e == n + 1
             last == SetPump(f[e - 1], link, s[e])
             g == [k \in 0 .. n + 1 |-> IF k = e THEN last ELSE f[k]]
  <2>1. \A k \in 0 .. n : f[k] = IF k = 0 THEN [speed |-> SpeedInPumps(link), open |-> TRUE] ELSE SetPump(f[k - 1], link, s[k])
    BY DEF IsNativePump
  <2>2. \A k \in 0 .. n + 1 : g[k] = IF k = 0 THEN [speed |-> SpeedInPumps(link), open |-> TRUE] ELSE SetPump(g[k - 1], link, s[k])
    <3> SUFFICES ASSUME NEW k \in 0 .. n + 1
                 PROVE  g[k] = IF k = 0 THEN [speed |-> SpeedInPumps(link), open |-> TRUE] ELSE SetPump(g[k - 1], link, s[k])
      OBVIOUS
    <3>1. CASE k = e
      BY <3>1
    <3>2. CASE k # e
      <4>1. k \in 0 .. n /\ g[k] = f[k] /\ (k # 0 => g[k - 1] = f[k - 1])
        BY <3>2
      <4>2. QED
        BY <2>1, <4>1
    <3>3. QED
      BY <3>1, <3>2
  <2>3. IsNativePump(g, link, s, n + 1)
    BY <2>2 DEF IsNativePump
  <2>4. QED
    BY <2>3
<1> HIDE DEF T
<1>3. \A n \in Nat : n \in T
  BY <1>1, <1>2, SetInduction
<1>4. QED
  BY <1>3 DEF T

(* The function that it computes.                                          *)
NativePumpRun(link, s) ==
    LET after[k \in 0 .. Len(s)] == IF k = 0 THEN [speed |-> SpeedInPumps(link), open |-> TRUE] ELSE SetPump(after[k - 1], link, s[k])
    IN  after

LEMMA NativePumpIsRun ==
  ASSUME NEW source, NEW link, Len(source.status) \in Nat
  PROVE  /\ IsNativePump(NativePumpRun(link, source.status), link, source.status, Len(source.status))
         /\ NativePump(source, link) = NativePumpRun(link, source.status)[Len(source.status)]
<1> DEFINE n == Len(source.status)
           f == CHOOSE h : IsNativePump(h, link, source.status, n)
<1>1. f = NativePumpRun(link, source.status)
  BY DEF NativePumpRun, IsNativePump
<1>2. IsNativePump(f, link, source.status, n)
  BY NativePumpExists
<1>3. NativePump(source, link) = f[n]
  BY DEF NativePump, IsNativePump
<1>4. QED
  BY <1>1, <1>2, <1>3

(* What the rows of a report make of the options: the function behind it,   *)
(* which exists.                                                           *)
IsImportReportRows(f, source, network, s, n) ==
    f = [k \in 0 .. n |-> IF k = 0 THEN DefaultReport ELSE ImportReportRow(source, network, f[k - 1], s[k])]

LEMMA ImportReportRowsExists ==
  ASSUME NEW source, NEW network, NEW s
  PROVE  \A n \in Nat : \E f : IsImportReportRows(f, source, network, s, n)
<1> DEFINE T == {n \in Nat : \E f : IsImportReportRows(f, source, network, s, n)}
<1>1. 0 \in T
  <2>1. IsImportReportRows([k \in 0 .. 0 |-> DefaultReport], source, network, s, 0)
    BY DEF IsImportReportRows
  <2>2. QED
    BY <2>1
<1>2. \A n \in Nat : n \in T => n + 1 \in T
  <2> SUFFICES ASSUME NEW n \in Nat, NEW f, IsImportReportRows(f, source, network, s, n)
               PROVE  \E g : IsImportReportRows(g, source, network, s, n + 1)
    OBVIOUS
  <2> DEFINE e == n + 1
             last == ImportReportRow(source, network, f[e - 1], s[e])
             g == [k \in 0 .. n + 1 |-> IF k = e THEN last ELSE f[k]]
  <2>1. \A k \in 0 .. n : f[k] = IF k = 0 THEN DefaultReport ELSE ImportReportRow(source, network, f[k - 1], s[k])
    BY DEF IsImportReportRows
  <2>2. \A k \in 0 .. n + 1 : g[k] = IF k = 0 THEN DefaultReport ELSE ImportReportRow(source, network, g[k - 1], s[k])
    <3> SUFFICES ASSUME NEW k \in 0 .. n + 1
                 PROVE  g[k] = IF k = 0 THEN DefaultReport ELSE ImportReportRow(source, network, g[k - 1], s[k])
      OBVIOUS
    <3>1. CASE k = e
      BY <3>1
    <3>2. CASE k # e
      BY <2>1, <3>2
    <3>3. QED
      BY <3>1, <3>2
  <2>3. IsImportReportRows(g, source, network, s, n + 1)
    BY <2>2 DEF IsImportReportRows
  <2>4. QED
    BY <2>3
<1> HIDE DEF T
<1>3. \A n \in Nat : n \in T
  BY <1>1, <1>2, SetInduction
<1>4. QED
  BY <1>3 DEF T

(* The function that it computes.                                          *)
ImportReportRowsRun(source, network, s) ==
    LET after[k \in 0 .. Len(s)] == IF k = 0 THEN DefaultReport ELSE ImportReportRow(source, network, after[k - 1], s[k])
    IN  after

LEMMA ImportReportRowsIsRun ==
  ASSUME NEW source, NEW network, Len(source.report) \in Nat
  PROVE  /\ IsImportReportRows(ImportReportRowsRun(source, network, source.report), source, network, source.report, Len(source.report))
         /\ ImportReportRows(source, network) = ImportReportRowsRun(source, network, source.report)[Len(source.report)]
BY ImportReportRowsExists DEF ImportReportRowsRun, IsImportReportRows, ImportReportRows

-----------------------------------------------------------------------------
(* What the typed options of a report make of a new one. *)

(* The commands about no field.                                            *)
FirstCommands(options) ==
    {Command("PAGESIZE", "IS", options.page), Command("STATUS", options.status, NoRef),
     Command("SUMMARY", options.summary, NoRef), Command("MESSAGES", options.messages, NoRef),
     Command("ENERGY", options.energy, NoRef),
     SelectionCommand("NODES", options.nodes), SelectionCommand("LINKS", options.links)}

LEMMA TypedFieldWords ==
  ASSUME NEW options, IsReport(options)
  PROVE  LET t == TypedFieldCommands(options.fields)
         IN  IsList(t) /\ \A x \in Items(t) : x.word \in FieldWords
<1> DEFINE t == TypedFieldCommands(options.fields)
           rows == [w \in FieldWords |-> FieldCommands(w, options.fields[w])]
           lists == [k \in DOMAIN ReportFields |-> FieldCommands(ReportFields[k], options.fields[ReportFields[k]])]
<1>1. \A w \in FieldWords : options.fields[w].enabled \in BOOLEAN
  BY FieldWordsAre DEF IsReport, IsField
<1>2. \A w \in FieldWords : IsList(rows[w]) /\ \A x \in Items(rows[w]) : x.word = w
  BY <1>1, FieldCommandsWrite DEF Commands
<1>3. t = Joined(lists) /\ lists = [k \in DOMAIN ReportFields |-> lists[k]]
  BY DEF TypedFieldCommands
<1>4. \A k \in DOMAIN ReportFields : lists[k] = rows[ReportFields[k]]
  BY FieldWordsAre DEF Items
<1> HIDE DEF t, rows, lists
<1>5. \A w \in Items(ReportFields) : IsList(rows[w]) /\ \A x \in Items(rows[w]) : x.word = w
  BY <1>2, FieldWordsAre
<1>6. IsList(Joined(lists)) /\ \A x \in Items(Joined(lists)) : x.word \in Items(ReportFields)
  BY <1>3, <1>4, <1>5, ReportFieldsAre, FieldsJoined
<1>7. QED
  BY <1>3, <1>6, FieldWordsAre DEF t

LEMMA TypedFirst ==
  ASSUME NEW options, IsReport(options)
  PROVE  /\ FirstCommands(options) \subseteq Items(Typed(options))
         /\ \A c \in Items(Typed(options)) : c.word \notin FieldWords => c \in FirstCommands(options)
<1> DEFINE a == Command("PAGESIZE", "IS", options.page)
           b == Command("STATUS", options.status, NoRef)
           c == Command("SUMMARY", options.summary, NoRef)
           d == Command("MESSAGES", options.messages, NoRef)
           e == Command("ENERGY", options.energy, NoRef)
           f == SelectionCommand("NODES", options.nodes)
           g == SelectionCommand("LINKS", options.links)
           s == <<a, b, c, d, e, f, g>>
           t == TypedFieldCommands(options.fields)
<1>1. Typed(options) = s \o t /\ FirstCommands(options) = {a, b, c, d, e, f, g}
  BY DEF Typed, FirstCommands
<1>2. IsList(t) /\ \A x \in Items(t) : x.word \in FieldWords
  BY TypedFieldWords
<1> HIDE DEF a, b, c, d, e, f, g, t
<1>3. IsList(s) /\ Items(s) \subseteq {a, b, c, d, e, f, g}
  <2>1. s \in Seq({a, b, c, d, e, f, g})
    OBVIOUS
  <2> HIDE DEF s
  <2>2. QED
    BY <2>1, ItemsWithin
<1>4. {a, b, c, d, e, f, g} \subseteq Items(s)
  BY DEF Items
<1> HIDE DEF s
<1>5. Items(s \o t) = Items(s) \union Items(t)
  BY <1>2, <1>3, ConcatIs
<1>6. QED
  BY <1>1, <1>2, <1>3, <1>4, <1>5

LEMMA FirstApart ==
  ASSUME NEW options, NEW x \in FirstCommands(options), NEW y \in FirstCommands(options), x.word = y.word
  PROVE  x = y
BY CommandIs DEF FirstCommands, SelectionCommand

(* A flag or a selection is said once.                                     *)
LEMMA OneSays ==
  ASSUME NEW options, IsReport(options), NEW c \in FirstCommands(options), c.word \notin FieldWords,
         NEW a, IsPart(a), Sets(c, a)
  PROVE  Part(Base(options), a) = Says(c, a)
<1> DEFINE s == Typed(options)
           v == Says(c, a)
<1>1. c \in Items(s) /\ Commands(s) /\ Whole(NewReport)
  BY TypedFirst, TypedIs, NewReportIs
<1>2. \A d \in Items(s) : Sets(d, a) => d = c
  BY TypedFirst, FirstApart DEF Sets
<1>3. \A d \in Items(s) : Sets(d, a) => Says(d, a) = v
  BY <1>2
<1> HIDE DEF s, v
<1>4. Part(Reported(NewReport, s), a) = v
  BY <1>1, <1>3, AllSay
<1>5. QED
  BY <1>4 DEF Base, s, v

LEMMA BaseFlag ==
  ASSUME NEW options, IsReport(options), NEW w \in FlagWords, NEW verb, NEW value,
         Command(w, verb, value) \in FirstCommands(options)
  PROVE  Base(options).flags[w] = <<verb, value>>
BY CommandIs, OtherParts, WordsApart, OneSays DEF Sets, Says

LEMMA BaseFlags ==
  ASSUME NEW options, IsReport(options)
  PROVE  LET flags == Base(options).flags
         IN  /\ flags["PAGESIZE"] = <<"IS", options.page>> /\ flags["STATUS"] = <<options.status, NoRef>>
             /\ flags["SUMMARY"] = <<options.summary, NoRef>> /\ flags["MESSAGES"] = <<options.messages, NoRef>>
             /\ flags["ENERGY"] = <<options.energy, NoRef>> /\ flags["FILE"] = <<>>
<1>1. /\ "PAGESIZE" \in FlagWords /\ "STATUS" \in FlagWords /\ "SUMMARY" \in FlagWords /\ "MESSAGES" \in FlagWords
      /\ "ENERGY" \in FlagWords /\ "FILE" \in FlagWords
  BY DEF FlagWords
<1>2. /\ Command("PAGESIZE", "IS", options.page) \in FirstCommands(options)
      /\ Command("STATUS", options.status, NoRef) \in FirstCommands(options)
      /\ Command("SUMMARY", options.summary, NoRef) \in FirstCommands(options)
      /\ Command("MESSAGES", options.messages, NoRef) \in FirstCommands(options)
      /\ Command("ENERGY", options.energy, NoRef) \in FirstCommands(options)
  BY DEF FirstCommands
<1>3. Base(options).flags["PAGESIZE"] = <<"IS", options.page>>
  BY <1>1, <1>2, BaseFlag
<1>4. Base(options).flags["STATUS"] = <<options.status, NoRef>>
  BY <1>1, <1>2, BaseFlag
<1>5. Base(options).flags["SUMMARY"] = <<options.summary, NoRef>>
  BY <1>1, <1>2, BaseFlag
<1>6. Base(options).flags["MESSAGES"] = <<options.messages, NoRef>>
  BY <1>1, <1>2, BaseFlag
<1>7. Base(options).flags["ENERGY"] = <<options.energy, NoRef>>
  BY <1>1, <1>2, BaseFlag
<1>8. Base(options).flags["FILE"] = <<>>
  <2> DEFINE a == FlagPart("FILE")
             s == Typed(options)
  <2>1. IsPart(a) /\ a.word = "FILE" /\ \A r : Part(r, a) = r.flags["FILE"]
    BY <1>1, OtherParts
  <2>2. Commands(s) /\ \A c \in Items(s) : c.word # "FILE"
    BY TypedIs
  <2>3. Whole(NewReport) /\ NewReport.flags["FILE"] = <<>>
    BY <1>1, NewReportIs
  <2> HIDE DEF a, s
  <2>4. \A c \in Items(s) : ~Sets(c, a)
    BY <2>1, <2>2 DEF Sets
  <2>5. Part(Reported(NewReport, s), a) = Part(NewReport, a)
    BY <2>1, <2>2, <2>3, <2>4, NoneOf
  <2>6. QED
    BY <2>1, <2>3, <2>5 DEF Base, s
<1>9. QED
  BY <1>3, <1>4, <1>5, <1>6, <1>7, <1>8

LEMMA BaseSelection ==
  ASSUME NEW options, IsReport(options), NEW w \in ChosenWords, NEW selection,
         SelectionCommand(w, selection) \in FirstCommands(options)
  PROVE  /\ Base(options).chosen[w].mode = selection.mode
         /\ selection.mode = "LIST" => \A x : x \in Base(options).chosen[w].ids <=> x \in selection.ids
<1> DEFINE c == SelectionCommand(w, selection)
           s == Typed(options)
<1>1. c.word = w /\ c.verb = selection.mode /\ c.value = selection.ids
  BY CommandIs DEF SelectionCommand
<1>2. c \in FirstCommands(options) /\ c.word \notin FieldWords
  BY <1>1, WordsApart
<1>3. Commands(s) /\ Whole(NewReport) /\ \A d \in Items(s) : d.word = w => d = c
  BY <1>1, <1>2, TypedIs, NewReportIs, TypedFirst, FirstApart
<1> HIDE DEF c, s
<1>4. Base(options).chosen[w].mode = selection.mode
  BY <1>1, <1>2, OtherParts, OneSays DEF Sets, Says
<1>5. ASSUME selection.mode = "LIST", NEW x
      PROVE  x \in Base(options).chosen[w].ids <=> x \in selection.ids
  <2> DEFINE a == HasPart(w, x)
  <2>1. /\ IsPart(a) /\ a.word = w /\ a.part = "has" /\ a.item = x
        /\ \A r : Part(r, a) = IF x \in r.chosen[w].ids THEN "in" ELSE "out"
    BY OtherParts
  <2> HIDE DEF a
  <2>2. Sets(c, a) <=> x \in selection.ids
    BY <1>1, <1>5, <2>1 DEF Sets
  <2>3. CASE x \in selection.ids
    <3>1. Part(Base(options), a) = Says(c, a)
      BY <1>2, <2>1, <2>2, <2>3, OneSays
    <3>2. Says(c, a) = "in"
      BY <2>1 DEF Says
    <3>3. QED
      BY <2>1, <2>3, <3>1, <3>2
  <2>4. CASE x \notin selection.ids
    <3>1. \A d \in Items(s) : ~Sets(d, a)
      BY <1>3, <2>1, <2>2, <2>4 DEF Sets
    <3>2. Part(Reported(NewReport, s), a) = Part(NewReport, a)
      BY <1>3, <2>1, <3>1, NoneOf
    <3>3. x \notin NewReport.chosen[w].ids
      BY NewReportIs
    <3>4. QED
      BY <2>1, <2>4, <3>2, <3>3 DEF Base, s
  <2>5. QED
    BY <2>3, <2>4
<1>6. QED
  BY <1>4, <1>5

(* A field that is on is as the options have it.                           *)
LEMMA BaseField ==
  ASSUME NEW options, IsReport(options), NEW w \in FieldWords
  PROVE  LET e == options.fields[w]
             t == Base(options).fields[w]
         IN  /\ t.enabled = e.enabled
             /\ e.enabled /\ e.precision # NoRef => t.precision = e.precision
             /\ e.enabled => t.below = e.below /\ t.above = e.above
<1> DEFINE e == options.fields[w]
           s == Typed(options)
           t == Reported(NewReport, s).fields[w]
           old == NewReport.fields[w]
<1>1. e.enabled \in BOOLEAN /\ Commands(s) /\ Writes(s, w, e) /\ Whole(NewReport)
  BY TypedIs, NewReportIs
<1>2. old.below = NoRef /\ old.above = NoRef
  BY NewReportIs
<1>3. t = Base(options).fields[w]
  BY DEF Base
<1> HIDE DEF e, s
<1>4. t.enabled = e.enabled
  BY <1>1, EnabledIsWritten
<1>5. ASSUME e.enabled
      PROVE  (e.precision # NoRef => t.precision = e.precision) /\ t.below = e.below /\ t.above = e.above
  <2>1. t.precision = IF e.precision = NoRef THEN old.precision ELSE e.precision
    BY <1>1, <1>5, PrecisionIsWritten
  <2>2. t.below = IF e.below = NoRef THEN old.below ELSE e.below
    BY <1>1, <1>5, BelowIsWritten
  <2>3. t.above = IF e.above = NoRef THEN old.above ELSE e.above
    BY <1>1, <1>5, AboveIsWritten
  <2> HIDE DEF t, old
  <2>4. QED
    BY <1>2, <2>1, <2>2, <2>3
<1>6. QED
  BY <1>3, <1>4, <1>5 DEF e

-----------------------------------------------------------------------------
(* The options that the rows of a report come to, and the toolkit's report, *)
(* row by row.                                                             *)

IsOptions(o) ==
    o = [page |-> o.page, status |-> o.status, summary |-> o.summary, messages |-> o.messages, energy |-> o.energy,
         nodes |-> o.nodes, links |-> o.links, fields |-> o.fields, backend |-> o.backend]

FlagsMatch(o, r) ==
    /\ FlagOf(r, "PAGESIZE") = <<"IS", o.page>> /\ FlagOf(r, "STATUS") = <<o.status, NoRef>>
    /\ FlagOf(r, "SUMMARY") = <<o.summary, NoRef>> /\ FlagOf(r, "MESSAGES") = <<o.messages, NoRef>>
    /\ FlagOf(r, "ENERGY") = <<o.energy, NoRef>>

ChosenMatch(o, r, n) ==
    /\ r.chosen["NODES"] = o.nodes /\ r.chosen["LINKS"] = o.links
    /\ o.nodes.ids \subseteq n.nodes /\ o.links.ids \subseteq n.links

(* The limits that the options have of a field                             *)
Seen(w, field) ==
    IF w \in PhysicalThresholdFields THEN field
    ELSE [enabled |-> field.enabled, precision |-> field.precision, below |-> NoRef, above |-> NoRef]
FieldsMatch(fields, r) == fields = [w \in FieldWords |-> Seen(w, r.fields[w])]

(* The rest is left to the backend's commands, whatever is said before.    *)
LeftToBackend(a) ==
    IsPart(a) /\ (a.word = "FILE" \/ (a.word \notin PhysicalThresholdFields /\ a.part \in {"below", "above"}))
BackendMatches(s, r) ==
    /\ Commands(s) /\ \A c \in Items(s) : AsCommand(c)
    /\ \A q, a : Whole(q) /\ LeftToBackend(a) /\ Part(q, a) = Part(NewReport, a) => Part(Reported(q, s), a) = Part(r, a)

Matches(o, r, n) ==
    IsOptions(o) /\ FlagsMatch(o, r) /\ ChosenMatch(o, r, n) /\ FieldsMatch(o.fields, r) /\ BackendMatches(o.backend, r)

LEMMA MatchesAtFirst ==
  ASSUME NEW n
  PROVE  Matches(DefaultReport, NewReport, n)
<1> DEFINE o == DefaultReport
           r == NewReport
<1>1. /\ IsOptions(o) /\ o.page = 0 /\ o.status = "NO" /\ o.summary = "YES" /\ o.messages = "YES" /\ o.energy = "NO"
      /\ o.nodes = [mode |-> "NONE", ids |-> {}] /\ o.links = [mode |-> "NONE", ids |-> {}]
      /\ o.fields = DefaultFields /\ o.backend = <<>>
  BY DEF DefaultReport, IsOptions
<1>2. Whole(r) /\ \A w \in FlagWords : r.flags[w] = <<>>
  BY NewReportIs
<1>3. FlagsMatch(o, r)
  BY <1>1, <1>2 DEF FlagWords, FlagOf, FlagsMatch
<1>4. ChosenMatch(o, r, n)
  BY <1>1, NewReportIs DEF ChosenWords, ChosenMatch
<1>5. FieldsMatch(o.fields, r)
  <2>1. r.fields = DefaultFields /\ DefaultFields = [w \in FieldWords |-> DefaultFields[w]]
    BY FieldWordsAre DEF NewReport, DefaultFields
  <2>2. \A w \in FieldWords : IsSetField(r.fields[w]) /\ r.fields[w].below = NoRef /\ r.fields[w].above = NoRef
    BY <1>2, NewReportIs DEF Whole
  <2> HIDE DEF r, o
  <2>3. \A w \in FieldWords : Seen(w, r.fields[w]) = r.fields[w]
    BY <2>2 DEF Seen, IsSetField
  <2>4. [w \in FieldWords |-> Seen(w, r.fields[w])] = [w \in FieldWords |-> DefaultFields[w]]
    BY <2>1, <2>3
  <2>5. QED
    BY <1>1, <2>1, <2>4 DEF FieldsMatch
<1>6. BackendMatches(o.backend, r)
  BY <1>1, EmptyIsList, NoneOf DEF Commands, BackendMatches, LeftToBackend
<1>7. QED
  BY <1>1, <1>3, <1>4, <1>5, <1>6 DEF Matches

-----------------------------------------------------------------------------
(* One row, on both sides. *)

LEMMA SetsLeft ==
  ASSUME NEW a, LeftToBackend(a), NEW c, Sets(c, a)
  PROVE  AsCommand(c)
<1>1. CASE a.word = "FILE"
  BY <1>1 DEF Sets, AsCommand
<1>2. CASE a.word \notin PhysicalThresholdFields /\ a.part \in {"below", "above"}
  BY <1>2 DEF Sets, AsCommand
<1>3. QED
  BY <1>1, <1>2 DEF LeftToBackend

LEMMA BackendStays ==
  ASSUME NEW s, NEW r, BackendMatches(s, r), Whole(r), NEW c, IsCommand(c), ~AsCommand(c)
  PROVE  BackendMatches(s, SetReport(r, c))
BY SetReportPart, SetsLeft DEF LeftToBackend, BackendMatches

LEMMA BackendGrows ==
  ASSUME NEW s, NEW r, BackendMatches(s, r), Whole(r), NEW c, IsCommand(c), AsCommand(c)
  PROVE  BackendMatches(Append(s, c), SetReport(r, c))
<1> DEFINE t == Append(s, c)
<1>1. Commands(s) /\ IsList(s) /\ \A d \in Items(s) : AsCommand(d)
  BY DEF BackendMatches, Commands
<1>2. Commands(t) /\ Items(t) = Items(s) \union {c}
  BY <1>1, CommandsAppend, AppendIs
<1>3. ASSUME NEW q, NEW a, Whole(q), LeftToBackend(a), Part(q, a) = Part(NewReport, a)
      PROVE  Part(Reported(q, t), a) = Part(SetReport(r, c), a)
  <2> DEFINE p == Reported(q, s)
  <2>1. Part(p, a) = Part(r, a) /\ Whole(p) /\ IsPart(a)
    BY <1>1, <1>3, ReportedWhole DEF BackendMatches, LeftToBackend
  <2>2. Reported(q, t) = SetReport(p, c)
    BY <1>1, <1>3, ReportedAppend
  <2> HIDE DEF p
  <2>3. Part(SetReport(p, c), a) = IF Sets(c, a) THEN Says(c, a) ELSE Part(p, a)
    BY <2>1, SetReportPart
  <2>4. Part(SetReport(r, c), a) = IF Sets(c, a) THEN Says(c, a) ELSE Part(r, a)
    BY <2>1, SetReportPart
  <2>5. QED
    BY <2>1, <2>2, <2>3, <2>4
<1> HIDE DEF t
<1>4. QED
  BY <1>1, <1>2, <1>3 DEF BackendMatches, t

(* What a row makes of a field: the same on both sides.                    *)
LEMMA ImportFieldIs ==
  ASSUME NEW field, NEW c, c.verb \in FieldVerbs
  PROVE  ImportField(field, c) = SetField(field, c)
BY DEF ImportField, SetField, FieldVerbs

LEMMA SeenStep ==
  ASSUME NEW field, IsSetField(field), NEW c, c.verb \in FieldVerbs, NEW w \in FieldWords, c.word = w
  PROVE  Seen(w, SetField(field, c)) = IF AsCommand(c) THEN Seen(w, field) ELSE SetField(Seen(w, field), c)
<1> DEFINE seen == Seen(w, field)
           after == SetField(field, c)
           both == SetField(seen, c)
<1>0. w # "FILE"
  BY DEF FieldWords
<1>1. CASE w \in PhysicalThresholdFields
  BY <1>0, <1>1 DEF AsCommand, Seen
<1>2. CASE w \notin PhysicalThresholdFields
  <2>1. IsSetField(seen) /\ seen.enabled = field.enabled /\ seen.precision = field.precision /\ seen.below = NoRef /\ seen.above = NoRef
    BY <1>2 DEF Seen, IsSetField
  <2>2. /\ IsSetField(after)
        /\ after.enabled = IF c.verb \in {"YES", "NO", "PRECISION"} THEN (c.verb # "NO") ELSE field.enabled
        /\ after.precision = IF c.verb = "PRECISION" THEN c.value ELSE field.precision
    BY SetFieldIs
  <2> HIDE DEF seen
  <2>3. /\ IsSetField(both)
        /\ both.enabled = IF c.verb \in {"YES", "NO", "PRECISION"} THEN (c.verb # "NO") ELSE seen.enabled
        /\ both.precision = IF c.verb = "PRECISION" THEN c.value ELSE seen.precision
        /\ both.below = IF c.verb = "BELOW" THEN c.value ELSE seen.below
        /\ both.above = IF c.verb = "ABOVE" THEN c.value ELSE seen.above
    BY <2>1, SetFieldIs
  <2> HIDE DEF after, both
  <2>4. Seen(w, after) = [enabled |-> after.enabled, precision |-> after.precision, below |-> NoRef, above |-> NoRef]
    BY <1>2 DEF Seen
  <2>5. CASE c.verb \in {"BELOW", "ABOVE"}
    <3>1. AsCommand(c)
      BY <1>2, <2>5 DEF AsCommand
    <3>2. after.enabled = field.enabled /\ after.precision = field.precision
      BY <2>2, <2>5
    <3>3. seen = [enabled |-> field.enabled, precision |-> field.precision, below |-> NoRef, above |-> NoRef]
      BY <1>2 DEF seen, Seen
    <3>4. Seen(w, after) = seen
      BY <2>4, <3>2, <3>3
    <3>5. QED
      BY <2>5, <3>1, <3>4 DEF after, seen
  <2>6. CASE c.verb \notin {"BELOW", "ABOVE"}
    <3>1. ~AsCommand(c)
      BY <1>0, <2>6 DEF AsCommand
    <3>2. both.enabled = after.enabled
      BY <2>1, <2>2, <2>3
    <3>3. both.precision = after.precision /\ both.below = NoRef /\ both.above = NoRef
      BY <2>1, <2>2, <2>3, <2>6
    <3>4. both = Seen(w, after)
      BY <2>3, <2>4, <3>2, <3>3 DEF IsSetField
    <3>5. QED
      BY <3>1, <3>4 DEF after, seen, both
  <2>7. QED
    BY <2>5, <2>6
<1>3. QED
  BY <1>1, <1>2

(* A row of the report that has its place in the options, or among the     *)
(* backend's commands.                                                     *)
RowFits(f, n, row) == IsCommand(row) /\ ~LimitLost(f, row) /\ ~Unresolved(n, row)

OptionFlags == {"PAGESIZE", "STATUS", "SUMMARY", "MESSAGES", "ENERGY"}

(* What a row is about is one thing.                                       *)
LEMMA RowsApart ==
  /\ \A w \in FieldWords : w \notin {"NODES", "LINKS"} \union OptionFlags
  /\ "FILE" \notin {"NODES", "LINKS"} \union OptionFlags
  BY DEF FieldWords, OptionFlags

LEMMA AsCommandRow ==
  ASSUME NEW o, NEW n, NEW f, NEW c, ~LimitLost(f, c), AsCommand(c), c.word \notin {"NODES", "LINKS"} \union OptionFlags
  PROVE  ImportReportRow(f, n, o, c) = [o EXCEPT !.backend = Append(@, c)]
BY DEF OptionFlags, ImportReportRow

LEMMA FieldRow ==
  ASSUME NEW o, NEW n, NEW f, NEW c, ~LimitLost(f, c), ~AsCommand(c), c.word \in DOMAIN o.fields,
         c.word \notin {"NODES", "LINKS"} \union OptionFlags
  PROVE  ImportReportRow(f, n, o, c) = [o EXCEPT !.fields = [o.fields EXCEPT ![c.word] = ImportField(@, c)]]
BY DEF OptionFlags, ImportReportRow

LEMMA FlagsStay ==
  ASSUME NEW o, NEW r, FlagsMatch(o, r), NEW p, NEW q, \A w \in OptionFlags : q.flags[w] = r.flags[w],
         p.page = o.page, p.status = o.status, p.summary = o.summary, p.messages = o.messages, p.energy = o.energy
  PROVE  FlagsMatch(p, q)
<1>1. ASSUME NEW w \in OptionFlags
      PROVE  FlagOf(q, w) = FlagOf(r, w)
  <2> DEFINE v == r.flags[w]
  <2>1. r.flags[w] = v /\ q.flags[w] = v
    OBVIOUS
  <2> HIDE DEF v
  <2>2. QED
    BY <2>1 DEF FlagOf
<1>2. QED
  BY <1>1 DEF FlagsMatch, OptionFlags

LEMMA FieldsGoOn ==
  ASSUME NEW fields, NEW r, Whole(r), FieldsMatch(fields, r), NEW c, IsCommand(c), c.word \in FieldWords
  PROVE  FieldsMatch(IF AsCommand(c) THEN fields ELSE [fields EXCEPT ![c.word] = ImportField(@, c)], SetReport(r, c))
<1> DEFINE w == c.word
           q == SetReport(r, c)
           after == SetField(r.fields[w], c)
           next == IF AsCommand(c) THEN fields ELSE [fields EXCEPT ![w] = ImportField(@, c)]
<1>1. c.verb \in FieldVerbs
  BY FieldWordCommand
<1>2. q = [flags |-> r.flags, chosen |-> r.chosen, fields |-> [r.fields EXCEPT ![w] = after]]
  BY SetFieldWord
<1>3. DOMAIN r.fields = FieldWords /\ IsSetField(r.fields[w])
  BY DEF Whole
<1>4. Seen(w, after) = IF AsCommand(c) THEN Seen(w, r.fields[w]) ELSE SetField(Seen(w, r.fields[w]), c)
  BY <1>1, <1>3, SeenStep
<1>5. fields = [v \in FieldWords |-> Seen(v, r.fields[v])]
  BY DEF FieldsMatch
<1> HIDE DEF q, after
<1>6. \A v \in FieldWords : q.fields[v] = IF v = w THEN after ELSE r.fields[v]
  BY <1>2, <1>3
<1>7. next = [v \in FieldWords |-> next[v]]
  BY <1>5
<1>8. \A v \in FieldWords : next[v] = Seen(v, q.fields[v])
  <2>1. CASE AsCommand(c)
    BY <1>4, <1>5, <1>6, <2>1
  <2>2. CASE ~AsCommand(c)
    <3> DEFINE x == ImportField(fields[w], c)
    <3>1. next = [fields EXCEPT ![w] = x]
      BY <2>2
    <3>2. x = SetField(fields[w], c)
      BY <1>1, ImportFieldIs
    <3> HIDE DEF next, x
    <3>3. next[w] = x /\ \A v \in FieldWords : v # w => next[v] = fields[v]
      BY <1>5, <3>1
    <3>4. QED
      BY <1>4, <1>5, <1>6, <2>2, <3>2, <3>3
  <2>3. QED
    BY <2>1, <2>2
<1> HIDE DEF next
<1>9. QED
  BY <1>7, <1>8 DEF FieldsMatch, next, q

LEMMA OptionsAre ==
  ASSUME NEW o, IsOptions(o), NEW x
  PROVE  /\ [o EXCEPT !.page = x] = [page |-> x, status |-> o.status, summary |-> o.summary, messages |-> o.messages,
               energy |-> o.energy, nodes |-> o.nodes, links |-> o.links, fields |-> o.fields, backend |-> o.backend]
         /\ [o EXCEPT !.status = x] = [page |-> o.page, status |-> x, summary |-> o.summary, messages |-> o.messages,
               energy |-> o.energy, nodes |-> o.nodes, links |-> o.links, fields |-> o.fields, backend |-> o.backend]
         /\ [o EXCEPT !.summary = x] = [page |-> o.page, status |-> o.status, summary |-> x, messages |-> o.messages,
               energy |-> o.energy, nodes |-> o.nodes, links |-> o.links, fields |-> o.fields, backend |-> o.backend]
         /\ [o EXCEPT !.messages = x] = [page |-> o.page, status |-> o.status, summary |-> o.summary, messages |-> x,
               energy |-> o.energy, nodes |-> o.nodes, links |-> o.links, fields |-> o.fields, backend |-> o.backend]
         /\ [o EXCEPT !.energy = x] = [page |-> o.page, status |-> o.status, summary |-> o.summary, messages |-> o.messages,
               energy |-> x, nodes |-> o.nodes, links |-> o.links, fields |-> o.fields, backend |-> o.backend]
         /\ [o EXCEPT !.nodes = x] = [page |-> o.page, status |-> o.status, summary |-> o.summary, messages |-> o.messages,
               energy |-> o.energy, nodes |-> x, links |-> o.links, fields |-> o.fields, backend |-> o.backend]
         /\ [o EXCEPT !.links = x] = [page |-> o.page, status |-> o.status, summary |-> o.summary, messages |-> o.messages,
               energy |-> o.energy, nodes |-> o.nodes, links |-> x, fields |-> o.fields, backend |-> o.backend]
         /\ [o EXCEPT !.fields = x] = [page |-> o.page, status |-> o.status, summary |-> o.summary, messages |-> o.messages,
               energy |-> o.energy, nodes |-> o.nodes, links |-> o.links, fields |-> x, backend |-> o.backend]
         /\ [o EXCEPT !.backend = x] = [page |-> o.page, status |-> o.status, summary |-> o.summary, messages |-> o.messages,
               energy |-> o.energy, nodes |-> o.nodes, links |-> o.links, fields |-> o.fields, backend |-> x]
  BY DEF IsOptions

(* What becomes the options' own, kind by kind.                            *)
LEMMA CommandRowIs ==
  ASSUME NEW o, NEW r, NEW n, Matches(o, r, n), Whole(r), NEW f, NEW c, RowFits(f, n, c), AsCommand(c)
  PROVE  Matches(ImportReportRow(f, n, o, c), SetReport(r, c), n)
<1> DEFINE p == ImportReportRow(f, n, o, c)
           q == SetReport(r, c)
           s == Append(o.backend, c)
<1>m. IsOptions(o) /\ FlagsMatch(o, r) /\ ChosenMatch(o, r, n) /\ FieldsMatch(o.fields, r) /\ BackendMatches(o.backend, r)
  BY DEF Matches
<1>1. IsCommand(c) /\ ~LimitLost(f, c)
  BY DEF RowFits
<1>w. c.word = "FILE" \/ c.word \in FieldWords
  BY <1>1, CommandWords, WordsApart DEF AsCommand, FlagFits, FlagVerbs
<1>2. p = [o EXCEPT !.backend = s]
  BY <1>w, <1>1, RowsApart, AsCommandRow
<1>b. BackendMatches(s, q)
  BY <1>m, <1>1, BackendGrows
<1> HIDE DEF p, s
<1>3. p = [page |-> o.page, status |-> o.status, summary |-> o.summary, messages |-> o.messages,
           energy |-> o.energy, nodes |-> o.nodes, links |-> o.links, fields |-> o.fields, backend |-> s]
  BY <1>m, <1>2, OptionsAre
<1>4. /\ IsOptions(p) /\ p.page = o.page /\ p.status = o.status /\ p.summary = o.summary /\ p.messages = o.messages
      /\ p.energy = o.energy /\ p.nodes = o.nodes /\ p.links = o.links /\ p.fields = o.fields /\ p.backend = s
  BY <1>3 DEF IsOptions
<1>5. CASE c.word = "FILE"
  <2>0. c.word \in FlagWords
    BY <1>5 DEF FlagWords
  <2>1. q = [chosen |-> r.chosen, fields |-> r.fields, flags |-> [r.flags EXCEPT ![c.word] = <<c.verb, c.value>>]]
    BY <2>0, SetFlagWord
  <2> HIDE DEF q
  <2>2. q.chosen = r.chosen /\ q.fields = r.fields /\ \A w \in OptionFlags : q.flags[w] = r.flags[w]
    BY <1>5, <2>1 DEF OptionFlags, Whole, FlagWords
  <2>3. FlagsMatch(p, q)
    BY <1>m, <1>4, <2>2, FlagsStay
  <2>4. ChosenMatch(p, q, n)
    BY <1>m, <1>4, <2>2 DEF ChosenMatch
  <2>5. FieldsMatch(p.fields, q)
    BY <1>m, <1>4, <2>2 DEF FieldsMatch
  <2>6. QED
    BY <1>b, <1>4, <2>3, <2>4, <2>5 DEF Matches, p, q
<1>6. CASE c.word # "FILE"
  <2>0. c.word \in FieldWords
    BY <1>w, <1>6
  <2> DEFINE v == SetField(r.fields[c.word], c)
  <2>1. q = [flags |-> r.flags, chosen |-> r.chosen, fields |-> [r.fields EXCEPT ![c.word] = v]]
    BY <2>0, SetFieldWord
  <2>5. FieldsMatch(o.fields, q)
    BY <1>m, <1>1, <2>0, FieldsGoOn
  <2> HIDE DEF q, v
  <2>2. q.chosen = r.chosen /\ q.flags = r.flags
    BY <2>1
  <2>3. FlagsMatch(p, q)
    BY <1>m, <1>4, <2>2, FlagsStay
  <2>4. ChosenMatch(p, q, n)
    BY <1>m, <1>4, <2>2 DEF ChosenMatch
  <2>6. QED
    BY <1>b, <1>4, <2>3, <2>4, <2>5 DEF Matches, p, q
<1>7. QED
  BY <1>5, <1>6

LEMMA FieldRowIs ==
  ASSUME NEW o, NEW r, NEW n, Matches(o, r, n), Whole(r), NEW f, NEW c, RowFits(f, n, c), ~AsCommand(c),
         c.word \in FieldWords
  PROVE  Matches(ImportReportRow(f, n, o, c), SetReport(r, c), n)
<1> DEFINE p == ImportReportRow(f, n, o, c)
           q == SetReport(r, c)
           next == [o.fields EXCEPT ![c.word] = ImportField(@, c)]
           v == SetField(r.fields[c.word], c)
<1>m. IsOptions(o) /\ FlagsMatch(o, r) /\ ChosenMatch(o, r, n) /\ FieldsMatch(o.fields, r) /\ BackendMatches(o.backend, r)
  BY DEF Matches
<1>1. IsCommand(c) /\ ~LimitLost(f, c)
  BY DEF RowFits
<1>2. c.word \in DOMAIN o.fields
  BY <1>m DEF FieldsMatch
<1>3. p = [o EXCEPT !.fields = next]
  BY <1>1, <1>2, RowsApart, FieldRow
<1>b. BackendMatches(o.backend, q)
  BY <1>m, <1>1, BackendStays
<1>f. FieldsMatch(next, q)
  BY <1>m, <1>1, FieldsGoOn
<1>4. q = [flags |-> r.flags, chosen |-> r.chosen, fields |-> [r.fields EXCEPT ![c.word] = v]]
  BY SetFieldWord
<1> HIDE DEF p, next, q, v
<1>5. p = [page |-> o.page, status |-> o.status, summary |-> o.summary, messages |-> o.messages,
           energy |-> o.energy, nodes |-> o.nodes, links |-> o.links, fields |-> next, backend |-> o.backend]
  BY <1>m, <1>3, OptionsAre
<1>6. /\ IsOptions(p) /\ p.page = o.page /\ p.status = o.status /\ p.summary = o.summary /\ p.messages = o.messages
      /\ p.energy = o.energy /\ p.nodes = o.nodes /\ p.links = o.links /\ p.fields = next /\ p.backend = o.backend
  BY <1>5 DEF IsOptions
<1>7. q.chosen = r.chosen /\ q.flags = r.flags
  BY <1>4
<1>8. FlagsMatch(p, q)
  BY <1>m, <1>6, <1>7, FlagsStay
<1>9. ChosenMatch(p, q, n)
  BY <1>m, <1>6, <1>7 DEF ChosenMatch
<1>10. QED
  BY <1>b, <1>f, <1>6, <1>8, <1>9 DEF Matches, p, q

LEMMA SelectionRowIs ==
  ASSUME NEW chosen, NEW c, NEW ids, c.verb = "LIST" => c.value \subseteq ids
  PROVE  /\ ImportSelection(chosen, c, ids)
               = [mode |-> c.verb, ids |-> IF c.verb = "LIST" THEN chosen.ids \union c.value ELSE chosen.ids]
         /\ chosen.ids \subseteq ids => ImportSelection(chosen, c, ids).ids \subseteq ids
BY DEF ImportSelection

LEMMA NodesRowIs ==
  ASSUME NEW o, NEW r, NEW n, Matches(o, r, n), Whole(r), NEW f, NEW c, RowFits(f, n, c), c.word = "NODES"
  PROVE  Matches(ImportReportRow(f, n, o, c), SetReport(r, c), n)
<1> DEFINE p == ImportReportRow(f, n, o, c)
           q == SetReport(r, c)
           x == ImportSelection(o.nodes, c, n.nodes)
           v == [mode |-> c.verb, ids |-> IF c.verb = "LIST" THEN r.chosen[c.word].ids \union c.value ELSE r.chosen[c.word].ids]
<1>m. IsOptions(o) /\ FlagsMatch(o, r) /\ ChosenMatch(o, r, n) /\ FieldsMatch(o.fields, r) /\ BackendMatches(o.backend, r)
  BY DEF Matches
<1>1. IsCommand(c) /\ ~LimitLost(f, c) /\ ~Unresolved(n, c)
  BY DEF RowFits
<1>2. c.word \in ChosenWords /\ c.word \notin FieldWords /\ c.word \notin FlagWords
  BY WordsApart DEF ChosenWords
<1>3. c.verb \in {"NONE", "ALL", "LIST"}
  BY <1>1, <1>2, CommandWords
<1>4. ~AsCommand(c) /\ (c.verb = "LIST" => c.value \subseteq n.nodes)
  BY <1>1, <1>3 DEF AsCommand, Unresolved
<1>5. p = [o EXCEPT !.nodes = x]
  BY <1>1, <1>2, <1>4, <1>m DEF FieldsMatch, ImportReportRow
<1>6. BackendMatches(o.backend, q)
  BY <1>m, <1>1, <1>4, BackendStays
<1>7. q = [flags |-> r.flags, fields |-> r.fields, chosen |-> [r.chosen EXCEPT ![c.word] = v]]
  BY <1>2, SetChosenWord
<1>8. x = v /\ x.ids \subseteq n.nodes
  <2>1. r.chosen[c.word] = o.nodes /\ o.nodes.ids \subseteq n.nodes
    BY <1>m DEF ChosenMatch
  <2>2. QED
    BY <1>4, <2>1, SelectionRowIs
<1> HIDE DEF p, q, x, v
<1>9. p = [page |-> o.page, status |-> o.status, summary |-> o.summary, messages |-> o.messages,
           energy |-> o.energy, nodes |-> x, links |-> o.links, fields |-> o.fields, backend |-> o.backend]
  BY <1>m, <1>5, OptionsAre
<1>10. /\ IsOptions(p) /\ p.page = o.page /\ p.status = o.status /\ p.summary = o.summary /\ p.messages = o.messages
       /\ p.energy = o.energy /\ p.nodes = x /\ p.links = o.links /\ p.fields = o.fields /\ p.backend = o.backend
  BY <1>9 DEF IsOptions
<1>11. q.fields = r.fields /\ q.flags = r.flags /\ q.chosen["NODES"] = v /\ q.chosen["LINKS"] = r.chosen["LINKS"]
  BY <1>7 DEF Whole, ChosenWords
<1>12. FlagsMatch(p, q)
  BY <1>m, <1>10, <1>11, FlagsStay
<1>13. ChosenMatch(p, q, n)
  BY <1>m, <1>8, <1>10, <1>11 DEF ChosenMatch
<1>14. FieldsMatch(p.fields, q)
  BY <1>m, <1>10, <1>11 DEF FieldsMatch
<1>15. QED
  BY <1>6, <1>10, <1>12, <1>13, <1>14 DEF Matches, p, q

LEMMA LinksRowIs ==
  ASSUME NEW o, NEW r, NEW n, Matches(o, r, n), Whole(r), NEW f, NEW c, RowFits(f, n, c), c.word = "LINKS"
  PROVE  Matches(ImportReportRow(f, n, o, c), SetReport(r, c), n)
<1> DEFINE p == ImportReportRow(f, n, o, c)
           q == SetReport(r, c)
           x == ImportSelection(o.links, c, n.links)
           v == [mode |-> c.verb, ids |-> IF c.verb = "LIST" THEN r.chosen[c.word].ids \union c.value ELSE r.chosen[c.word].ids]
<1>m. IsOptions(o) /\ FlagsMatch(o, r) /\ ChosenMatch(o, r, n) /\ FieldsMatch(o.fields, r) /\ BackendMatches(o.backend, r)
  BY DEF Matches
<1>1. IsCommand(c) /\ ~LimitLost(f, c) /\ ~Unresolved(n, c)
  BY DEF RowFits
<1>2. c.word \in ChosenWords /\ c.word \notin FieldWords /\ c.word \notin FlagWords
  BY WordsApart DEF ChosenWords
<1>3. c.verb \in {"NONE", "ALL", "LIST"}
  BY <1>1, <1>2, CommandWords
<1>4. ~AsCommand(c) /\ (c.verb = "LIST" => c.value \subseteq n.links)
  BY <1>1, <1>3 DEF AsCommand, Unresolved
<1>5. p = [o EXCEPT !.links = x]
  BY <1>1, <1>2, <1>4, <1>m DEF FieldsMatch, ImportReportRow
<1>6. BackendMatches(o.backend, q)
  BY <1>m, <1>1, <1>4, BackendStays
<1>7. q = [flags |-> r.flags, fields |-> r.fields, chosen |-> [r.chosen EXCEPT ![c.word] = v]]
  BY <1>2, SetChosenWord
<1>8. x = v /\ x.ids \subseteq n.links
  BY <1>4, <1>m, SelectionRowIs DEF ChosenMatch
<1> HIDE DEF p, q, x, v
<1>9. p = [page |-> o.page, status |-> o.status, summary |-> o.summary, messages |-> o.messages,
           energy |-> o.energy, nodes |-> o.nodes, links |-> x, fields |-> o.fields, backend |-> o.backend]
  BY <1>m, <1>5, OptionsAre
<1>10. /\ IsOptions(p) /\ p.page = o.page /\ p.status = o.status /\ p.summary = o.summary /\ p.messages = o.messages
       /\ p.energy = o.energy /\ p.links = x /\ p.nodes = o.nodes /\ p.fields = o.fields /\ p.backend = o.backend
  BY <1>9 DEF IsOptions
<1>11. q.fields = r.fields /\ q.flags = r.flags /\ q.chosen["LINKS"] = v /\ q.chosen["NODES"] = r.chosen["NODES"]
  BY <1>7 DEF Whole, ChosenWords
<1>12. FlagsMatch(p, q)
  BY <1>m, <1>10, <1>11, FlagsStay
<1>13. ChosenMatch(p, q, n)
  BY <1>m, <1>8, <1>10, <1>11 DEF ChosenMatch
<1>14. FieldsMatch(p.fields, q)
  BY <1>m, <1>10, <1>11 DEF FieldsMatch
<1>15. QED
  BY <1>6, <1>10, <1>12, <1>13, <1>14 DEF Matches, p, q

(* A flag that is set is in force; the others stay.                        *)
LEMMA FlagSet ==
  ASSUME NEW r, Whole(r), NEW c, c.word \in OptionFlags
  PROVE  LET q == SetReport(r, c)
         IN  /\ q.chosen = r.chosen /\ q.fields = r.fields
             /\ \A w \in OptionFlags : FlagOf(q, w) = IF w = c.word THEN <<c.verb, c.value>> ELSE FlagOf(r, w)
<1> DEFINE q == SetReport(r, c)
           v == <<c.verb, c.value>>
<1>1. c.word \in FlagWords
  BY DEF OptionFlags, FlagWords
<1>2. q = [chosen |-> r.chosen, fields |-> r.fields, flags |-> [r.flags EXCEPT ![c.word] = v]]
  BY <1>1, SetFlagWord
<1>3. v # <<>>
  OBVIOUS
<1> HIDE DEF q, v
<1>4. q.chosen = r.chosen /\ q.fields = r.fields /\ q.flags = [r.flags EXCEPT ![c.word] = v]
  BY <1>2
<1>5. ASSUME NEW w \in OptionFlags
      PROVE  FlagOf(q, w) = IF w = c.word THEN v ELSE FlagOf(r, w)
  <2>1. CASE w = c.word
    BY <1>1, <1>3, <1>4, <2>1 DEF Whole, FlagOf
  <2>2. CASE w # c.word
    <3> DEFINE u == r.flags[w]
    <3>1. r.flags[w] = u /\ q.flags[w] = u
      BY <1>1, <1>4, <2>2 DEF Whole, OptionFlags, FlagWords
    <3> HIDE DEF u
    <3>2. FlagOf(q, w) = FlagOf(r, w)
      BY <3>1 DEF FlagOf
    <3>3. QED
      BY <2>2, <3>2
  <2>3. QED
    BY <2>1, <2>2
<1>6. QED
  BY <1>4, <1>5 DEF q, v

LEMMA PageRowIs ==
  ASSUME NEW o, NEW r, NEW n, Matches(o, r, n), Whole(r), NEW f, NEW c, RowFits(f, n, c), c.word = "PAGESIZE"
  PROVE  Matches(ImportReportRow(f, n, o, c), SetReport(r, c), n)
<1> DEFINE p == ImportReportRow(f, n, o, c)
           q == SetReport(r, c)
           x == c.value
<1>m. IsOptions(o) /\ FlagsMatch(o, r) /\ ChosenMatch(o, r, n) /\ FieldsMatch(o.fields, r) /\ BackendMatches(o.backend, r)
  BY DEF Matches
<1>1. IsCommand(c) /\ ~LimitLost(f, c)
  BY DEF RowFits
<1>2. c.verb = "IS"
  BY <1>1, CommandWords, WordsApart DEF FlagWords, FlagFits
<1>3. ~AsCommand(c)
  BY <1>2 DEF AsCommand, FlagVerbs
<1>4. p = [o EXCEPT !.page = x]
  BY <1>1, <1>3, <1>m DEF FieldsMatch, FieldWords, ImportReportRow
<1>5. BackendMatches(o.backend, q)
  BY <1>m, <1>1, <1>3, BackendStays
<1>6. /\ q.chosen = r.chosen /\ q.fields = r.fields
      /\ \A w \in OptionFlags : FlagOf(q, w) = IF w = c.word THEN <<c.verb, c.value>> ELSE FlagOf(r, w)
  BY FlagSet DEF OptionFlags
<1> HIDE DEF p, q, x
<1>7. p = [page |-> x, status |-> o.status, summary |-> o.summary, messages |-> o.messages, energy |-> o.energy,
           nodes |-> o.nodes, links |-> o.links, fields |-> o.fields, backend |-> o.backend]
  BY <1>m, <1>4, OptionsAre
<1>8. /\ IsOptions(p) /\ p.page = x /\ p.status = o.status /\ p.summary = o.summary /\ p.messages = o.messages /\ p.energy = o.energy
      /\ p.nodes = o.nodes /\ p.links = o.links /\ p.fields = o.fields /\ p.backend = o.backend
  BY <1>7 DEF IsOptions
<1>9. FlagsMatch(p, q)
  BY <1>m, <1>2, <1>6, <1>8 DEF FlagsMatch, OptionFlags, x
<1>10. ChosenMatch(p, q, n) /\ FieldsMatch(p.fields, q)
  BY <1>m, <1>6, <1>8 DEF ChosenMatch, FieldsMatch
<1>11. QED
  BY <1>5, <1>8, <1>9, <1>10 DEF Matches, p, q

LEMMA StatusRowIs ==
  ASSUME NEW o, NEW r, NEW n, Matches(o, r, n), Whole(r), NEW f, NEW c, RowFits(f, n, c), c.word = "STATUS"
  PROVE  Matches(ImportReportRow(f, n, o, c), SetReport(r, c), n)
<1> DEFINE p == ImportReportRow(f, n, o, c)
           q == SetReport(r, c)
           x == c.verb
<1>m. IsOptions(o) /\ FlagsMatch(o, r) /\ ChosenMatch(o, r, n) /\ FieldsMatch(o.fields, r) /\ BackendMatches(o.backend, r)
  BY DEF Matches
<1>1. IsCommand(c) /\ ~LimitLost(f, c)
  BY DEF RowFits
<1>2. c.verb \in FlagVerbs /\ c.value = NoRef
  BY <1>1, CommandWords, WordsApart DEF FlagWords, FlagFits
<1>3. ~AsCommand(c)
  BY <1>2 DEF AsCommand, FlagVerbs
<1>4. p = [o EXCEPT !.status = x]
  BY <1>1, <1>3, <1>m DEF FieldsMatch, FieldWords, ImportReportRow
<1>5. BackendMatches(o.backend, q)
  BY <1>m, <1>1, <1>3, BackendStays
<1>6. /\ q.chosen = r.chosen /\ q.fields = r.fields
      /\ \A w \in OptionFlags : FlagOf(q, w) = IF w = c.word THEN <<c.verb, c.value>> ELSE FlagOf(r, w)
  BY FlagSet DEF OptionFlags
<1> HIDE DEF p, q, x
<1>7. p = [page |-> o.page, status |-> x, summary |-> o.summary, messages |-> o.messages, energy |-> o.energy,
           nodes |-> o.nodes, links |-> o.links, fields |-> o.fields, backend |-> o.backend]
  BY <1>m, <1>4, OptionsAre
<1>8. /\ IsOptions(p) /\ p.page = o.page /\ p.status = x /\ p.summary = o.summary /\ p.messages = o.messages /\ p.energy = o.energy
      /\ p.nodes = o.nodes /\ p.links = o.links /\ p.fields = o.fields /\ p.backend = o.backend
  BY <1>7 DEF IsOptions
<1>9. FlagsMatch(p, q)
  BY <1>m, <1>2, <1>6, <1>8 DEF FlagsMatch, OptionFlags, x
<1>10. ChosenMatch(p, q, n) /\ FieldsMatch(p.fields, q)
  BY <1>m, <1>6, <1>8 DEF ChosenMatch, FieldsMatch
<1>11. QED
  BY <1>5, <1>8, <1>9, <1>10 DEF Matches, p, q

LEMMA SummaryRowIs ==
  ASSUME NEW o, NEW r, NEW n, Matches(o, r, n), Whole(r), NEW f, NEW c, RowFits(f, n, c), c.word = "SUMMARY"
  PROVE  Matches(ImportReportRow(f, n, o, c), SetReport(r, c), n)
<1> DEFINE p == ImportReportRow(f, n, o, c)
           q == SetReport(r, c)
           x == c.verb
<1>m. IsOptions(o) /\ FlagsMatch(o, r) /\ ChosenMatch(o, r, n) /\ FieldsMatch(o.fields, r) /\ BackendMatches(o.backend, r)
  BY DEF Matches
<1>1. IsCommand(c) /\ ~LimitLost(f, c)
  BY DEF RowFits
<1>2. c.verb \in FlagVerbs /\ c.value = NoRef
  BY <1>1, CommandWords, WordsApart DEF FlagWords, FlagFits
<1>3. ~AsCommand(c)
  BY <1>2 DEF AsCommand, FlagVerbs
<1>4. p = [o EXCEPT !.summary = x]
  BY <1>1, <1>3, <1>m DEF FieldsMatch, FieldWords, ImportReportRow
<1>5. BackendMatches(o.backend, q)
  BY <1>m, <1>1, <1>3, BackendStays
<1>6. /\ q.chosen = r.chosen /\ q.fields = r.fields
      /\ \A w \in OptionFlags : FlagOf(q, w) = IF w = c.word THEN <<c.verb, c.value>> ELSE FlagOf(r, w)
  BY FlagSet DEF OptionFlags
<1> HIDE DEF p, q, x
<1>7. p = [page |-> o.page, status |-> o.status, summary |-> x, messages |-> o.messages, energy |-> o.energy,
           nodes |-> o.nodes, links |-> o.links, fields |-> o.fields, backend |-> o.backend]
  BY <1>m, <1>4, OptionsAre
<1>8. /\ IsOptions(p) /\ p.page = o.page /\ p.status = o.status /\ p.summary = x /\ p.messages = o.messages /\ p.energy = o.energy
      /\ p.nodes = o.nodes /\ p.links = o.links /\ p.fields = o.fields /\ p.backend = o.backend
  BY <1>7 DEF IsOptions
<1>9. FlagsMatch(p, q)
  BY <1>m, <1>2, <1>6, <1>8 DEF FlagsMatch, OptionFlags, x
<1>10. ChosenMatch(p, q, n) /\ FieldsMatch(p.fields, q)
  BY <1>m, <1>6, <1>8 DEF ChosenMatch, FieldsMatch
<1>11. QED
  BY <1>5, <1>8, <1>9, <1>10 DEF Matches, p, q

LEMMA MessagesRowIs ==
  ASSUME NEW o, NEW r, NEW n, Matches(o, r, n), Whole(r), NEW f, NEW c, RowFits(f, n, c), c.word = "MESSAGES"
  PROVE  Matches(ImportReportRow(f, n, o, c), SetReport(r, c), n)
<1> DEFINE p == ImportReportRow(f, n, o, c)
           q == SetReport(r, c)
           x == c.verb
<1>m. IsOptions(o) /\ FlagsMatch(o, r) /\ ChosenMatch(o, r, n) /\ FieldsMatch(o.fields, r) /\ BackendMatches(o.backend, r)
  BY DEF Matches
<1>1. IsCommand(c) /\ ~LimitLost(f, c)
  BY DEF RowFits
<1>2. c.verb \in FlagVerbs /\ c.value = NoRef
  BY <1>1, CommandWords, WordsApart DEF FlagWords, FlagFits
<1>3. ~AsCommand(c)
  BY <1>2 DEF AsCommand, FlagVerbs
<1>4. p = [o EXCEPT !.messages = x]
  BY <1>1, <1>3, <1>m DEF FieldsMatch, FieldWords, ImportReportRow
<1>5. BackendMatches(o.backend, q)
  BY <1>m, <1>1, <1>3, BackendStays
<1>6. /\ q.chosen = r.chosen /\ q.fields = r.fields
      /\ \A w \in OptionFlags : FlagOf(q, w) = IF w = c.word THEN <<c.verb, c.value>> ELSE FlagOf(r, w)
  BY FlagSet DEF OptionFlags
<1> HIDE DEF p, q, x
<1>7. p = [page |-> o.page, status |-> o.status, summary |-> o.summary, messages |-> x, energy |-> o.energy,
           nodes |-> o.nodes, links |-> o.links, fields |-> o.fields, backend |-> o.backend]
  BY <1>m, <1>4, OptionsAre
<1>8. /\ IsOptions(p) /\ p.page = o.page /\ p.status = o.status /\ p.summary = o.summary /\ p.messages = x /\ p.energy = o.energy
      /\ p.nodes = o.nodes /\ p.links = o.links /\ p.fields = o.fields /\ p.backend = o.backend
  BY <1>7 DEF IsOptions
<1>9. FlagsMatch(p, q)
  BY <1>m, <1>2, <1>6, <1>8 DEF FlagsMatch, OptionFlags, x
<1>10. ChosenMatch(p, q, n) /\ FieldsMatch(p.fields, q)
  BY <1>m, <1>6, <1>8 DEF ChosenMatch, FieldsMatch
<1>11. QED
  BY <1>5, <1>8, <1>9, <1>10 DEF Matches, p, q

LEMMA EnergyRowIs ==
  ASSUME NEW o, NEW r, NEW n, Matches(o, r, n), Whole(r), NEW f, NEW c, RowFits(f, n, c), c.word = "ENERGY"
  PROVE  Matches(ImportReportRow(f, n, o, c), SetReport(r, c), n)
<1> DEFINE p == ImportReportRow(f, n, o, c)
           q == SetReport(r, c)
           x == c.verb
<1>m. IsOptions(o) /\ FlagsMatch(o, r) /\ ChosenMatch(o, r, n) /\ FieldsMatch(o.fields, r) /\ BackendMatches(o.backend, r)
  BY DEF Matches
<1>1. IsCommand(c) /\ ~LimitLost(f, c)
  BY DEF RowFits
<1>2. c.verb \in FlagVerbs /\ c.value = NoRef
  BY <1>1, CommandWords, WordsApart DEF FlagWords, FlagFits
<1>3. ~AsCommand(c)
  BY <1>2 DEF AsCommand, FlagVerbs
<1>4. p = [o EXCEPT !.energy = x]
  BY <1>1, <1>3, <1>m DEF FieldsMatch, FieldWords, ImportReportRow
<1>5. BackendMatches(o.backend, q)
  BY <1>m, <1>1, <1>3, BackendStays
<1>6. /\ q.chosen = r.chosen /\ q.fields = r.fields
      /\ \A w \in OptionFlags : FlagOf(q, w) = IF w = c.word THEN <<c.verb, c.value>> ELSE FlagOf(r, w)
  BY FlagSet DEF OptionFlags
<1> HIDE DEF p, q, x
<1>7. p = [page |-> o.page, status |-> o.status, summary |-> o.summary, messages |-> o.messages, energy |-> x,
           nodes |-> o.nodes, links |-> o.links, fields |-> o.fields, backend |-> o.backend]
  BY <1>m, <1>4, OptionsAre
<1>8. /\ IsOptions(p) /\ p.page = o.page /\ p.status = o.status /\ p.summary = o.summary /\ p.messages = o.messages /\ p.energy = x
      /\ p.nodes = o.nodes /\ p.links = o.links /\ p.fields = o.fields /\ p.backend = o.backend
  BY <1>7 DEF IsOptions
<1>9. FlagsMatch(p, q)
  BY <1>m, <1>2, <1>6, <1>8 DEF FlagsMatch, OptionFlags, x
<1>10. ChosenMatch(p, q, n) /\ FieldsMatch(p.fields, q)
  BY <1>m, <1>6, <1>8 DEF ChosenMatch, FieldsMatch
<1>11. QED
  BY <1>5, <1>8, <1>9, <1>10 DEF Matches, p, q

LEMMA ReportRowIs ==
  ASSUME NEW o, NEW r, NEW n, Matches(o, r, n), Whole(r), NEW f, NEW c, RowFits(f, n, c)
  PROVE  Matches(ImportReportRow(f, n, o, c), SetReport(r, c), n)
<1>1. IsCommand(c)
  BY DEF RowFits
<1>2. CASE AsCommand(c)
  BY <1>2, CommandRowIs
<1>3. CASE ~AsCommand(c)
  <2>1. c.word \in FlagWords \/ c.word \in ChosenWords \/ c.word \in FieldWords
    BY <1>1, CommandWords
  <2>2. c.word # "FILE"
    BY <1>3 DEF AsCommand
  <2>3. \/ c.word \in {"PAGESIZE", "STATUS", "SUMMARY", "MESSAGES", "ENERGY"} \/ c.word \in {"NODES", "LINKS"}
        \/ c.word \in FieldWords
    BY <2>1, <2>2 DEF FlagWords, ChosenWords
  <2>4. CASE c.word \in {"PAGESIZE", "STATUS", "SUMMARY", "MESSAGES", "ENERGY"}
    BY <2>4, PageRowIs, StatusRowIs, SummaryRowIs, MessagesRowIs, EnergyRowIs
  <2>5. CASE c.word \in {"NODES", "LINKS"}
    BY <2>5, NodesRowIs, LinksRowIs
  <2>6. CASE c.word \in FieldWords
    BY <1>3, <2>6, FieldRowIs
  <2>7. QED
    BY <2>3, <2>4, <2>5, <2>6
<1>4. QED
  BY <1>2, <1>3

(* All the rows of a report.                                               *)
LEMMA ReportRowsAre ==
  ASSUME NEW source, NEW network, IsList(source.report), \A row \in Items(source.report) : RowFits(source, network, row)
  PROVE  Matches(ImportReportRows(source, network), ReopenedReport(source), network) /\ Sound(ReopenedReport(source))
<1> DEFINE s == source.report
           f == ImportReportRowsRun(source, network, s)
           g == ReportedRun(NewReport, s)
           m == Len(s)
           T == {k \in Nat : k <= m => Matches(f[k], g[k], network)}
<1>1. m \in Nat /\ Commands(s)
  BY ListIs DEF RowFits, Commands
<1>2. IsImportReportRows(f, source, network, s, m) /\ ImportReportRows(source, network) = f[m]
  BY <1>1, ImportReportRowsIsRun
<1>3. /\ g[0] = NewReport /\ g[m] = Reported(NewReport, s) /\ \A k \in 0 .. m : Whole(g[k])
      /\ \A k \in 0 .. m - 1 : k + 1 \in 1 .. m /\ g[k + 1] = SetReport(g[k], s[k + 1])
  BY <1>1, NewReportIs, ReportedAlong
<1>4. \A k \in 1 .. m : RowFits(source, network, s[k])
  BY <1>1, CommandsAre
<1> HIDE DEF f, g, m, s
<1>5. f[0] = DefaultReport /\ \A k \in 0 .. m - 1 : f[k + 1] = ImportReportRow(source, network, f[k], s[k + 1])
  BY <1>1, <1>2 DEF IsImportReportRows
<1>6. 0 \in T
  BY <1>3, <1>5, MatchesAtFirst
<1>7. \A k \in Nat : k \in T => k + 1 \in T
  <2> SUFFICES ASSUME NEW k \in Nat, k \in T, k + 1 <= m
               PROVE  Matches(f[k + 1], g[k + 1], network)
    OBVIOUS
  <2>1. k \in 0 .. m - 1 /\ k \in 0 .. m /\ k + 1 \in 1 .. m /\ Matches(f[k], g[k], network)
    BY <1>1
  <2>2. f[k + 1] = ImportReportRow(source, network, f[k], s[k + 1]) /\ g[k + 1] = SetReport(g[k], s[k + 1]) /\ Whole(g[k])
        /\ RowFits(source, network, s[k + 1])
    BY <1>3, <1>4, <1>5, <2>1
  <2>3. QED
    BY <2>1, <2>2, ReportRowIs
<1> HIDE DEF T
<1>8. m \in T
  BY <1>1, <1>6, <1>7, SetInduction
<1>9. Matches(f[m], g[m], network)
  BY <1>1, <1>8 DEF T
<1>10. Sound(Reported(NewReport, s))
  BY <1>1, NewIsSound, ReportedSound
<1>11. QED
  BY <1>2, <1>3, <1>9, <1>10 DEF ReopenedReport, s

-----------------------------------------------------------------------------
(* A report of those options shows what the toolkit's shows. *)

LEMMA StatusIs ==
  ASSUME NEW r, Sound(r), NEW w \in OptionFlags \ {"PAGESIZE"}, NEW v, FlagOf(r, w) = <<v, NoRef>>
  PROVE  v \in FlagVerbs
<1> DEFINE u == r.flags[w]
<1>1. w \in FlagWords /\ w \notin {"PAGESIZE", "FILE"}
  BY DEF OptionFlags, FlagWords
<1>2. u = r.flags[w] /\ (u = <<>> \/ \E y, x : u = <<y, x>> /\ FlagFits(w, y, x))
  BY <1>1 DEF Sound
<1> HIDE DEF u
<1>3. CASE u = <<>>
  <2>1. w \in {"STATUS", "ENERGY"} \/ w \in {"SUMMARY", "MESSAGES"}
    BY DEF OptionFlags
  <2>2. CASE w \in {"STATUS", "ENERGY"}
    BY <1>2, <1>3, <2>2 DEF FlagOf, FlagVerbs
  <2>3. CASE w \in {"SUMMARY", "MESSAGES"}
    BY <1>2, <1>3, <2>3 DEF FlagOf, FlagVerbs
  <2>4. QED
    BY <2>1, <2>2, <2>3
<1>4. CASE u # <<>>
  BY <1>1, <1>2, <1>4 DEF FlagOf, FlagFits
<1>5. QED
  BY <1>3, <1>4

LEMMA OptionsAreReport ==
  ASSUME NEW o, NEW r, NEW n, Matches(o, r, n), Sound(r)
  PROVE  IsReport(o)
<1>m. FlagsMatch(o, r) /\ ChosenMatch(o, r, n) /\ FieldsMatch(o.fields, r) /\ BackendMatches(o.backend, r)
  BY DEF Matches
<1>1. {o.status, o.summary, o.messages, o.energy} \subseteq FlagVerbs
  BY <1>m, StatusIs DEF FlagsMatch, OptionFlags
<1>2. o.nodes.mode \in {"NONE", "ALL", "LIST"} /\ o.links.mode \in {"NONE", "ALL", "LIST"}
  BY <1>m DEF ChosenMatch, Sound, ChosenWords
<1>3. /\ DOMAIN o.fields = Items(ReportFields)
      /\ \A word \in Items(ReportFields) : IsField(o.fields[word])
  <2>1. DOMAIN o.fields = FieldWords /\ \A w \in FieldWords : o.fields[w] = Seen(w, r.fields[w])
    BY <1>m DEF FieldsMatch
  <2>2. \A w \in FieldWords : IsSetField(r.fields[w]) /\ r.fields[w].enabled \in BOOLEAN
    BY DEF Sound, Whole
  <2>3. \A w \in FieldWords : IsField(Seen(w, r.fields[w]))
    BY <2>2 DEF Seen, IsSetField, IsField
  <2>4. QED
    BY <2>1, <2>3, FieldWordsAre
<1>4. o.backend \in Seq(Items(o.backend)) /\ \A c \in Items(o.backend) : IsCommand(c)
  BY <1>m DEF BackendMatches, Commands, IsList
<1>5. QED
  BY <1>1, <1>2, <1>3, <1>4 DEF IsReport

(* Options that are those, but perhaps for a field.                        *)
Follows(p, o) ==
    /\ p.page = o.page /\ p.status = o.status /\ p.summary = o.summary /\ p.messages = o.messages /\ p.energy = o.energy
    /\ p.nodes = o.nodes /\ p.links = o.links /\ p.backend = o.backend

(* What the backend's commands do not set stays.                           *)
LEMMA BackendSilent ==
  ASSUME NEW p, IsReport(p), \A c \in Items(p.backend) : AsCommand(c), NEW a, IsPart(a),
         a.word # "FILE", a.part \in {"below", "above"} => a.word \in PhysicalThresholdFields
  PROVE  Part(Told(p), a) = Part(Base(p), a)
<1>1. Told(p) = Reported(Base(p), p.backend) /\ Whole(Base(p)) /\ Commands(p.backend)
  BY ToldIs, TypedIs
<1>2. ASSUME NEW c \in Items(p.backend), Sets(c, a)
      PROVE  FALSE
  <2>1. c.word = a.word /\ AsCommand(c) /\ IsCommand(c)
    BY <1>1, <1>2 DEF Sets, Commands
  <2>2. c.verb \in {"BELOW", "ABOVE"} /\ a.word \notin PhysicalThresholdFields
    BY <2>1 DEF AsCommand
  <2>3. a.word \in FieldWords
    BY <2>1, <2>2, CommandWords, WordsApart DEF FlagFits, FlagVerbs, IsPart
  <2>4. a.part \in {"enabled", "precision"}
    BY <2>2, <2>3, WordsApart DEF IsPart, FieldParts
  <2>5. QED
    BY <1>2, <2>2, <2>4 DEF Sets
<1>3. \A c \in Items(p.backend) : ~Sets(c, a)
  BY <1>2
<1>4. QED
  BY <1>1, <1>3, NoneOf

LEMMA FlagsAreTold ==
  ASSUME NEW o, NEW r, NEW n, Matches(o, r, n), NEW p, IsReport(p), Follows(p, o), NEW w \in FlagWords
  PROVE  FlagOf(Told(p), w) = FlagOf(r, w)
<1> DEFINE a == FlagPart(w)
           t == Told(p)
           b == Base(p)
<1>m. FlagsMatch(o, r) /\ BackendMatches(o.backend, r)
  BY DEF Matches
<1>1. IsPart(a) /\ a.word = w /\ a.part = "flag" /\ \A q : Part(q, a) = q.flags[w]
  BY OtherParts
<1>2. p.backend = o.backend /\ t = Reported(b, p.backend) /\ Whole(b)
  BY ToldIs DEF Follows
<1>3. /\ b.flags["PAGESIZE"] = <<"IS", o.page>> /\ b.flags["STATUS"] = <<o.status, NoRef>>
      /\ b.flags["SUMMARY"] = <<o.summary, NoRef>> /\ b.flags["MESSAGES"] = <<o.messages, NoRef>>
      /\ b.flags["ENERGY"] = <<o.energy, NoRef>> /\ b.flags["FILE"] = <<>>
  BY BaseFlags DEF Follows
<1> HIDE DEF a, t, b
<1>4. CASE w = "FILE"
  <2> DEFINE u == r.flags[w]
  <2>1. LeftToBackend(a)
    BY <1>1, <1>4 DEF LeftToBackend
  <2>2. Part(b, a) = Part(NewReport, a)
    BY <1>1, <1>3, <1>4, NewReportIs DEF FlagWords
  <2>3. Part(t, a) = Part(r, a)
    BY <1>m, <1>2, <2>1, <2>2 DEF BackendMatches
  <2>4. t.flags[w] = u /\ r.flags[w] = u
    BY <1>1, <2>3
  <2> HIDE DEF u
  <2>5. QED
    BY <2>4 DEF FlagOf, t
<1>5. CASE w # "FILE"
  <2>1. \A c \in Items(p.backend) : AsCommand(c)
    BY <1>m, <1>2 DEF BackendMatches
  <2>2. Part(t, a) = Part(b, a)
    BY <1>1, <1>5, <2>1, BackendSilent DEF t, b
  <2>3. t.flags[w] = b.flags[w]
    BY <1>1, <2>2
  <2>4. w \in {"PAGESIZE", "STATUS", "SUMMARY", "MESSAGES", "ENERGY"}
    BY <1>5 DEF FlagWords
  <2>5. b.flags[w] = FlagOf(r, w)
    BY <1>m, <1>3, <2>4 DEF FlagsMatch
  <2>6. b.flags[w] # <<>>
    <3>1. \A x, y : <<x, y>> # <<>>
      OBVIOUS
    <3>2. \E x, y : b.flags[w] = <<x, y>>
      BY <1>3, <2>4
    <3>3. QED
      BY <3>1, <3>2
  <2>7. FlagOf(t, w) = t.flags[w]
    BY <2>3, <2>6 DEF FlagOf
  <2>8. QED
    BY <2>3, <2>5, <2>7 DEF t
<1>6. QED
  BY <1>4, <1>5

LEMMA SelectionIsTold ==
  ASSUME NEW p, IsReport(p), \A c \in Items(p.backend) : AsCommand(c), NEW w \in ChosenWords, NEW selection,
         IsSelection(selection), SelectionCommand(w, selection) \in FirstCommands(p)
  PROVE  Selected(Told(p).chosen[w]) = Selected(selection)
<1> DEFINE t == Told(p).chosen[w]
           b == Base(p).chosen[w]
<1>1. b.mode = selection.mode /\ (selection.mode = "LIST" => \A x : x \in b.ids <=> x \in selection.ids)
  BY BaseSelection
<1>2. Whole(Told(p)) /\ Whole(Base(p))
  BY ToldIs
<1>3. IsSelection(t) /\ IsSelection(b)
  BY <1>2 DEF Whole
<1>4. w # "FILE"
  BY DEF ChosenWords
<1>5. t.mode = b.mode
  BY <1>4, OtherParts, BackendSilent
<1>6. ASSUME NEW x
      PROVE  x \in t.ids <=> x \in b.ids
  BY <1>4, OtherParts, BackendSilent
<1> HIDE DEF t, b
<1>7. CASE selection.mode = "LIST"
  <2>1. t.ids = selection.ids
    BY <1>1, <1>6, <1>7
  <2>2. t = selection
    BY <1>1, <1>3, <1>5, <2>1 DEF IsSelection
  <2>3. QED
    BY <2>2 DEF t
<1>8. CASE selection.mode # "LIST"
  BY <1>1, <1>3, <1>5, <1>8 DEF Selected, IsSelection, t
<1>9. QED
  BY <1>7, <1>8

LEMMA SelectionsAreTold ==
  ASSUME NEW o, NEW r, NEW n, Matches(o, r, n), Whole(r), NEW p, IsReport(p), Follows(p, o), NEW w \in ChosenWords
  PROVE  Selected(Told(p).chosen[w]) = Selected(r.chosen[w])
<1>m. ChosenMatch(o, r, n) /\ BackendMatches(o.backend, r)
  BY DEF Matches
<1>1. \A c \in Items(p.backend) : AsCommand(c)
  BY <1>m DEF BackendMatches, Follows
<1>2. IsSelection(r.chosen[w])
  BY DEF Whole
<1>3. SelectionCommand(w, r.chosen[w]) \in FirstCommands(p)
  <2>1. CASE w = "NODES"
    BY <2>1, <1>m DEF ChosenMatch, Follows, FirstCommands
  <2>2. CASE w = "LINKS"
    BY <2>2, <1>m DEF ChosenMatch, Follows, FirstCommands
  <2>3. QED
    BY <2>1, <2>2 DEF ChosenWords
<1>4. QED
  BY <1>1, <1>2, <1>3, SelectionIsTold

LEMMA LimitIsTold ==
  ASSUME NEW o, NEW r, NEW n, Matches(o, r, n), NEW p, IsReport(p), Follows(p, o), NEW w \in FieldWords,
         p.fields[w] = Seen(w, r.fields[w]), p.fields[w].enabled, NEW part \in {"below", "above"}
  PROVE  Part(Told(p), FieldPart(w, part)) = Part(r, FieldPart(w, part))
<1> DEFINE a == FieldPart(w, part)
           e == p.fields[w]
           b == Base(p)
<1>1. IsPart(a) /\ a.word = w /\ a.part = part
  BY FieldPartIs DEF FieldParts
<1>2. Part(b, FieldPart(w, "below")) = e.below /\ Part(b, FieldPart(w, "above")) = e.above
  BY BaseField, FieldPartsOf
<1>3. /\ Told(p) = Reported(b, p.backend) /\ Whole(b) /\ p.backend = o.backend /\ BackendMatches(o.backend, r)
      /\ \A c \in Items(p.backend) : AsCommand(c)
  BY ToldIs DEF Matches, Follows, BackendMatches
<1>w. w # "FILE"
  BY DEF FieldWords
<1>4. CASE w \in PhysicalThresholdFields
  <2>1. e = r.fields[w]
    BY <1>4 DEF Seen
  <2> HIDE DEF e
  <2>2. Part(b, a) = Part(r, a)
    BY <1>2, <2>1, FieldPartsOf
  <2> HIDE DEF a, b
  <2>3. Part(Told(p), a) = Part(b, a)
    BY <1>1, <1>3, <1>4, <1>w, BackendSilent DEF b
  <2>4. QED
    BY <2>2, <2>3 DEF a
<1>5. CASE w \notin PhysicalThresholdFields
  <2>1. e.below = NoRef /\ e.above = NoRef
    BY <1>5 DEF Seen
  <2>2. NewReport.fields[w].below = NoRef /\ NewReport.fields[w].above = NoRef
    BY NewReportIs
  <2> HIDE DEF e
  <2>3. Part(b, a) = Part(NewReport, a)
    BY <1>2, <2>1, <2>2, FieldPartsOf
  <2> HIDE DEF a, b
  <2>4. LeftToBackend(a)
    BY <1>1, <1>5 DEF LeftToBackend
  <2>5. Part(Reported(b, o.backend), a) = Part(r, a)
    BY <1>3, <2>3, <2>4 DEF BackendMatches
  <2>6. QED
    BY <1>3, <2>5 DEF a, b
<1>6. QED
  BY <1>4, <1>5

LEMMA FieldIsTold ==
  ASSUME NEW o, NEW r, NEW n, Matches(o, r, n), Sound(r), NEW p, IsReport(p), Follows(p, o), NEW w \in FieldWords,
         p.fields[w] = Seen(w, r.fields[w])
  PROVE  Shown(Told(p).fields[w]) = Shown(r.fields[w])
<1> DEFINE e == p.fields[w]
           t == Told(p).fields[w]
           q == r.fields[w]
           b == Base(p).fields[w]
<1>1. \A c \in Items(p.backend) : AsCommand(c)
  BY DEF Matches, Follows, BackendMatches
<1>2. e.enabled = q.enabled /\ e.precision = q.precision
  BY DEF Seen
<1>3. IsSetField(q) /\ q.precision # NoRef
  BY DEF Sound, Whole
<1>4. IsSetField(t)
  BY ToldIs DEF Whole
<1>5. b.enabled = e.enabled /\ (e.enabled /\ e.precision # NoRef => b.precision = e.precision)
  BY BaseField
<1>w. w # "FILE"
  BY DEF FieldWords
<1>6. t.enabled = b.enabled
  <2> DEFINE a == FieldPart(w, "enabled")
  <2>1. IsPart(a) /\ a.word = w /\ a.part = "enabled"
    BY FieldPartIs DEF FieldParts
  <2>2. Part(Told(p), a) = t.enabled /\ Part(Base(p), a) = b.enabled
    BY FieldPartsOf
  <2> HIDE DEF a, t, b
  <2>3. Part(Told(p), a) = Part(Base(p), a)
    BY <1>1, <1>w, <2>1, BackendSilent
  <2>4. QED
    BY <2>2, <2>3
<1>7. t.precision = b.precision
  <2> DEFINE a == FieldPart(w, "precision")
  <2>1. IsPart(a) /\ a.word = w /\ a.part = "precision"
    BY FieldPartIs DEF FieldParts
  <2>2. Part(Told(p), a) = t.precision /\ Part(Base(p), a) = b.precision
    BY FieldPartsOf
  <2> HIDE DEF a, t, b
  <2>3. Part(Told(p), a) = Part(Base(p), a)
    BY <1>1, <1>w, <2>1, BackendSilent
  <2>4. QED
    BY <2>2, <2>3
<1>8. ASSUME q.enabled
      PROVE  t.below = q.below /\ t.above = q.above
  <2>1. e.enabled
    BY <1>2, <1>8
  <2> HIDE DEF t, q
  <2>2. Part(Told(p), FieldPart(w, "below")) = Part(r, FieldPart(w, "below"))
    BY <2>1, LimitIsTold
  <2>3. Part(Told(p), FieldPart(w, "above")) = Part(r, FieldPart(w, "above"))
    BY <2>1, LimitIsTold
  <2>4. QED
    BY <2>2, <2>3, FieldPartsOf DEF t, q
<1> HIDE DEF e, t, q, b
<1>9. t.enabled = q.enabled
  BY <1>2, <1>5, <1>6
<1>10. q.enabled => t.precision = q.precision
  BY <1>2, <1>3, <1>5, <1>7
<1>11. Shown(t) = Shown(q)
  BY <1>3, <1>4, <1>8, <1>9, <1>10, ShownAlike
<1>12. QED
  BY <1>11 DEF t, q

(* What is imported of a report without a warning.                         *)
LEMMA ImportedReportMeans ==
  ASSUME NEW o, NEW r, NEW n, Matches(o, r, n), Sound(r), NEW p, IsReport(p), Follows(p, o),
         NEW unseen, \A w \in FieldWords \ unseen : p.fields[w] = o.fields[w]
  PROVE  /\ SelectionsResolve(p, n.nodes, n.links)
         /\ \A w \in DOMAIN r.flags : FlagOf(Told(p), w) = FlagOf(r, w)
         /\ \A w \in {"NODES", "LINKS"} : Selected(Told(p).chosen[w]) = Selected(r.chosen[w])
         /\ \A w \in Items(ReportFields) \ unseen : Shown(Told(p).fields[w]) = Shown(r.fields[w])
<1>1. SelectionsResolve(p, n.nodes, n.links)
  BY DEF Matches, ChosenMatch, Follows, SelectionsResolve
<1>2. \A w \in DOMAIN r.flags : FlagOf(Told(p), w) = FlagOf(r, w)
  BY FlagsAreTold DEF Sound, Whole
<1>3. \A w \in {"NODES", "LINKS"} : Selected(Told(p).chosen[w]) = Selected(r.chosen[w])
  BY SelectionsAreTold DEF Sound, ChosenWords
<1>4. \A w \in FieldWords \ unseen : p.fields[w] = Seen(w, r.fields[w])
  BY DEF Matches, FieldsMatch
<1>5. \A w \in FieldWords \ unseen : Shown(Told(p).fields[w]) = Shown(r.fields[w])
  BY <1>4, FieldIsTold
<1>6. QED
  BY <1>1, <1>2, <1>3, <1>5, FieldWordsAre

-----------------------------------------------------------------------------
(* What the sections make of a network. *)

NetworkFields ==
    {"settings", "patterns", "curves", "default", "price", "nodes", "links", "demands", "pumps", "places", "labels",
     "backdrop", "children", "mixing", "initial", "sources", "reactions", "controls", "rules", "metadata", "report"}

LEMMA OutcomesAre ==
  /\ \A n : Fine(n).verdict = "fine" /\ Fine(n).network = n
  /\ \A fine, n : FineIf(fine, n).network = n /\ (FineIf(fine, n).verdict # "failed" => fine)
  /\ \A lossy, n : /\ LossyIf(lossy, n).network = n /\ LossyIf(lossy, n).verdict # "failed"
                   /\ LossyIf(lossy, n).verdict = "fine" => ~lossy
BY DEF Fine, FineIf, LossyIf

LEMMA UnseenIsReport ==
  ASSUME NEW o, IsReport(o), IsOptions(o)
  PROVE  LET p == [o EXCEPT !.fields["QUALITY"].enabled = FALSE]
         IN  /\ IsReport(p) /\ Follows(p, o)
             /\ \A w \in FieldWords \ {"QUALITY"} : p.fields[w] = o.fields[w]
<1> DEFINE x == [o.fields["QUALITY"] EXCEPT !.enabled = FALSE]
           fields == [o.fields EXCEPT !["QUALITY"] = x]
           p == [o EXCEPT !.fields["QUALITY"].enabled = FALSE]
<1>1. p = [o EXCEPT !.fields = fields]
  OBVIOUS
<1>2. IsField(o.fields["QUALITY"]) /\ DOMAIN o.fields = FieldWords /\ "QUALITY" \in FieldWords
  BY FieldWordsAre DEF FieldWords, IsReport
<1>3. IsField(x)
  <2> DEFINE e == o.fields["QUALITY"]
  <2>1. IsField(e) /\ x = [e EXCEPT !.enabled = FALSE]
    BY <1>2
  <2> HIDE DEF e, x
  <2>2. x = [enabled |-> FALSE, precision |-> e.precision, below |-> e.below, above |-> e.above]
    BY <2>1 DEF IsField
  <2>3. QED
    BY <2>2 DEF IsField
<1> HIDE DEF x
<1>4. /\ DOMAIN fields = FieldWords
      /\ \A w \in FieldWords : fields[w] = IF w = "QUALITY" THEN x ELSE o.fields[w]
  BY <1>2
<1> HIDE DEF fields, p
<1>5. p = [page |-> o.page, status |-> o.status, summary |-> o.summary, messages |-> o.messages,
           energy |-> o.energy, nodes |-> o.nodes, links |-> o.links, fields |-> fields, backend |-> o.backend]
  BY <1>1, OptionsAre
<1>6. Follows(p, o) /\ p.fields = fields
  BY <1>5 DEF Follows
<1>7. \A w \in FieldWords : IsField(p.fields[w])
  BY <1>3, <1>4, <1>6, FieldWordsAre DEF IsReport
<1>8. IsReport(p)
  BY <1>4, <1>6, <1>7, FieldWordsAre DEF IsReport, Follows
<1>9. QED
  BY <1>4, <1>6, <1>8 DEF p

LEMMA RowsFit ==
  ASSUME NEW f, NEW n, \A row \in Items(f.report) : IsCommand(row),
         ~(\E row \in Items(f.report) : LimitLost(f, row) \/ Unresolved(n, row))
  PROVE  \A row \in Items(f.report) : RowFits(f, n, row)
  BY DEF RowFits

LEMMA ReportIsImported ==
  ASSUME NEW f, NEW n, IsList(f.report), \A row \in Items(f.report) : IsCommand(row), DOMAIN n = NetworkFields,
         ImportReport(f, n).verdict = "fine"
  PROVE  LET p == ImportReport(f, n).network.report
             r == ReopenedReport(f)
             unseen == IF f.quality.analysis = "None" THEN {"QUALITY"} ELSE {}
         IN  /\ SelectionsResolve(p, n.nodes, n.links)
             /\ \A w \in DOMAIN r.flags : FlagOf(Told(p), w) = FlagOf(r, w)
             /\ \A w \in {"NODES", "LINKS"} : Selected(Told(p).chosen[w]) = Selected(r.chosen[w])
             /\ \A w \in Items(ReportFields) \ unseen : Shown(Told(p).fields[w]) = Shown(r.fields[w])
<1> DEFINE o == ImportReportRows(f, n)
           r == ReopenedReport(f)
           x == FlagOf(r, "STATUS")[1]
           options == [o EXCEPT !.status = x]
           p == IF f.quality.analysis = "None" THEN [options EXCEPT !.fields["QUALITY"].enabled = FALSE] ELSE options
           unseen == IF f.quality.analysis = "None" THEN {"QUALITY"} ELSE {}
           lossy == \E row \in Items(f.report) : LimitLost(f, row) \/ Unresolved(n, row)
           m == [n EXCEPT !.report = p]
<1>1. ImportReport(f, n) = LossyIf(lossy, m)
  BY DEF ImportReport
<1>2. ~lossy /\ ImportReport(f, n).network = m
  <2> HIDE DEF lossy, m
  <2>1. QED
    BY <1>1, OutcomesAre
<1>3. m.report = p
  BY DEF NetworkFields
<1>4. \A row \in Items(f.report) : RowFits(f, n, row)
  BY <1>2, RowsFit
<1> HIDE DEF lossy, m
<1>5. Matches(o, r, n) /\ Sound(r)
  BY <1>4, ReportRowsAre
<1> HIDE DEF o, r
<1>6. IsReport(o) /\ IsOptions(o) /\ FlagsMatch(o, r)
  BY <1>5, OptionsAreReport DEF Matches
<1>7. options = o
  BY <1>6, OptionsAre DEF FlagsMatch, IsOptions
<1> HIDE DEF options
<1>8. IsReport(p) /\ Follows(p, o) /\ \A w \in FieldWords \ unseen : p.fields[w] = o.fields[w]
  <2>1. CASE f.quality.analysis = "None"
    BY <1>6, <1>7, <2>1, UnseenIsReport
  <2>2. CASE f.quality.analysis # "None"
    BY <1>6, <1>7, <2>2 DEF Follows
  <2>3. QED
    BY <2>1, <2>2
<1> HIDE DEF p, unseen
<1>9. /\ SelectionsResolve(p, n.nodes, n.links)
      /\ \A w \in DOMAIN r.flags : FlagOf(Told(p), w) = FlagOf(r, w)
      /\ \A w \in {"NODES", "LINKS"} : Selected(Told(p).chosen[w]) = Selected(r.chosen[w])
      /\ \A w \in Items(ReportFields) \ unseen : Shown(Told(p).fields[w]) = Shown(r.fields[w])
  BY <1>5, <1>8, ImportedReportMeans
<1>10. QED
  BY <1>2, <1>3, <1>9 DEF r, unseen

-----------------------------------------------------------------------------
(* Junctions: their demands with the pattern that was in force. *)

LEMMA NativeDemandsAre ==
  ASSUME NEW f, IsFile(f), NEW j \in DOMAIN f.demands, j \in ExplicitDemands(f)
  PROVE  /\ IsList(NativeDemands(f, j))
         /\ \A row \in Items(NativeDemands(f, j)) : IsDemandRow(row)
<1> DEFINE rows == f.demands[j]
           field == f.fields[j]
           native == NativeDemands(f, j)
<1>1. IsList(rows) /\ (\A row \in Items(rows) : IsDemandRow(row)) /\ (field # NoRef => IsDemandRow(field))
  BY DEF IsFile
<1>2. rows = <<>> => field # NoRef
  BY DEF ExplicitDemands
<1>3. CASE rows # <<>>
  BY <1>1, <1>3 DEF NativeDemands, native
<1>4. CASE rows = <<>>
  BY <1>1, <1>2, <1>4, SingleIs DEF NativeDemands, native
<1>5. QED
  BY <1>3, <1>4

LEMMA ImportedDemandIs ==
  ASSUME NEW n, NEW row, IsDemandRow(row)
  PROVE  LET d == ImportDemand(n, row)
         IN  /\ d.base = row.base /\ d.category = row.category
             /\ d.pattern = IF row.pattern # NoRef THEN row.pattern ELSE IF n.default # NoRef THEN n.default ELSE Constant
BY DEF IsDemandRow, ImportDemand

(* The pattern that is said means the one the toolkit applies.             *)
LEMMA PatternIsMeant ==
  ASSUME NEW f, Constant \notin f.patterns, NEW n, n.default = ReopenedDefault(f), NEW row, IsDemandRow(row),
         NEW m, m.default = n.default
  PROVE  RebuiltPattern(m, ImportDemand(n, row)) = ReopenedPattern(f, row)
<1> DEFINE d == ImportDemand(n, row)
<1>1. d.pattern = IF row.pattern # NoRef THEN row.pattern ELSE IF n.default # NoRef THEN n.default ELSE Constant
  BY ImportedDemandIs
<1>2. row.pattern # Constant
  BY DEF IsDemandRow
<1>3. n.default # Constant
  BY IdsAssumption DEF ReopenedDefault
<1> HIDE DEF d
<1>4. CASE row.pattern # NoRef
  BY <1>1, <1>2, <1>4 DEF RebuiltPattern, ReopenedPattern, d
<1>5. CASE row.pattern = NoRef /\ n.default # NoRef
  BY <1>1, <1>3, <1>5 DEF RebuiltPattern, ReopenedPattern, d
<1>6. CASE row.pattern = NoRef /\ n.default = NoRef
  <2>1. d.pattern = Constant
    BY <1>1, <1>6
  <2>2. InternalConstantDemandPatternId(m) = NoRef
    BY <1>6 DEF InternalConstantDemandPatternId
  <2>3. QED
    BY <1>6, <2>1, <2>2 DEF RebuiltPattern, ReopenedPattern, d
<1>7. QED
  BY <1>4, <1>5, <1>6

LEMMA NodesAreImported ==
  ASSUME IsFile(file), NEW n, DOMAIN n = NetworkFields, n.default = ReopenedDefault(file),
         NEW m, m = ImportNodes(file, n).network
  PROVE  m.nodes = file.nodes /\ DemandsMean(m)
<1> DEFINE demands == [j \in DOMAIN file.demands |-> ImportJunction(file, n, j)]
<1>1. m = [n EXCEPT !.nodes = file.nodes, !.demands = demands]
  BY OutcomesAre DEF ImportNodes
<1> HIDE DEF demands
<1>2. m.nodes = file.nodes /\ m.demands = demands /\ m.default = n.default
  BY <1>1 DEF NetworkFields
<1>3. ASSUME NEW j \in DOMAIN file.demands, j \notin ExplicitDemands(file)
      PROVE  m.demands[j] = <<>>
  <2>1. file.fields[j] = NoRef /\ file.demands[j] = <<>>
    BY <1>3 DEF ExplicitDemands
  <2>2. NativeDemands(file, j) = <<NoDemand>>
    BY <2>1 DEF NativeDemands
  <2>3. Len(NativeDemands(file, j)) = 1
    BY <2>2, SingleIs
  <2>4. ImportJunction(file, n, j) = <<>>
    BY <1>3, <2>3 DEF ImportJunction
  <2>5. QED
    BY <1>2, <2>4 DEF demands
<1>4. ASSUME NEW j \in DOMAIN file.demands, j \in ExplicitDemands(file)
      PROVE  LET native == NativeDemands(file, j)
             IN  /\ Len(m.demands[j]) = Len(native)
                 /\ \A k \in DOMAIN native :
                       /\ m.demands[j][k].base = native[k].base /\ m.demands[j][k].category = native[k].category
                       /\ RebuiltPattern(m, m.demands[j][k]) = ReopenedPattern(file, native[k])
  <2> DEFINE native == NativeDemands(file, j)
             t == m.demands[j]
  <2>1. IsList(native) /\ \A row \in Items(native) : IsDemandRow(row)
    BY <1>4, NativeDemandsAre
  <2>2. t = [k \in DOMAIN native |-> ImportDemand(n, native[k])]
    BY <1>2, <1>4 DEF demands, ImportJunction
  <2> HIDE DEF t, native
  <2>3. Len(t) = Len(native)
    BY <2>1, <2>2, MadeOf
  <2>4. ASSUME NEW k \in DOMAIN native
        PROVE  /\ t[k].base = native[k].base /\ t[k].category = native[k].category
               /\ RebuiltPattern(m, t[k]) = ReopenedPattern(file, native[k])
    <3>1. t[k] = ImportDemand(n, native[k])
      BY <2>2
    <3>2. IsDemandRow(native[k])
      BY <2>1 DEF Items
    <3>3. Constant \notin file.patterns
      BY DEF IsFile
    <3>4. t[k].base = native[k].base /\ t[k].category = native[k].category
      BY <3>1, <3>2, ImportedDemandIs
    <3>5. RebuiltPattern(m, t[k]) = ReopenedPattern(file, native[k])
      BY <1>2, <3>1, <3>2, <3>3, PatternIsMeant
    <3>6. QED
      BY <3>4, <3>5
  <2>5. QED
    BY <2>3, <2>4 DEF t, native
<1>5. QED
  BY <1>2, <1>3, <1>4 DEF DemandsMean

-----------------------------------------------------------------------------
(* Reactions: what is a pipe's own, and what it has from all. *)

LEMMA BulkReactionIsMeant ==
  ASSUME NEW f, NEW word, NEW id, NEW ids, id \in ids, NEW global,
         word # "WALL", global = LastSaid(f, Said(f, "GLOBAL BULK"), 0)
  PROVE  RebuiltReaction(ImportReaction(f, word, ids)[id], global, 0) = NativeCoefficient(f, word, id)
<1> DEFINE x == ImportReaction(f, word, ids)[id]
           own == {k \in Said(f, word) : id \in f.reactions[k].ids}
           c == NativeCoefficient(f, word, id)
<1>1. x = [coefficient |-> c, override |-> id \in Mentioned(f, word)]
  BY DEF ImportReaction
<1>2. c = IF own # {} THEN <<"value", f.reactions[LastAt(own)].value>> ELSE <<"value", global>>
  BY DEF NativeCoefficient
<1>3. id \in Mentioned(f, word) <=> own # {}
  BY DEF Mentioned
<1> HIDE DEF x, c, own
<1>4. x.coefficient = c /\ (x.override <=> own # {})
  BY <1>1, <1>3
<1>5. QED
  BY <1>2, <1>4 DEF RebuiltReaction, x, c

LEMMA WallReactionIsMeant ==
  ASSUME NEW f, NEW word, NEW id, NEW ids, id \in ids, NEW global, NEW roughness,
         word = "WALL", global = LastSaid(f, Said(f, "GLOBAL WALL"), 0), roughness = LastSaid(f, Said(f, "ROUGHNESS"), 0)
  PROVE  RebuiltReaction(ImportReaction(f, word, ids)[id], global, roughness) = NativeCoefficient(f, word, id)
<1> DEFINE x == ImportReaction(f, word, ids)[id]
           own == {k \in Said(f, word) : id \in f.reactions[k].ids}
           c == NativeCoefficient(f, word, id)
<1>1. x = [coefficient |-> c, override |-> id \in Mentioned(f, word)]
  BY DEF ImportReaction
<1>2. c = IF own # {} THEN <<"value", f.reactions[LastAt(own)].value>>
          ELSE IF roughness # 0 THEN <<"correlated", roughness>> ELSE <<"value", global>>
  BY DEF NativeCoefficient
<1>3. id \in Mentioned(f, word) <=> own # {}
  BY DEF Mentioned
<1> HIDE DEF x, c, own
<1>4. x.coefficient = c /\ (x.override <=> own # {})
  BY <1>1, <1>3
<1>5. CASE own # {}
  BY <1>2, <1>4, <1>5 DEF RebuiltReaction, x, c
<1>6. CASE own = {}
  BY <1>2, <1>4, <1>6 DEF RebuiltReaction, x, c
<1>7. QED
  BY <1>5, <1>6

LEMMA QualityIsImported ==
  ASSUME NEW n, DOMAIN n = NetworkFields, NEW m, m = ImportQuality(file, n).network
  PROVE  ReactionsMean(m)
<1> SUFFICES ASSUME file.quality.analysis = "Chemical"
             PROVE  /\ \A p \in DOMAIN m.reactions.pipeBulk :
                          /\ RebuiltReaction(m.reactions.pipeBulk[p], m.reactions.bulk, 0) = NativeCoefficient(file, "BULK", p)
                          /\ RebuiltReaction(m.reactions.pipeWall[p], m.reactions.wall, m.reactions.roughness)
                                = NativeCoefficient(file, "WALL", p)
                    /\ \A t \in DOMAIN m.reactions.tanks :
                          RebuiltReaction(m.reactions.tanks[t], m.reactions.bulk, 0) = NativeCoefficient(file, "TANK", t)
  BY DEF ReactionsMean
<1> DEFINE r == ImportQualityReactions(file)
           ids == {link.id : link \in {l \in Items(file.links) : l.kind = "PIPE"}}
<1>1. m.reactions = r
  <2> DEFINE a == <<[analysis |-> file.quality.analysis, trace |-> TraceNode(file.quality)]>>
             b == IF HasInitialNodeQuality(file.quality.analysis) THEN file.quality.initial ELSE {}
             good == (file.quality.analysis = "Chemical" => file.quality.units) /\ TraceNode(file.quality) \in {NoRef} \union n.nodes
  <2>1. ImportQuality(file, n)
           = FineIf(good, [n EXCEPT !.children = a, !.mixing = file.tanks, !.initial = b,
                                    !.sources = file.quality.sources, !.reactions = r])
    BY DEF ImportQuality
  <2> HIDE DEF a, b, r, good
  <2>2. m = [n EXCEPT !.children = a, !.mixing = file.tanks, !.initial = b, !.sources = file.quality.sources, !.reactions = r]
    BY <2>1, OutcomesAre
  <2>3. QED
    BY <2>2 DEF NetworkFields
<1>2. /\ r.bulk = LastSaid(file, Said(file, "GLOBAL BULK"), 0) /\ r.wall = LastSaid(file, Said(file, "GLOBAL WALL"), 0)
      /\ r.roughness = LastSaid(file, Said(file, "ROUGHNESS"), 0)
      /\ r.pipeBulk = ImportReaction(file, "BULK", ids) /\ r.pipeWall = ImportReaction(file, "WALL", ids)
      /\ r.tanks = ImportReaction(file, "TANK", file.tanks)
  BY DEF ImportQualityReactions
<1> HIDE DEF r, ids
<1>3. \A word, s : DOMAIN ImportReaction(file, word, s) = s
  BY DEF ImportReaction
<1> DEFINE bulk == r.bulk
           wall == r.wall
           rough == r.roughness
<1>4. /\ bulk = LastSaid(file, Said(file, "GLOBAL BULK"), 0) /\ wall = LastSaid(file, Said(file, "GLOBAL WALL"), 0)
      /\ rough = LastSaid(file, Said(file, "ROUGHNESS"), 0)
  BY <1>2
<1> HIDE DEF bulk, wall, rough
<1>5. ASSUME NEW word \in {"BULK", "TANK"}, NEW s, NEW id \in s
      PROVE  RebuiltReaction(ImportReaction(file, word, s)[id], bulk, 0) = NativeCoefficient(file, word, id)
  BY <1>4, BulkReactionIsMeant
<1>6. ASSUME NEW s, NEW id \in s
      PROVE  RebuiltReaction(ImportReaction(file, "WALL", s)[id], wall, rough) = NativeCoefficient(file, "WALL", id)
  BY <1>4, WallReactionIsMeant
<1>7. ASSUME NEW p \in DOMAIN m.reactions.pipeBulk
      PROVE  /\ RebuiltReaction(m.reactions.pipeBulk[p], m.reactions.bulk, 0) = NativeCoefficient(file, "BULK", p)
             /\ RebuiltReaction(m.reactions.pipeWall[p], m.reactions.wall, m.reactions.roughness)
                   = NativeCoefficient(file, "WALL", p)
  <2>1. p \in ids
    BY <1>1, <1>2, <1>3
  <2>2. RebuiltReaction(r.pipeBulk[p], bulk, 0) = NativeCoefficient(file, "BULK", p)
    BY <1>2, <1>5, <2>1
  <2>3. RebuiltReaction(r.pipeWall[p], wall, rough) = NativeCoefficient(file, "WALL", p)
    BY <1>2, <1>6, <2>1
  <2>4. QED
    BY <1>1, <2>2, <2>3 DEF bulk, wall, rough
<1>8. ASSUME NEW t \in DOMAIN m.reactions.tanks
      PROVE  RebuiltReaction(m.reactions.tanks[t], m.reactions.bulk, 0) = NativeCoefficient(file, "TANK", t)
  <2>1. t \in file.tanks
    <3>1. m.reactions.tanks = r.tanks /\ r.tanks = ImportReaction(file, "TANK", file.tanks)
      BY <1>1, <1>2
    <3>2. DOMAIN ImportReaction(file, "TANK", file.tanks) = file.tanks
      BY <1>3
    <3>3. QED
      BY <3>1, <3>2
  <2>2. RebuiltReaction(r.tanks[t], bulk, 0) = NativeCoefficient(file, "TANK", t)
    BY <1>2, <1>5, <2>1
  <2>3. QED
    BY <1>1, <2>2 DEF bulk
<1>9. QED
  BY <1>7, <1>8

-----------------------------------------------------------------------------
(* Pumps: what [STATUS] makes of one, and its speed at first. *)

LEMMA LastAtIs ==
  ASSUME NEW S, S \subseteq Nat, NEW x \in S, \A i \in S : i <= x
  PROVE  LastAt(S) = x
<1> DEFINE y == LastAt(S)
<1>1. \E k \in S : \A i \in S : i <= k
  OBVIOUS
<1>2. y \in S /\ \A i \in S : i <= y
  BY <1>1, Zenon DEF LastAt
<1> HIDE DEF y
<1>3. x \in Nat /\ y \in Nat /\ x <= y /\ y <= x
  BY <1>2
<1>4. y = x
  BY <1>3
<1>5. QED
  BY <1>4 DEF y

(* The speed that a pump has from its last number.                         *)
LEMMA PumpSpeedIs ==
  ASSUME NEW source, IsList(source.status), NEW link
  PROVE  NativePump(source, link) = [speed |-> PumpSpeed(source, link), open |-> NativePump(source, link).open]
<1> DEFINE s == source.status
           f == NativePumpRun(link, s)
           m == Len(s)
           Is(k) == s[k].id = link.id /\ s[k].word = "SPEED"
           N(k) == {i \in 1 .. k : Is(i)}
           At(k) == IF N(k) = {} THEN SpeedInPumps(link) ELSE s[LastAt(N(k))].speed
           T == {k \in Nat : k <= m => f[k] = [speed |-> At(k), open |-> f[k].open]}
<1>1. m \in Nat /\ DOMAIN s = 1 .. m
  BY ListIs
<1>2. IsNativePump(f, link, s, m) /\ NativePump(source, link) = f[m]
  BY <1>1, NativePumpIsRun
<1>3. PumpSpeed(source, link) = At(m)
  BY <1>1 DEF PumpSpeed
<1> HIDE DEF f, m, s, T, At, N, Is
<1>4. f[0] = [speed |-> SpeedInPumps(link), open |-> TRUE] /\ \A k \in 0 .. m - 1 : f[k + 1] = SetPump(f[k], link, s[k + 1])
  <2> DEFINE first == [speed |-> SpeedInPumps(link), open |-> TRUE]
  <2>1. f = [k \in 0 .. m |-> IF k = 0 THEN first ELSE SetPump(f[k - 1], link, s[k])]
    BY <1>2 DEF IsNativePump
  <2> HIDE DEF first
  <2>2. f[0] = first /\ \A k \in 0 .. m - 1 : k + 1 \in 0 .. m /\ k + 1 # 0 /\ (k + 1) - 1 = k
    BY <1>1, <2>1
  <2>3. ASSUME NEW k \in 0 .. m - 1
        PROVE  f[k + 1] = SetPump(f[k], link, s[k + 1])
    BY <2>1, <2>2
  <2>4. QED
    BY <2>2, <2>3 DEF first
<1>5. 0 \in T
  BY <1>4 DEF N, T, At
<1>6. \A k \in Nat : k \in T => k + 1 \in T
  <2> SUFFICES ASSUME NEW k \in Nat, k \in T, k + 1 <= m
               PROVE  f[k + 1] = [speed |-> At(k + 1), open |-> f[k + 1].open]
    BY DEF T
  <2>1. k \in 0 .. m - 1 /\ f[k] = [speed |-> At(k), open |-> f[k].open]
    BY <1>1 DEF T
  <2>2. f[k + 1] = SetPump(f[k], link, s[k + 1])
    BY <1>4, <2>1
  <2>3. CASE Is(k + 1)
    <3>1. N(k + 1) \subseteq Nat /\ k + 1 \in N(k + 1) /\ \A i \in N(k + 1) : i <= k + 1
      BY <2>3 DEF N
    <3>2. LastAt(N(k + 1)) = k + 1
      BY <3>1, LastAtIs
    <3>3. At(k + 1) = s[k + 1].speed
      BY <3>1, <3>2 DEF At
    <3>4. f[k + 1] = [speed |-> s[k + 1].speed, open |-> s[k + 1].speed > 0]
      BY <2>2, <2>3 DEF SetPump, Is
    <3>5. QED
      BY <3>3, <3>4
  <2>4. CASE ~Is(k + 1)
    <3>1. N(k + 1) = N(k)
      BY <2>4 DEF N
    <3>2. At(k + 1) = At(k)
      BY <3>1 DEF At
    <3>3. CASE s[k + 1].id = link.id /\ s[k + 1].word = "CLOSED"
      <4>1. f[k + 1] = [f[k] EXCEPT !.open = FALSE]
        BY <2>2, <3>3 DEF SetPump
      <4> DEFINE a == At(k)
                 o == f[k].open
                 q == f[k]
                 c == FALSE
      <4>2. q = [speed |-> a, open |-> o]
        BY <2>1
      <4> HIDE DEF a, o, q, c
      <4>3. [q EXCEPT !.open = c] = [speed |-> a, open |-> c]
        BY <4>2
      <4>4. QED
        BY <3>2, <4>1, <4>3 DEF a, q, c
    <3>4. CASE ~(s[k + 1].id = link.id /\ s[k + 1].word = "CLOSED")
      <4>1. f[k + 1] = f[k]
        BY <2>2, <2>4, <3>4 DEF SetPump, Is
      <4>2. QED
        BY <2>1, <3>2, <4>1
    <3>5. QED
      BY <3>3, <3>4
  <2>5. QED
    BY <2>3, <2>4
<1>7. m \in T
  BY <1>1, <1>5, <1>6, SetInduction
<1>8. QED
  BY <1>1, <1>2, <1>3, <1>7 DEF T

(* A price that is imported is paid as before.                             *)
LEMMA PriceIsPaid ==
  ASSUME NEW n, n.price \in Nat, NEW link, link.cost \in Int
  PROVE  EffectivePrice(ImportPrice(n, link).cost, ImportPrice(n, link).pattern, n.price)
            = EffectivePrice(link.cost, link.pricePattern, n.price)
<1> DEFINE base == IF link.cost > 0 THEN link.cost ELSE n.price
           p == ImportPrice(n, link)
<1>1. base \in Nat /\ (link.cost > 0 \/ base = n.price)
  OBVIOUS
<1>2. CASE link.pricePattern # NoRef /\ base > 0
  BY <1>1, <1>2 DEF ImportPrice, EffectivePrice
<1>3. CASE link.pricePattern # NoRef /\ ~(base > 0)
  BY <1>1, <1>3 DEF ImportPrice, EffectivePrice
<1>4. CASE link.pricePattern = NoRef /\ link.cost > 0
  BY <1>4 DEF ImportPrice, EffectivePrice
<1>5. CASE link.pricePattern = NoRef /\ ~(link.cost > 0)
  BY <1>5 DEF ImportPrice, EffectivePrice
<1>6. QED
  BY <1>2, <1>3, <1>4, <1>5

LEMMA PumpsAreImported ==
  ASSUME IsFile(file), NEW n, DOMAIN n = NetworkFields, n.price = file.price,
         ImportLinks(file, n).verdict # "failed", NEW m, m = ImportLinks(file, n).network
  PROVE  PumpsMean(m)
<1> DEFINE pumps == PumpLinks(file)
           t == [k \in DOMAIN pumps |-> ImportPump(file, n, pumps[k])]
           ids == {link.id : link \in Items(file.links)}
           lossy == \E pump \in Items(pumps) : PatternOmitted(n, pump)
           S == {k \in DOMAIN file.links : file.links[k].kind = "PUMP"}
<1>1. /\ IsList(file.links) /\ (\A link \in Items(file.links) : link.kind = "PUMP" => link.cost \in Int)
      /\ IsList(file.status) /\ file.price \in Nat
  BY DEF IsFile
<1>2. IsList(pumps) /\ Items(pumps) = {file.links[k] : k \in S \intersect (1 .. Len(file.links))}
  BY <1>1, ThoseAre DEF PumpLinks
<1>3. \A link \in Items(pumps) : link.cost \in Int
  BY <1>1, <1>2, ListIs
<1>4. ~(\E link \in Items(file.links) : ~Resolves(n, link))
  BY OutcomesAre DEF ImportLinks
<1>5. ImportLinks(file, n) = LossyIf(lossy, [n EXCEPT !.links = ids, !.pumps = t])
  BY <1>4 DEF ImportLinks
<1> HIDE DEF pumps, t, ids, lossy
<1>6. m = [n EXCEPT !.links = ids, !.pumps = t]
  BY <1>5, OutcomesAre
<1>7. m.pumps = t /\ m.price = n.price
  BY <1>6 DEF NetworkFields
<1>8. t = [k \in DOMAIN pumps |-> t[k]]
  BY DEF t
<1>9. Len(t) = Len(pumps)
  BY <1>2, <1>8, MadeOf
<1>10. ASSUME NEW k \in DOMAIN pumps
       PROVE  /\ [speed |-> t[k].speed, open |-> t[k].open] = NativePump(file, pumps[k])
              /\ EffectivePrice(t[k].price.cost, t[k].price.pattern, n.price)
                    = EffectivePrice(pumps[k].cost, pumps[k].pricePattern, file.price)
  BY <1>1, <1>3, PumpSpeedIs, PriceIsPaid DEF Items, t, ImportPump
<1>11. QED
  BY <1>7, <1>9, <1>10 DEF PumpsMean, pumps

-----------------------------------------------------------------------------
(* The map and the rules. *)

LEMMA PlacesAreImported ==
  ASSUME IsFile(file), NEW n, DOMAIN n = NetworkFields, n.nodes = file.nodes,
         NEW m, m = ImportGeometry(file, n).network
  PROVE  /\ DOMAIN m.places = file.nodes
         /\ ImportGeometry(file, n).verdict = "fine" =>
               /\ m.labels = file.map.labels
               /\ (file.crs # NoRef \/ file.map.units = "DEGREES") => \A v \in file.placed : m.places[v] # "NullIsland"
<1> DEFINE places == [v \in n.nodes |-> IF v \in file.placed THEN TransformMode(file) ELSE "generated"]
           labels == [k \in DOMAIN file.map.labels |-> IF file.map.labels[k] \in n.nodes THEN file.map.labels[k] ELSE NoRef]
           lossy == TransformWarns(file) \/ ~(Items(file.map.labels) \subseteq {NoRef} \union n.nodes)
<1>1. ImportGeometry(file, n)
        = LossyIf(lossy, [n EXCEPT !.places = places, !.labels = labels, !.backdrop = file.map.backdrop])
  BY DEF ImportGeometry
<1> HIDE DEF places, labels, lossy
<1>2. m = [n EXCEPT !.places = places, !.labels = labels, !.backdrop = file.map.backdrop]
  BY <1>1, OutcomesAre
<1>3. m.places = places /\ m.labels = labels
  BY <1>2 DEF NetworkFields
<1>4. DOMAIN places = file.nodes
  BY DEF places
<1>5. ASSUME ImportGeometry(file, n).verdict = "fine"
      PROVE  /\ labels = file.map.labels
             /\ (file.crs # NoRef \/ file.map.units = "DEGREES") => \A v \in file.placed : places[v] # "NullIsland"
  <2>1. ~lossy
    BY <1>1, <1>5, OutcomesAre
  <2>2. ~TransformWarns(file) /\ Items(file.map.labels) \subseteq {NoRef} \union file.nodes
    BY <2>1 DEF lossy
  <2>3. labels = file.map.labels
    BY <2>2, ListIs DEF IsFile, labels
  <2>4. ASSUME file.crs # NoRef \/ file.map.units = "DEGREES", NEW v \in file.placed
        PROVE  places[v] # "NullIsland"
    <3>1. v \in n.nodes /\ file.crs \in {NoRef, "supported", "unsupported"}
      BY DEF IsFile
    <3>2. places[v] = TransformMode(file)
      BY <3>1 DEF places
    <3>3. /\ file.crs # "unsupported" /\ ~(file.crs = "supported" /\ file.map.units \notin {NoRef, "METERS"})
          /\ file.inRange \/ (file.crs # "supported" /\ file.map.units # "DEGREES")
      BY <2>2 DEF TransformWarns
    <3>4. CASE file.crs = "supported"
      BY <3>2, <3>3, <3>4, IdsAssumption DEF TransformMode
    <3>5. CASE file.crs = NoRef
      <4>1. TransformMode(file) = "DirectDegrees"
        BY <2>4, <3>3, <3>5, IdsAssumption DEF TransformMode
      <4>2. QED
        BY <3>2, <4>1
    <3>6. QED
      BY <3>1, <3>3, <3>4, <3>5
  <2>5. QED
    BY <2>3, <2>4
<1>6. QED
  BY <1>3, <1>4, <1>5

LEMMA RulesAreImported ==
  ASSUME NEW n, DOMAIN n = NetworkFields, ImportRules(file, n).verdict = "fine"
  PROVE  ImportRules(file, n).network.rules = file.rules
<1> DEFINE whole == Those(file.rules, {k \in DOMAIN file.rules : RuleRepresentable(file, file.rules[k])})
           lossy == whole # file.rules
<1>1. ImportRules(file, n) = LossyIf(lossy, [n EXCEPT !.rules = whole])
  BY DEF ImportRules
<1> HIDE DEF whole, lossy
<1>2. ~lossy /\ ImportRules(file, n).network = [n EXCEPT !.rules = whole]
  BY <1>1, OutcomesAre
<1>3. whole = file.rules
  BY <1>2 DEF lossy
<1>4. QED
  BY <1>2, <1>3 DEF NetworkFields

-----------------------------------------------------------------------------
(* What has been imported when a section is reached. *)

PastNodes == {"links", "geometry", "quality", "controls", "rules", "metadata", "report", "done"}
PastOptions == PastNodes \union {"nodes"}
PastLinks == PastNodes \ {"links"}
PastGeometry == PastLinks \ {"geometry"}
PastQuality == PastGeometry \ {"quality"}
PastRules == {"metadata", "report", "done"}

MapMeans(n) ==
    /\ n.labels = file.map.labels
    /\ (file.crs # NoRef \/ file.map.units = "DEGREES") => \A v \in file.placed : n.places[v] # "NullIsland"

MeansSoFar(s, n, complete) ==
    /\ DOMAIN n = NetworkFields
    /\ s \in PastOptions => n.default = ReopenedDefault(file) /\ n.price = file.price
    /\ s \in PastNodes => n.nodes = file.nodes /\ DemandsMean(n)
    /\ s \in PastLinks => PumpsMean(n)
    /\ s \in PastGeometry => DOMAIN n.places = file.nodes /\ (complete => MapMeans(n))
    /\ s \in PastQuality => ReactionsMean(n)
    /\ s \in PastRules => (complete => n.rules = file.rules)
    /\ s = "done" => (complete => ReportMeans(n))

(* One section after the other                                             *)
LEMMA SectionsAre ==
  ASSUME NEW s \in Items(Sections)
  PROVE  s \in {"open", "settings", "patterns", "curves", "options", "nodes", "links", "geometry", "quality", "controls",
                "rules", "metadata", "report"}
BY DEF Items, Sections

LEMMA SectionIs ==
  ASSUME NEW i \in 1 .. 13
  PROVE  NextSection(Sections[i]) = IF i = 13 THEN "done" ELSE Sections[i + 1]
BY DEF Sections, NextSection

LEMMA NextSections ==
  /\ NextSection("open") = "settings" /\ NextSection("settings") = "patterns" /\ NextSection("patterns") = "curves"
  /\ NextSection("curves") = "options" /\ NextSection("options") = "nodes" /\ NextSection("nodes") = "links"
  /\ NextSection("links") = "geometry" /\ NextSection("geometry") = "quality" /\ NextSection("quality") = "controls"
  /\ NextSection("controls") = "rules" /\ NextSection("rules") = "metadata" /\ NextSection("metadata") = "report"
  /\ NextSection("report") = "done"
BY SectionIs DEF Sections

LEMMA SectionsInOrder ==
  ASSUME NEW s \in Items(Sections), NEW t, t = NextSection(s)
  PROVE  /\ t \in Items(Sections) \union {"done"} /\ t \notin {"idle", "open"}
         /\ t \in PastOptions => s = "options" \/ s \in PastOptions
         /\ t \in PastNodes => s = "nodes" \/ s \in PastNodes
         /\ t \in PastLinks => s = "links" \/ s \in PastLinks
         /\ t \in PastGeometry => s = "geometry" \/ s \in PastGeometry
         /\ t \in PastQuality => s = "quality" \/ s \in PastQuality
         /\ t \in PastRules => s = "rules" \/ s \in PastRules
         /\ t = "done" => s = "report"
<1>1. s \in {"open", "settings", "patterns", "curves", "options", "nodes", "links", "geometry", "quality", "controls",
             "rules", "metadata", "report"}
  BY SectionsAre
<1>2. \/ (s = "open" /\ t = "settings") \/ (s = "settings" /\ t = "patterns")
      \/ (s = "patterns" /\ t = "curves") \/ (s = "curves" /\ t = "options")
      \/ (s = "options" /\ t = "nodes") \/ (s = "nodes" /\ t = "links")
      \/ (s = "links" /\ t = "geometry") \/ (s = "geometry" /\ t = "quality")
      \/ (s = "quality" /\ t = "controls") \/ (s = "controls" /\ t = "rules")
      \/ (s = "rules" /\ t = "metadata") \/ (s = "metadata" /\ t = "report")
      \/ (s = "report" /\ t = "done")
  BY <1>1, NextSections
<1>3. \A x \in {"settings", "patterns", "curves", "options", "nodes", "links", "geometry", "quality", "controls",
                "rules", "metadata", "report"} : x \in Items(Sections)
  BY DEF Items, Sections
<1>4. t \in Items(Sections) \union {"done"}
  BY <1>2, <1>3
<1>5. QED
  BY <1>2, <1>4 DEF PastOptions, PastNodes, PastLinks, PastGeometry, PastQuality, PastRules

-----------------------------------------------------------------------------
(* What a section leaves as it is. *)

Changes(n, m, S) == DOMAIN m = NetworkFields /\ \A x \in NetworkFields \ S : m[x] = n[x]

LEMMA NoneChanges ==
  ASSUME NEW n, DOMAIN n = NetworkFields
  PROVE  Changes(n, n, {})
BY DEF Changes

LEMMA MoreChanges ==
  ASSUME NEW n, NEW m, NEW S, NEW T, Changes(n, m, S), S \subseteq T
  PROVE  Changes(n, m, T)
BY DEF Changes

(* The fields that a section says something about                          *)
FieldsOf(s) ==
    CASE s = "options" -> {"default", "price"}
      [] s = "nodes" -> {"nodes", "demands"}
      [] s = "links" -> {"links", "pumps"}
      [] s = "geometry" -> {"places", "labels", "backdrop"}
      [] s = "quality" -> {"children", "mixing", "initial", "sources", "reactions"}
      [] s \notin {"options", "nodes", "links", "geometry", "quality"} -> {s}

LEMMA PlainSections ==
  ASSUME NEW f, NEW n, DOMAIN n = NetworkFields, NEW s \in {"open", "settings", "patterns", "curves", "metadata"}
  PROVE  Changes(n, Imported(s, f, n).network, {s})
<1> DEFINE settings == f.settings
           patterns == f.patterns
           curves == f.curves
           good == \A curve \in curves : curve.points > 0
<1>1. CASE s = "open"
  BY <1>1, OutcomesAre, NoneChanges, MoreChanges DEF Imported
<1> HIDE DEF settings, patterns, curves, good
<1>2. CASE s = "settings"
  BY <1>2, OutcomesAre DEF Imported, settings, Changes
<1>3. CASE s = "patterns"
  BY <1>3, OutcomesAre DEF Imported, patterns, Changes
<1>4. CASE s = "curves"
  <2>1. Imported(s, f, n) = FineIf(good, [n EXCEPT !.curves = curves])
    BY <1>4 DEF Imported, ImportCurves, curves, good
  <2>2. Imported(s, f, n).network = [n EXCEPT !.curves = curves]
    BY <2>1, OutcomesAre
  <2>3. Changes(n, [n EXCEPT !.curves = curves], {"curves"})
    BY DEF Changes
  <2>4. QED
    BY <1>4, <2>2, <2>3
<1>5. CASE s = "metadata"
  BY <1>5, OutcomesAre DEF Imported, settings, Changes
<1>6. QED
  BY <1>1, <1>2, <1>3, <1>4, <1>5

LEMMA ElementSections ==
  ASSUME NEW f, NEW n, DOMAIN n = NetworkFields, NEW s \in {"options", "nodes", "links"}
  PROVE  Changes(n, Imported(s, f, n).network, FieldsOf(s))
<1> DEFINE default == ReopenedDefault(f)
           price == f.price
           nodes == f.nodes
           demands == [j \in DOMAIN f.demands |-> ImportJunction(f, n, j)]
           pumps == PumpLinks(f)
           links == {link.id : link \in Items(f.links)}
           t == [k \in DOMAIN pumps |-> ImportPump(f, n, pumps[k])]
           lossy == \E pump \in Items(pumps) : PatternOmitted(n, pump)
           refused == \E link \in Items(f.links) : ~Resolves(n, link)
<1>1. CASE s = "options"
  <2>1. Imported(s, f, n) = Fine([n EXCEPT !.default = default, !.price = price])
    BY <1>1 DEF Imported, ImportOptions
  <2> HIDE DEF default, price
  <2>2. Imported(s, f, n).network = [n EXCEPT !.default = default, !.price = price]
    BY <2>1, OutcomesAre
  <2>3. Changes(n, [n EXCEPT !.default = default, !.price = price], {"default", "price"})
    BY DEF Changes
  <2>4. QED
    BY <1>1, <2>2, <2>3 DEF FieldsOf
<1>2. CASE s = "nodes"
  <2>1. Imported(s, f, n) = Fine([n EXCEPT !.nodes = nodes, !.demands = demands])
    BY <1>2 DEF Imported, ImportNodes
  <2> HIDE DEF nodes, demands
  <2>2. Imported(s, f, n).network = [n EXCEPT !.nodes = nodes, !.demands = demands]
    BY <2>1, OutcomesAre
  <2>3. Changes(n, [n EXCEPT !.nodes = nodes, !.demands = demands], {"nodes", "demands"})
    BY DEF Changes
  <2>4. QED
    BY <1>2, <2>2, <2>3 DEF FieldsOf
<1>3. CASE s = "links"
  <2> DEFINE m == [n EXCEPT !.links = links, !.pumps = t]
             fine == FALSE
  <2>1. Imported(s, f, n) = IF refused THEN FineIf(fine, n) ELSE LossyIf(lossy, m)
    BY <1>3 DEF Imported, ImportLinks
  <2> HIDE DEF links, t, lossy, refused, m, fine
  <2>2. Imported(s, f, n).network = n \/ Imported(s, f, n).network = m
    BY <2>1, OutcomesAre
  <2>3. Changes(n, [n EXCEPT !.links = links, !.pumps = t], {"links", "pumps"})
    BY DEF Changes
  <2>4. Changes(n, n, {"links", "pumps"})
    BY DEF Changes
  <2>5. QED
    BY <1>3, <2>2, <2>3, <2>4 DEF FieldsOf, m
<1>4. QED
  BY <1>1, <1>2, <1>3

LEMMA MapSection ==
  ASSUME NEW f, NEW n, DOMAIN n = NetworkFields
  PROVE  Changes(n, ImportGeometry(f, n).network, {"places", "labels", "backdrop"})
<1> DEFINE places == [v \in n.nodes |-> IF v \in f.placed THEN TransformMode(f) ELSE "generated"]
           labels == [k \in DOMAIN f.map.labels |-> IF f.map.labels[k] \in n.nodes THEN f.map.labels[k] ELSE NoRef]
           backdrop == f.map.backdrop
           lossy == TransformWarns(f) \/ ~(Items(f.map.labels) \subseteq {NoRef} \union n.nodes)
<1>1. ImportGeometry(f, n) = LossyIf(lossy, [n EXCEPT !.places = places, !.labels = labels, !.backdrop = backdrop])
  BY DEF ImportGeometry
<1> HIDE DEF places, labels, backdrop, lossy
<1>2. ImportGeometry(f, n).network = [n EXCEPT !.places = places, !.labels = labels, !.backdrop = backdrop]
  BY <1>1, OutcomesAre
<1>3. QED
  BY <1>2 DEF Changes

LEMMA QualitySection ==
  ASSUME NEW f, NEW n, DOMAIN n = NetworkFields
  PROVE  Changes(n, ImportQuality(f, n).network, {"children", "mixing", "initial", "sources", "reactions"})
<1> DEFINE a == <<[analysis |-> f.quality.analysis, trace |-> TraceNode(f.quality)]>>
           b == f.tanks
           c == IF HasInitialNodeQuality(f.quality.analysis) THEN f.quality.initial ELSE {}
           d == IF f.quality.analysis = "Chemical" THEN f.quality.sources ELSE {}
           e == IF f.quality.analysis = "Chemical" THEN ImportQualityReactions(f) ELSE NoRef
           good == (f.quality.analysis = "Chemical" => f.quality.units) /\ TraceNode(f.quality) \in {NoRef} \union n.nodes
           S == {"children", "mixing", "initial", "sources", "reactions"}
<1>1. CASE f.quality.analysis = "None"
  BY <1>1, OutcomesAre DEF ImportQuality, Changes
<1>2. CASE f.quality.analysis # "None"
  <2>1. ImportQuality(f, n)
           = FineIf(good, [n EXCEPT !.children = a, !.mixing = b, !.initial = c, !.sources = d, !.reactions = e])
    BY <1>2 DEF ImportQuality
  <2> HIDE DEF a, b, c, d, e, good
  <2>2. ImportQuality(f, n).network = [n EXCEPT !.children = a, !.mixing = b, !.initial = c, !.sources = d, !.reactions = e]
    BY <2>1, OutcomesAre
  <2>3. QED
    BY <2>2 DEF Changes
<1>3. QED
  BY <1>1, <1>2

LEMMA LastSections ==
  ASSUME NEW f, NEW n, DOMAIN n = NetworkFields, NEW s \in {"controls", "rules", "report"}
  PROVE  Changes(n, Imported(s, f, n).network, {s})
<1>1. CASE s = "controls"
  <2> DEFINE controls == [k \in DOMAIN f.controls |-> ImportControl(f.controls[k], f.actions[k])]
             good == \A k \in DOMAIN f.controls : f.actions[k] = "SETTING" => TakesSetting(KindOf(f, f.controls[k].link))
             m == [n EXCEPT !.controls = controls]
             fine == FALSE
  <2>1. Imported(s, f, n) = IF Len(f.actions) # Len(f.controls) THEN FineIf(fine, n) ELSE FineIf(good, m)
    BY <1>1 DEF Imported, ImportControls
  <2> HIDE DEF controls, good, m, fine
  <2>2. Imported(s, f, n).network = n \/ Imported(s, f, n).network = m
    BY <2>1, OutcomesAre
  <2>3. Changes(n, [n EXCEPT !.controls = controls], {"controls"}) /\ Changes(n, n, {"controls"})
    BY DEF Changes
  <2>4. QED
    BY <1>1, <2>2, <2>3 DEF m
<1>2. CASE s = "rules"
  BY <1>2, OutcomesAre DEF Imported, ImportRules, Changes
<1>3. CASE s = "report"
  <2> DEFINE options == [ImportReportRows(f, n) EXCEPT !.status = FlagOf(ReopenedReport(f), "STATUS")[1]]
             report == IF f.quality.analysis = "None" THEN [options EXCEPT !.fields["QUALITY"].enabled = FALSE] ELSE options
             lossy == \E row \in Items(f.report) : LimitLost(f, row) \/ Unresolved(n, row)
  <2>1. Imported(s, f, n) = LossyIf(lossy, [n EXCEPT !.report = report])
    BY <1>3 DEF Imported, ImportReport
  <2> HIDE DEF report, lossy
  <2>2. Imported(s, f, n).network = [n EXCEPT !.report = report]
    BY <2>1, OutcomesAre
  <2>3. Changes(n, [n EXCEPT !.report = report], {"report"})
    BY DEF Changes
  <2>4. QED
    BY <1>3, <2>2, <2>3
<1>4. QED
  BY <1>1, <1>2, <1>3

LEMMA SectionChanges ==
  ASSUME NEW f, NEW n, DOMAIN n = NetworkFields, NEW s \in Items(Sections)
  PROVE  Changes(n, Imported(s, f, n).network, FieldsOf(s))
<1>1. \/ s \in {"open", "settings", "patterns", "curves", "metadata"} \/ s \in {"options", "nodes", "links"}
      \/ s = "geometry" \/ s = "quality" \/ s \in {"controls", "rules", "report"}
  BY SectionsAre
<1>2. CASE s \in {"open", "settings", "patterns", "curves", "metadata"}
  BY <1>2, PlainSections DEF FieldsOf
<1>3. CASE s \in {"options", "nodes", "links"}
  BY <1>3, ElementSections
<1>4. CASE s = "geometry"
  BY <1>4, MapSection DEF FieldsOf, Imported
<1>5. CASE s = "quality"
  BY <1>5, QualitySection DEF FieldsOf, Imported
<1>6. CASE s \in {"controls", "rules", "report"}
  BY <1>6, LastSections DEF FieldsOf
<1>7. QED
  BY <1>1, <1>2, <1>3, <1>4, <1>5, <1>6

(* What has been imported of a file                                        *)
ImportInv ==
    /\ result = [ok |-> result.ok, complete |-> result.complete, network |-> result.network]
    /\ result.ok \in BOOLEAN /\ result.complete \in BOOLEAN
    /\ section \in Items(Sections) \union {"idle", "done"}
    /\ section = "idle" => result = NothingImported
    /\ section # "idle" /\ file.opens => IsFile(file)
    /\ ~result.ok => ~result.complete /\ section = "done"
    /\ result.ok /\ section \notin {"idle", "open"} => file.opens
    /\ result.ok => MeansSoFar(section, result.network, result.complete)

-----------------------------------------------------------------------------
(* A section keeps what holds already, and adds its own. *)

LEMMA DemandsStay ==
  ASSUME NEW n, DemandsMean(n), NEW m, m.demands = n.demands, m.default = n.default, m.patterns = n.patterns
  PROVE  DemandsMean(m)
<1>1. InternalConstantDemandPatternId(m) = InternalConstantDemandPatternId(n)
  BY DEF InternalConstantDemandPatternId, HasConstantDemand
<1>2. \A demand : RebuiltPattern(m, demand) = RebuiltPattern(n, demand)
  BY <1>1 DEF RebuiltPattern
<1>3. QED
  BY <1>2 DEF DemandsMean

LEMMA SectionMeans ==
  ASSUME IsFile(file), NEW s \in Items(Sections), NEW n, NEW complete \in BOOLEAN, MeansSoFar(s, n, complete),
         NEW fine \in BOOLEAN, NEW m, m = Imported(s, file, n).network, Imported(s, file, n).verdict # "failed",
         fine <=> Imported(s, file, n).verdict = "fine", NEW both \in BOOLEAN, both <=> complete /\ fine
  PROVE  MeansSoFar(NextSection(s), m, both)
<1> DEFINE t == NextSection(s)
<1>1. DOMAIN n = NetworkFields
  BY DEF MeansSoFar
<1>2. Changes(n, m, FieldsOf(s))
  BY <1>1, SectionChanges
<1>3. DOMAIN m = NetworkFields
  BY <1>2 DEF Changes
<1>4. \A x \in NetworkFields : x \notin FieldsOf(s) => m[x] = n[x]
  BY <1>2 DEF Changes
<1>5. /\ t \in PastOptions => s = "options" \/ s \in PastOptions
      /\ t \in PastNodes => s = "nodes" \/ s \in PastNodes
      /\ t \in PastLinks => s = "links" \/ s \in PastLinks
      /\ t \in PastGeometry => s = "geometry" \/ s \in PastGeometry
      /\ t \in PastQuality => s = "quality" \/ s \in PastQuality
      /\ t \in PastRules => s = "rules" \/ s \in PastRules
      /\ t = "done" => s = "report"
  BY SectionsInOrder
<1> HIDE DEF t
<1>6. t \in PastOptions => m.default = ReopenedDefault(file) /\ m.price = file.price
  <2>1. CASE s = "options"
    <3> DEFINE default == ReopenedDefault(file)
               price == file.price
    <3>1. Imported(s, file, n) = Fine([n EXCEPT !.default = default, !.price = price])
      BY <2>1 DEF Imported, ImportOptions
    <3> HIDE DEF default, price
    <3>2. m = [n EXCEPT !.default = default, !.price = price]
      BY <3>1, OutcomesAre
    <3>3. m.default = default /\ m.price = price
      BY <1>1, <3>2 DEF NetworkFields
    <3>4. QED
      BY <3>3 DEF default, price
  <2>2. CASE s \in PastOptions
    <3>1. n.default = ReopenedDefault(file) /\ n.price = file.price
      BY <2>2 DEF MeansSoFar
    <3>2. {"default", "price"} \intersect FieldsOf(s) = {}
      BY <2>2 DEF PastOptions, PastNodes, FieldsOf
    <3>3. m.default = n.default /\ m.price = n.price
      BY <1>4, <3>2 DEF NetworkFields
    <3>4. QED
      BY <3>1, <3>3
  <2>3. QED
    BY <1>5, <2>1, <2>2
<1>7. t \in PastNodes => m.nodes = file.nodes /\ DemandsMean(m)
  <2>1. CASE s = "nodes"
    BY <1>1, <2>1, NodesAreImported DEF Imported, MeansSoFar, PastOptions
  <2>2. CASE s \in PastNodes
    <3>1. n.nodes = file.nodes /\ DemandsMean(n)
      BY <2>2 DEF MeansSoFar
    <3>2. {"nodes", "demands", "default", "patterns"} \intersect FieldsOf(s) = {}
      BY <2>2 DEF PastNodes, FieldsOf
    <3>3. m.nodes = n.nodes /\ m.demands = n.demands /\ m.default = n.default /\ m.patterns = n.patterns
      BY <1>4, <3>2 DEF NetworkFields
    <3>4. QED
      BY <3>1, <3>3, DemandsStay
  <2>3. QED
    BY <1>5, <2>1, <2>2
<1>8. t \in PastLinks => PumpsMean(m)
  <2>1. CASE s = "links"
    <3>1. m = ImportLinks(file, n).network /\ ImportLinks(file, n).verdict # "failed"
      BY <2>1 DEF Imported
    <3>2. n.price = file.price
      BY <2>1 DEF MeansSoFar, PastOptions, PastNodes
    <3>3. QED
      BY <1>1, <3>1, <3>2, PumpsAreImported
  <2>2. CASE s \in PastLinks
    <3>1. PumpsMean(n)
      BY <2>2 DEF MeansSoFar
    <3>2. {"pumps", "price"} \intersect FieldsOf(s) = {}
      BY <2>2 DEF PastLinks, PastNodes, FieldsOf
    <3>3. m.pumps = n.pumps /\ m.price = n.price
      BY <1>4, <3>2 DEF NetworkFields
    <3>4. QED
      BY <3>1, <3>3 DEF PumpsMean
  <2>3. QED
    BY <1>5, <2>1, <2>2
<1>9. t \in PastGeometry => DOMAIN m.places = file.nodes /\ (both => MapMeans(m))
  <2>1. CASE s = "geometry"
    <3>1. m = ImportGeometry(file, n).network /\ (fine <=> ImportGeometry(file, n).verdict = "fine")
      BY <2>1 DEF Imported
    <3>2. n.nodes = file.nodes
      BY <2>1 DEF MeansSoFar, PastNodes
    <3>3. QED
      BY <1>1, <3>1, <3>2, PlacesAreImported DEF MapMeans
  <2>2. CASE s \in PastGeometry
    <3>1. DOMAIN n.places = file.nodes /\ (complete => MapMeans(n))
      BY <2>2 DEF MeansSoFar
    <3>2. {"places", "labels"} \intersect FieldsOf(s) = {}
      BY <2>2 DEF PastGeometry, PastLinks, PastNodes, FieldsOf
    <3>3. m.places = n.places /\ m.labels = n.labels
      BY <1>4, <3>2 DEF NetworkFields
    <3>4. QED
      BY <3>1, <3>3 DEF MapMeans
  <2>3. QED
    BY <1>5, <2>1, <2>2
<1>10. t \in PastQuality => ReactionsMean(m)
  <2>1. CASE s = "quality"
    BY <1>1, <2>1, QualityIsImported DEF Imported
  <2>2. CASE s \in PastQuality
    <3>1. ReactionsMean(n)
      BY <2>2 DEF MeansSoFar
    <3>2. "reactions" \notin FieldsOf(s)
      BY <2>2 DEF PastQuality, PastGeometry, PastLinks, PastNodes, FieldsOf
    <3>3. m.reactions = n.reactions
      BY <1>4, <3>2 DEF NetworkFields
    <3>4. QED
      BY <3>1, <3>3 DEF ReactionsMean
  <2>3. QED
    BY <1>5, <2>1, <2>2
<1>11. t \in PastRules => (both => m.rules = file.rules)
  <2>1. CASE s = "rules"
    BY <1>1, <2>1, RulesAreImported DEF Imported
  <2>2. CASE s \in PastRules
    <3>1. complete => n.rules = file.rules
      BY <2>2 DEF MeansSoFar
    <3>2. "rules" \notin FieldsOf(s)
      BY <2>2 DEF PastRules, FieldsOf
    <3>3. m.rules = n.rules
      BY <1>4, <3>2 DEF NetworkFields
    <3>4. QED
      BY <3>1, <3>3
  <2>3. QED
    BY <1>5, <2>1, <2>2
<1>12. t = "done" => (both => ReportMeans(m))
  <2> SUFFICES ASSUME s = "report", fine
               PROVE  ReportMeans(m)
    BY <1>5
  <2> DEFINE p == m.report
             r == ReopenedReport(file)
             unseen == IF file.quality.analysis = "None" THEN {"QUALITY"} ELSE {}
  <2>1. m = ImportReport(file, n).network /\ ImportReport(file, n).verdict = "fine"
    BY DEF Imported
  <2>2. IsList(file.report) /\ \A row \in Items(file.report) : IsCommand(row)
    BY DEF IsFile
  <2>3. /\ SelectionsResolve(p, n.nodes, n.links)
        /\ \A w \in DOMAIN r.flags : FlagOf(Told(p), w) = FlagOf(r, w)
        /\ \A w \in {"NODES", "LINKS"} : Selected(Told(p).chosen[w]) = Selected(r.chosen[w])
        /\ \A w \in Items(ReportFields) \ unseen : Shown(Told(p).fields[w]) = Shown(r.fields[w])
    BY <1>1, <2>1, <2>2, ReportIsImported
  <2>4. FieldsOf(s) = {"report"}
    BY DEF FieldsOf
  <2>5. m.nodes = n.nodes /\ m.links = n.links
    BY <1>4, <2>4 DEF NetworkFields
  <2>6. Told(p) = Reported(NewReport, ReportCommands(p))
    BY DEF Told
  <2> HIDE DEF p, r, unseen
  <2>7. QED
    BY <2>3, <2>5, <2>6 DEF ReportMeans, p, r, unseen
<1>13. QED
  BY <1>3, <1>6, <1>7, <1>8, <1>9, <1>10, <1>11, <1>12 DEF MeansSoFar, t

-----------------------------------------------------------------------------
(* A retrieved text is a file that the toolkit opens. *)

LEMMA PatternsHaveNoConstant ==
  ASSUME NEW n, IsNetwork(n)
  PROVE  InternalConstantDemandPatternId(n) # Constant /\ Constant \notin n.patterns
<1>1. Constant \notin n.patterns
  BY DEF IsNetwork
<1>2. CASE n.default # NoRef /\ HasConstantDemand(n)
  BY <1>1, <1>2, IdsAssumption, FirstNotInIs DEF InternalConstantDemandPatternId, IsList, IsNetwork
<1>3. CASE ~(n.default # NoRef /\ HasConstantDemand(n))
  BY <1>1, <1>3, IdsAssumption DEF InternalConstantDemandPatternId
<1>4. QED
  BY <1>2, <1>3

LEMMA SavedDemandsAre ==
  ASSUME NEW n, IsNetwork(n), NEW t, t.demands = PreserveDemandCategories(n), NEW j \in DOMAIN t.demands
  PROVE  IsList(t.demands[j]) /\ \A row \in Items(t.demands[j]) : IsDemandRow(row)
<1> DEFINE meant == n.demands[j]
           rows == t.demands[j]
           constant == InternalConstantDemandPatternId(n)
           Saved1(d) == [base |-> SixDecimals(d.base), pattern |-> IF d.pattern = Constant THEN constant ELSE d.pattern,
                         category |-> d.category]
<1>1. j \in DOMAIN n.demands
  BY DEF PreserveDemandCategories
<1>2. IsList(meant)
  BY <1>1 DEF IsNetwork
<1>3. rows = [k \in DOMAIN meant |-> Saved1(meant[k])]
  BY <1>1 DEF PreserveDemandCategories
<1>4. constant # Constant
  BY PatternsHaveNoConstant
<1> HIDE DEF meant, rows, constant
<1>5. \A d : IsDemandRow(Saved1(d))
  BY <1>4 DEF IsDemandRow
<1> HIDE DEF Saved1
<1>6. rows = [k \in DOMAIN meant |-> rows[k]]
  BY <1>3
<1>7. IsList(rows) /\ Items(rows) = {rows[k] : k \in 1 .. Len(meant)} /\ DOMAIN meant = 1 .. Len(meant)
  BY <1>2, <1>6, MadeOf, ListIs
<1>8. \A row \in Items(rows) : IsDemandRow(row)
  BY <1>3, <1>5, <1>7
<1>9. QED
  BY <1>7, <1>8 DEF rows

LEMMA TextIsFile ==
  ASSUME NEW n, IsNetwork(n), NEW t, SaysNetwork(t, n), t.report = Rows(n.report), NEW options
  PROVE  IsFile(AsFile(t, n, options)) /\ AsFile(t, n, options).opens
<1> DEFINE f == AsFile(t, n, options)
           links == [k \in DOMAIN n.pipes |-> [id |-> n.pipes[k].id, kind |-> "PIPE"]]
           fields == [j \in DOMAIN t.demands |-> NoRef]
<1>1. /\ f.demands = t.demands /\ f.fields = fields /\ f.patterns = t.patterns /\ f.price = 0 /\ f.links = links
      /\ f.status = <<>> /\ f.map = t.map /\ f.crs = NoRef /\ f.placed = f.nodes /\ f.report = t.report /\ f.opens
  BY DEF AsFile
<1> HIDE DEF f, links, fields
<1>2. \A j \in DOMAIN f.demands : /\ IsList(f.demands[j]) /\ \A row \in Items(f.demands[j]) : IsDemandRow(row)
                                  /\ f.fields[j] = NoRef
  BY <1>1, SavedDemandsAre DEF SaysNetwork, fields
<1>3. Constant \notin f.patterns /\ f.price \in Nat
  BY <1>1, PatternsHaveNoConstant DEF SaysNetwork
<1>4. IsList(f.links) /\ \A link \in Items(f.links) : link.kind # "PUMP"
  BY <1>1, MadeOf, ListIs DEF IsNetwork, links
<1>5. IsList(f.status)
  BY <1>1, EmptyIsList
<1>6. IsList(f.map.labels)
  BY <1>1, MadeOf DEF SaysNetwork, PreserveMapLayoutSections, IsNetwork
<1>7. IsList(f.report) /\ \A row \in Items(f.report) : IsCommand(row)
  BY <1>1, RowsAre DEF IsNetwork, Commands
<1>8. IsFile(f)
  BY <1>1, <1>2, <1>3, <1>4, <1>5, <1>6, <1>7 DEF IsFile
<1>9. QED
  BY <1>1, <1>8 DEF f

-----------------------------------------------------------------------------
(* The steps of an import. *)

LEMMA NewIsNetwork ==
  /\ DOMAIN NewNetwork = NetworkFields
  /\ NothingImported = [ok |-> TRUE, complete |-> TRUE, network |-> NewNetwork]
BY DEF NewNetwork, NetworkFields, NothingImported

LEMMA NothingYet ==
  ASSUME NEW s \in {"idle", "open"}, NEW n, DOMAIN n = NetworkFields, NEW complete
  PROVE  MeansSoFar(s, n, complete)
BY DEF MeansSoFar, PastOptions, PastNodes, PastLinks, PastGeometry, PastQuality, PastRules

LEMMA OpenIsSection == "open" \in Items(Sections) /\ "idle" \notin Items(Sections) /\ "done" \notin Items(Sections)
BY SectionsAre DEF Sections, Items

LEMMA ImportBegins ==
  ASSUME ImportInit
  PROVE  ImportInv
BY NewIsNetwork, NothingYet, FilesAssumption, OpenIsSection DEF ImportInit, ImportInv

LEMMA RetrievedStep ==
  ASSUME ConfigurationInv, ExportInv, ImportInv, ImportRetrieved
  PROVE  ImportInv'
<1>1. /\ section = "idle" /\ text # NoRef /\ file' = AsFile(text, Network, InpOptions) /\ section' = "open"
      /\ result' = result
  BY DEF ImportRetrieved
<1>2. request \in Requests
  BY <1>1 DEF ConfigurationInv, NoRunState, IInv, Shape
<1>3. IsNetwork(Network)
  BY <1>2, NetworkIs
<1>4. SaysNetwork(text, Network) /\ text.report = Rows(Network.report)
  BY <1>1 DEF ExportInv, Texted
<1>5. IsFile(file')
  BY <1>1, <1>3, <1>4, TextIsFile
<1>6. result = [ok |-> TRUE, complete |-> TRUE, network |-> NewNetwork]
  BY <1>1, NewIsNetwork DEF ImportInv
<1>7. /\ result' = [ok |-> result'.ok, complete |-> result'.complete, network |-> result'.network]
      /\ result'.ok \in BOOLEAN /\ result'.complete \in BOOLEAN /\ result'.ok /\ result'.network = NewNetwork
  BY <1>1, <1>6
<1>8. MeansSoFar(section, result.network, result.complete)'
  <2>1. section' \in {"idle", "open"}
    BY <1>1
  <2>2. QED
    BY <1>7, <2>1, NewIsNetwork DEF MeansSoFar, PastOptions, PastNodes, PastLinks, PastGeometry, PastQuality, PastRules
<1>9. QED
  BY <1>1, <1>5, <1>7, <1>8, OpenIsSection DEF ImportInv

LEMMA FinishStep ==
  ASSUME ImportInv, section \in Items(Sections), Finish, file' = file
  PROVE  ImportInv'
BY OpenIsSection DEF Finish, ImportInv

LEMMA SectionStep ==
  ASSUME ImportInv, ImportSection
  PROVE  ImportInv'
<1> DEFINE outcome == Imported(section, file, result.network)
           a == result.ok
           c == result.complete
           n == result.network
           fine == outcome.verdict = "fine"
           both == c /\ fine
           m == outcome.network
<1>1. section \in Items(Sections) /\ file' = file
  BY DEF ImportSection
<1>2. CASE outcome.verdict = "failed"
  BY <1>1, <1>2, FinishStep DEF ImportSection
<1>3. CASE outcome.verdict # "failed"
  <2>1. /\ result' = [result EXCEPT !.network = m, !.complete = c /\ fine]
        /\ section' = NextSection(section)
    BY <1>3 DEF ImportSection
  <2>2. result = [ok |-> a, complete |-> c, network |-> n] /\ a \in BOOLEAN /\ c \in BOOLEAN
    BY DEF ImportInv
  <2>3. both \in BOOLEAN /\ fine \in BOOLEAN /\ (both <=> c /\ fine)
    OBVIOUS
  <2>4. a
    BY <1>1, OpenIsSection DEF ImportInv
  <2>5. MeansSoFar(section, n, c)
    BY <2>4 DEF ImportInv
  <2>6. section # "idle" /\ (file.opens => IsFile(file))
    BY <1>1, OpenIsSection DEF ImportInv
  <2>7. section' \in Items(Sections) \union {"done"} /\ section' \notin {"idle", "open"}
    BY <1>1, <2>1, SectionsInOrder
  <2>8. file.opens /\ MeansSoFar(NextSection(section), m, both)
    <3>1. CASE section = "open"
      <4>1. outcome = FineIf(file.opens, n)
        BY <3>1 DEF Imported
      <4>2. m = n /\ file.opens
        BY <1>3, <4>1, OutcomesAre
      <4>3. NextSection(section) = "settings"
        BY <3>1, NextSections
      <4>4. DOMAIN n = NetworkFields
        BY <2>5 DEF MeansSoFar
      <4> HIDE DEF n, m, both
      <4>5. MeansSoFar("settings", n, both)
        BY <4>4 DEF MeansSoFar, PastOptions, PastNodes, PastLinks, PastGeometry, PastQuality, PastRules
      <4>6. QED
        BY <4>2, <4>3, <4>5
    <3>2. CASE section # "open"
      <4>1. file.opens /\ IsFile(file)
        BY <2>4, <2>6, <3>2 DEF ImportInv
      <4> DEFINE s == section
      <4>2. s \in Items(Sections) /\ MeansSoFar(s, n, c)
        BY <1>1, <2>5
      <4>3. m = Imported(s, file, n).network /\ Imported(s, file, n).verdict # "failed"
            /\ (fine <=> Imported(s, file, n).verdict = "fine")
        BY <1>3
      <4> HIDE DEF s, n, m, c, fine, both, outcome
      <4>4. MeansSoFar(NextSection(s), m, both)
        BY <2>2, <2>3, <4>1, <4>2, <4>3, SectionMeans
      <4>5. QED
        BY <4>1, <4>4 DEF s
    <3>3. QED
      BY <3>1, <3>2
  <2>9. result' = [ok |-> a, complete |-> both, network |-> m]
    BY <2>1, <2>2
  <2> HIDE DEF a, c, n, m, both, fine, outcome
  <2>10. result'.ok = a /\ result'.complete = both /\ result'.network = m
    BY <2>9
  <2>11. result' = [ok |-> result'.ok, complete |-> result'.complete, network |-> result'.network]
    BY <2>9, <2>10
  <2>12. result'.ok /\ result'.ok \in BOOLEAN /\ result'.complete \in BOOLEAN
    BY <2>2, <2>3, <2>4, <2>10
  <2>13. MeansSoFar(section, result.network, result.complete)'
    <3>1. MeansSoFar(section', m, both)
      BY <2>1, <2>8
    <3>2. MeansSoFar(section', result'.network, result'.complete)
      BY <2>10, <3>1
    <3>3. QED
      BY <1>1, <3>2 DEF MeansSoFar, DemandsMean, PumpsMean, MapMeans, ReactionsMean, ReportMeans
  <2>14. file'.opens /\ (section' # "idle" /\ file'.opens => IsFile(file'))
    BY <1>1, <2>6, <2>8
  <2>15. QED
    BY <2>7, <2>11, <2>12, <2>13, <2>14 DEF ImportInv
<1>4. QED
  BY <1>2, <1>3

LEMMA SameImport ==
  ASSUME ImportInv, UNCHANGED importVars
  PROVE  ImportInv'
<1>1. file' = file /\ section' = section /\ result' = result
  BY DEF importVars
<1>2. MeansSoFar(section, result.network, result.complete)' <=> MeansSoFar(section, result.network, result.complete)
  BY <1>1 DEF MeansSoFar, DemandsMean, PumpsMean, MapMeans, ReactionsMean, ReportMeans
<1>3. QED
  BY <1>1, <1>2 DEF ImportInv

LEMMA ImportStep ==
  ASSUME ConfigurationInv, ExportInv, ImportInv, ImportNext \/ UNCHANGED <<vars, importVars>>
  PROVE  ImportInv'
<1>1. CASE UNCHANGED importVars
  BY <1>1, SameImport
<1>2. CASE ImportRetrieved
  BY <1>2, RetrievedStep
<1>3. CASE ImportSection
  BY <1>3, SectionStep
<1>4. CASE ImportFails
  BY <1>4, FinishStep DEF ImportFails
<1>5. QED
  BY <1>1, <1>2, <1>3, <1>4 DEF ImportNext

(* The inductive invariant of an import.                                   *)
LEMMA ImportAlways == ImportSpec => []ImportInv
<1>1. ImportInit => ImportInv
  BY ImportBegins
<1>2. ConfigurationInv /\ ExportInv /\ ImportInv /\ [ImportNext]_<<vars, importVars>> => ImportInv'
  BY ImportStep
<1>3. QED
  BY <1>1, <1>2, ConfigurationAlways, ExportAlways, PTL DEF ImportSpec

(* A request that was imported means what the file means to the toolkit:    *)
(* its demands, pumps and reactions, its places, and, when the result is    *)
(* complete, its map, rules and report; one that failed is never complete.  *)
THEOREM ImportAlwaysMeansTheFile == ImportSpec => []ImportMeansTheFile
<1>1. ImportInv => ImportMeansTheFile
  <2> SUFFICES ASSUME ImportInv, section = "done"
               PROVE  /\ ~result.ok => ~result.complete
                      /\ result.ok =>
                            LET n == result.network
                            IN  /\ DemandsMean(n) /\ PumpsMean(n) /\ ReactionsMean(n)
                                /\ DOMAIN n.places = file.nodes
                                /\ result.complete =>
                                      /\ n.rules = file.rules /\ ReportMeans(n) /\ n.labels = file.map.labels
                                      /\ (file.crs # NoRef \/ file.map.units = "DEGREES") =>
                                            \A v \in file.placed : n.places[v] # "NullIsland"
    BY DEF ImportMeansTheFile
  <2>1. ~result.ok => ~result.complete
    BY DEF ImportInv
  <2>2. ASSUME result.ok
        PROVE  MeansSoFar("done", result.network, result.complete)
    BY <2>2 DEF ImportInv
  <2> DEFINE n == result.network
             c == result.complete
  <2> HIDE DEF n, c
  <2>3. ASSUME MeansSoFar("done", n, c)
        PROVE  /\ DemandsMean(n) /\ PumpsMean(n) /\ ReactionsMean(n) /\ DOMAIN n.places = file.nodes
               /\ c => n.rules = file.rules /\ ReportMeans(n) /\ MapMeans(n)
    BY <2>3 DEF MeansSoFar, PastOptions, PastNodes, PastLinks, PastGeometry, PastQuality, PastRules
  <2>4. QED
    BY <2>1, <2>2, <2>3 DEF MapMeans, n, c
<1>2. QED
  BY <1>1, ImportAlways, PTL
=============================================================================
