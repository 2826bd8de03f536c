---------------------------- MODULE AdmissionProofs ----------------------------
(***************************************************************************)
(* RunsAsLeased, SlotsExact and DrainWaits for any number of connections,  *)
(* streams, credentials and edits of the credential file.                  *)
(***************************************************************************)
EXTENDS Admission, FiniteSetTheorems, TLAPS

States == {"off", "read", "load", "publish", "install", "flag", "clear", "forget", "gate",
           "lease", "budget", "running", "answer"}
Checked == States \ {"off", "read", "answer"}

Identity(k) == [id |-> Holder[k], cred |-> k]
Identities == {Nobody} \cup {Identity(k) : k \in Credentials}

StreamType ==
    [st : States, hello : BOOLEAN, cred : Credentials \cup {Unbound}, from : Nat, stamp : Nat,
     read : SUBSET Credentials, holds : Principals \cup {Unbound}, as : Identities]
ConnType ==
    [st : {"off", "open", "closed"}, timed : BOOLEAN, lease : Principals \cup {Unbound},
     current : Identities, auth : BOOLEAN]
Files == {f \in Seq(SUBSET Credentials) : Len(f) > 0}
Types ==
    /\ file \in Files
    /\ cache \in [stamp : Nat, valid : SUBSET Credentials]
    /\ conn \in [Conns -> ConnType]
    /\ stream \in [Streams -> StreamType]

(* Credential k was in the file f at its n-th contents or later. *)
ValidSince(n, k, f) == \E v \in n .. Len(f) : k \in f[v]

(* What was read after the stamp n was taken. *)
ReadSince(n, set, f) == \E v \in n .. Len(f) : set = f[v]

(* The principal of a connection cn is one that a request may run under whose check
   began at the n-th contents. *)
Fresh(n, cn, f) == cn.current = Nobody \/ ValidSince(n, cn.current.cred, f)

(* The slot of a task's principal. *)
SlotOK(r, cn) ==
    /\ cn.st = "off" => r.st = "off"
    /\ r.st \notin {"budget", "running", "answer"} => r.holds = Unbound
    /\ r.st \in {"budget", "running"} => r.holds # Unbound
    /\ r.holds # Unbound => r.holds = cn.lease

(* A check under way: it looks up the connection's credential, unless a HELLO that
   the check overlaps has meanwhile installed another. *)
LookupOK(r, cn, f) ==
    /\ r.st \in Checked => r.from \in 1 .. Len(f)
    /\ r.st \in {"load", "publish"} => /\ r.cred \in Credentials
                                       /\ r.from <= r.stamp /\ r.stamp <= Len(f)
                                       /\ r.hello \/ cn.current.cred = r.cred \/ Fresh(r.from, cn, f)
    /\ r.st = "publish" => ReadSince(r.stamp, r.read, f)

(* A check that has been passed. *)
PassedOK(r, cn, f) ==
    /\ r.st = "install" => r.cred \in Credentials /\ ValidSince(r.from, r.cred, f)
    /\ r.st \in {"gate", "lease", "budget"} => Fresh(r.from, cn, f)
    /\ r.st = "running" => r.as.id = cn.lease /\ ValidSince(r.from, r.as.cred, f)

StreamOK(r, cn, f) == SlotOK(r, cn) /\ LookupOK(r, cn, f) /\ PassedOK(r, cn, f)

ConnOK(cn) ==
    /\ cn.st = "off" => cn.lease = Unbound
    /\ cn.current # Nobody => cn.current.id = cn.lease

CacheOK(ca, f) == ca.stamp # 0 => ReadSince(ca.stamp, ca.valid, f)

AInv ==
    /\ Types
    /\ CacheOK(cache, file)
    /\ \A c \in Conns : ConnOK(conn[c])
    /\ \A s \in Streams : StreamOK(stream[s], conn[Of(s)], file)

(* What the invariant says of one task. *)
LEMMA StreamFacts ==
    ASSUME AInv, NEW s \in Streams
    PROVE  /\ stream[s] \in StreamType
           /\ Of(s) \in Conns
           /\ conn[Of(s)] \in ConnType
           /\ ConnOK(conn[Of(s)])
           /\ StreamOK(stream[s], conn[Of(s)], file)
  BY AdmissionAssumption DEF AInv, Types, Of

(* The fields of a task and of a connection. *)
LEMMA StreamFields ==
    ASSUME NEW r \in StreamType
    PROVE  /\ r.st \in States /\ r.hello \in BOOLEAN /\ r.cred \in Credentials \cup {Unbound}
           /\ r.from \in Nat /\ r.stamp \in Nat /\ r.read \in SUBSET Credentials
           /\ r.holds \in Principals \cup {Unbound} /\ r.as \in Identities
  BY DEF StreamType

LEMMA ConnFields ==
    ASSUME NEW cn \in ConnType
    PROVE  /\ cn.st \in {"off", "open", "closed"} /\ cn.timed \in BOOLEAN
           /\ cn.lease \in Principals \cup {Unbound} /\ cn.current \in Identities
           /\ cn.auth \in BOOLEAN
  BY DEF ConnType

(* The credential file has contents, and all of them are sets of credentials. *)
LEMMA FileFacts ==
    ASSUME AInv
    PROVE  /\ file \in Seq(SUBSET Credentials)
           /\ Len(file) \in Nat /\ Len(file) > 0
           /\ \A v \in 1 .. Len(file) : file[v] \in SUBSET Credentials
  BY DEF AInv, Types, Files

(* An identity other than nobody is that of a credential's holder. *)
LEMMA IdentityFacts ==
    ASSUME NEW i \in Identities, i # Nobody
    PROVE  /\ i.cred \in Credentials /\ i.id = Holder[i.cred]
           /\ i.id \in Principals /\ i.id # Unbound
  BY AdmissionAssumption DEF Identities, Identity, Principals

LEMMA NobodyFacts == Nobody \in Identities /\ Nobody.id = Unbound
  BY DEF Identities, Nobody

(* A check that may have begun earlier allows no less. *)
LEMMA Earlier ==
    ASSUME NEW f, NEW n \in Nat, NEW m \in Nat, n <= m, Len(f) \in Nat, NEW k, ValidSince(m, k, f)
    PROVE  ValidSince(n, k, f)
  BY DEF ValidSince

(* A step of one task that leaves the file and the connections alone. *)
LEMMA OneTask ==
    ASSUME AInv, NEW s \in Streams, NEW r \in StreamType,
           stream' = [stream EXCEPT ![s] = r], UNCHANGED <<file, conn, cache>>,
           StreamOK(r, conn[Of(s)], file)
    PROVE  AInv'
  BY DEF AInv, Types, Of

(* A change of a connection that takes no right away from its tasks and gives none. *)
LEMMA SameRights ==
    ASSUME NEW r, NEW cn, NEW cn2, NEW f, StreamOK(r, cn, f),
           cn2.lease = cn.lease, cn2.current = cn.current \/ cn2.current = Nobody,
           cn2.st = "off" => r.st = "off"
    PROVE  StreamOK(r, cn2, f)
  BY DEF StreamOK, SlotOK, LookupOK, PassedOK, Fresh

(* A step of one task that also changes its connection in such a way. *)
LEMMA TaskAndConn ==
    ASSUME AInv, NEW s \in Streams, NEW r \in StreamType, NEW cn \in ConnType,
           stream' = [stream EXCEPT ![s] = r], conn' = [conn EXCEPT ![Of(s)] = cn],
           UNCHANGED <<file, cache>>,
           StreamOK(r, cn, file),
           cn.lease = conn[Of(s)].lease,
           cn.current = conn[Of(s)].current \/ cn.current = Nobody,
           cn.st # "off"
    PROVE  AInv'
<1>1. Of(s) \in Conns /\ ConnOK(conn[Of(s)])
  BY StreamFacts
<1>2. ConnOK(cn)
  BY <1>1 DEF ConnOK
<1>3. Types'
  BY <1>1 DEF AInv, Types
<1>4. \A c \in Conns : ConnOK(conn'[c])
  BY <1>1, <1>2 DEF AInv, Types
<1>5. ASSUME NEW t \in Streams PROVE StreamOK(stream'[t], conn'[Of(t)], file)
  <2>1. StreamOK(stream[t], conn[Of(t)], file) /\ Of(t) \in Conns
    BY StreamFacts
  <2>2. CASE t = s
    BY <2>2, <1>1 DEF AInv, Types
  <2>3. CASE t # s
    <3>1. stream'[t] = stream[t]
      BY <2>3 DEF AInv, Types
    <3>2. CASE Of(t) = Of(s)
      <4>1. conn'[Of(t)] = cn
        BY <3>2, <1>1 DEF AInv, Types
      <4> QED
        BY <2>1, <3>1, <3>2, <4>1, SameRights
    <3>3. CASE Of(t) # Of(s)
      BY <2>1, <3>1, <3>3, <1>1 DEF AInv, Types
    <3> QED
      BY <3>2, <3>3
  <2> QED
    BY <2>2, <2>3
<1>6. CacheOK(cache', file')
  BY DEF AInv
<1> QED
  BY <1>3, <1>4, <1>5, <1>6 DEF AInv

(* A task that gives up, wherever it was. *)
LEMMA Answered ==
    ASSUME AInv, NEW s \in Streams, stream[s].st # "off", Goto(s, "answer")
    PROVE  AInv'
<1> DEFINE r == [stream[s] EXCEPT !.st = "answer"]
<1>1. /\ stream[s] \in StreamType /\ StreamOK(stream[s], conn[Of(s)], file)
      /\ DOMAIN stream = Streams
  BY StreamFacts DEF AInv, Types
<1>2. r \in StreamType
  BY <1>1 DEF StreamType, States
<1>3. r.st = "answer" /\ r.holds = stream[s].holds
  BY <1>1 DEF StreamType
<1>4. StreamOK(r, conn[Of(s)], file)
  <2> HIDE DEF r
  <2> QED
    BY <1>1, <1>3 DEF StreamOK, SlotOK, LookupOK, PassedOK, Checked, States
<1>5. stream' = [stream EXCEPT ![s] = r] /\ UNCHANGED <<file, conn, cache>>
  BY <1>1 DEF Goto
<1> HIDE DEF r
<1> QED
  BY <1>2, <1>4, <1>5, OneTask

(* Where a lookup among valid credentials leads. *)
LEMMA Decided ==
    ASSUME AInv, NEW s \in Streams, NEW r \in StreamType, NEW valid,
           r.st = Decision(r.hello, r.cred, valid),
           r.holds = Unbound, r.cred \in Credentials, r.from \in 1 .. Len(file),
           r.cred \in valid => ValidSince(r.from, r.cred, file),
           r.hello \/ conn[Of(s)].current.cred = r.cred \/ Fresh(r.from, conn[Of(s)], file),
           conn[Of(s)].st # "off"
    PROVE  StreamOK(r, conn[Of(s)], file)
<1>0. r.hello \in BOOLEAN
  BY StreamFields
<1>1. r.st \in {"install", "answer", "gate", "clear"}
  BY DEF Decision
<1>2. r.st = "install" => r.cred \in valid
  BY <1>0 DEF Decision
<1>3. r.st = "gate" => r.cred \in valid /\ ~r.hello
  BY <1>0 DEF Decision
<1>4. r.st = "gate" => Fresh(r.from, conn[Of(s)], file)
  BY <1>3 DEF Fresh
<1> QED
  BY <1>1, <1>2, <1>4 DEF StreamOK, SlotOK, LookupOK, PassedOK, Checked, States

(* load_auth_principals_cached takes the stamp, and the lookup decides at once when the
   cache carries it. *)
LEMMA LookUpKeeps ==
    ASSUME AInv, NEW s \in Streams, NEW hello \in BOOLEAN, NEW cred \in Credentials,
           stream[s].st = "read", LookUp(s, hello, cred),
           hello \/ conn[Of(s)].current.cred = cred
    PROVE  AInv'
<1> DEFINE st == IF cache.stamp = Stamp THEN Decision(hello, cred, cache.valid) ELSE "load"
           r == [stream[s] EXCEPT !.hello = hello, !.cred = cred, !.from = Stamp,
                                  !.stamp = Stamp, !.st = st]
<1>1. /\ stream[s] \in StreamType /\ SlotOK(stream[s], conn[Of(s)])
      /\ conn[Of(s)].st # "off" /\ stream[s].holds = Unbound
  BY StreamFacts DEF StreamOK, SlotOK
<1>2. Stamp = Len(file) /\ Stamp \in Nat /\ Stamp > 0
  BY FileFacts DEF Stamp
<1>3. st \in States
  BY DEF Decision, States
<1>4. r \in StreamType
  BY <1>1, <1>2, <1>3 DEF StreamType
<1>5. /\ r.hello = hello /\ r.cred = cred /\ r.from = Len(file) /\ r.stamp = Len(file)
      /\ r.st = st /\ r.holds = Unbound
  BY <1>1, <1>2 DEF StreamType
<1>6. cache.stamp = Stamp => ReadSince(Stamp, cache.valid, file)
  BY <1>2 DEF AInv, CacheOK
<1>7. cache.stamp = Stamp /\ cred \in cache.valid => ValidSince(Stamp, cred, file)
  BY <1>6 DEF ReadSince, ValidSince
<1>8. UNCHANGED <<file, conn, cache>> /\ stream' = [stream EXCEPT ![s] = r]
  BY DEF LookUp
<1>9. StreamOK(r, conn[Of(s)], file)
  <2>1. CASE cache.stamp = Stamp
    <3>1. st = Decision(hello, cred, cache.valid)
      BY <2>1
    <3> HIDE DEF r, st
    <3> QED
      BY <1>1, <1>2, <1>4, <1>5, <1>7, <2>1, <3>1, Decided
  <2>2. CASE cache.stamp # Stamp
    <3>1. st = "load"
      BY <2>2
    <3> HIDE DEF r, st
    <3> QED
      BY <1>1, <1>2, <1>5, <3>1 DEF StreamOK, SlotOK, LookupOK, PassedOK, Checked, States
  <2> QED
    BY <2>1, <2>2
<1> HIDE DEF r, st
<1> QED
  BY <1>4, <1>8, <1>9, OneTask

(* What was read carries the stamp taken before it was read. *)
LEMMA LoadKeeps ==
    ASSUME AInv, NEW s \in Streams, LoadFile(s)
    PROVE  AInv'
<1> DEFINE r == [stream[s] EXCEPT !.st = "publish", !.read = Valid]
<1>1. /\ stream[s] \in StreamType /\ StreamOK(stream[s], conn[Of(s)], file)
      /\ stream[s].st = "load"
  BY StreamFacts DEF LoadFile
<1>2. Valid = file[Len(file)] /\ Len(file) \in Nat /\ Len(file) > 0 /\ Valid \in SUBSET Credentials
  BY FileFacts DEF Valid, Stamp
<1>3. r \in StreamType
  BY <1>1, <1>2 DEF StreamType, States
<1>4. /\ r.st = "publish" /\ r.read = file[Len(file)] /\ r.hello = stream[s].hello
      /\ r.cred = stream[s].cred /\ r.from = stream[s].from /\ r.stamp = stream[s].stamp
      /\ r.holds = stream[s].holds
  BY <1>1, <1>2 DEF StreamType
<1>5. stream[s].stamp \in Nat /\ stream[s].stamp <= Len(file)
  BY <1>1, StreamFields DEF StreamOK, LookupOK
<1>6. stream' = [stream EXCEPT ![s] = r] /\ UNCHANGED <<file, conn, cache>>
  BY DEF LoadFile
<1> HIDE DEF r
<1>7. ReadSince(r.stamp, r.read, file)
  BY <1>2, <1>4, <1>5 DEF ReadSince
<1>8. StreamOK(r, conn[Of(s)], file)
  BY <1>1, <1>4, <1>7 DEF StreamOK, SlotOK, LookupOK, PassedOK, Checked, States
<1> QED
  BY <1>3, <1>6, <1>8, OneTask

(* The cache is as old as its stamp says, and the check it ends no older. *)
LEMMA PublishKeeps ==
    ASSUME AInv, NEW s \in Streams, PublishCache(s)
    PROVE  AInv'
<1> DEFINE o == stream[s]
           st == Decision(o.hello, o.cred, o.read)
           r == [o EXCEPT !.st = st, !.read = {}]
<1>1. o \in StreamType /\ StreamOK(o, conn[Of(s)], file) /\ o.st = "publish"
  BY StreamFacts DEF PublishCache
<1>2. st \in States
  BY DEF Decision, States
<1>3. r \in StreamType
  BY <1>1, <1>2 DEF StreamType
<1>4. /\ r.st = st /\ r.hello = o.hello /\ r.cred = o.cred /\ r.from = o.from
      /\ r.holds = o.holds
  BY <1>1 DEF StreamType
<1>5. /\ o.cred \in Credentials /\ o.from <= o.stamp /\ o.stamp <= Len(file)
      /\ o.from \in 1 .. Len(file) /\ ReadSince(o.stamp, o.read, file) /\ o.holds = Unbound
      /\ o.hello \/ conn[Of(s)].current.cred = o.cred \/ Fresh(o.from, conn[Of(s)], file)
      /\ conn[Of(s)].st # "off"
  BY <1>1 DEF StreamOK, SlotOK, LookupOK, Checked, States
<1>6. o.from \in Nat /\ o.stamp \in Nat /\ o.read \in SUBSET Credentials /\ Len(file) \in Nat
  BY <1>1, StreamFields, FileFacts
<1>7. cache' = [stamp |-> o.stamp, valid |-> o.read] /\ UNCHANGED <<file, conn>>
  BY DEF PublishCache, StampOf
<1>8. stream' = [stream EXCEPT ![s] = r]
  BY DEF PublishCache
<1>9. StreamOK(r, conn[Of(s)], file)
  <2>1. o.cred \in o.read => ValidSince(o.from, o.cred, file)
    <3> HIDE DEF o
    <3> QED
      BY <1>5, <1>6 DEF ReadSince, ValidSince
  <2> HIDE DEF r, o
  <2> QED
    BY <1>3, <1>4, <1>5, <2>1, Decided
<1>10. cache' \in [stamp : Nat, valid : SUBSET Credentials] /\ CacheOK(cache', file)
  BY <1>5, <1>6, <1>7 DEF CacheOK
<1> HIDE DEF r, st, o
<1> QED
  BY <1>3, <1>7, <1>8, <1>9, <1>10 DEF AInv, Types, Of

(* A check of a connection without a principal ends where a failed one does. *)
LEMMA ReadRequestKeeps ==
    ASSUME AInv, NEW s \in Streams, ReadRequest(s)
    PROVE  AInv'
<1> DEFINE cn == conn[Of(s)]
           r == [stream[s] EXCEPT !.st = "clear", !.from = Stamp]
<1>1. /\ stream[s] \in StreamType /\ stream[s].st = "read" /\ StreamOK(stream[s], cn, file)
      /\ cn \in ConnType
  BY StreamFacts DEF ReadRequest
<1>2. Stamp = Len(file) /\ Stamp \in Nat /\ Stamp > 0
  BY FileFacts DEF Stamp
<1>3. CASE Goto(s, "answer")
  BY <1>1, <1>3, Answered
<1>4. CASE stream' = [stream EXCEPT ![s] = r] /\ UNCHANGED <<file, conn, cache>>
  <2>1. r \in StreamType
    BY <1>1, <1>2 DEF StreamType, States
  <2>2. r.st = "clear" /\ r.from = Len(file) /\ r.holds = stream[s].holds
    BY <1>1, <1>2 DEF StreamType
  <2> HIDE DEF r
  <2>3. StreamOK(r, cn, file)
    BY <1>1, <1>2, <2>2 DEF StreamOK, SlotOK, LookupOK, PassedOK, Checked, States
  <2> QED
    BY <1>4, <2>1, <2>3, OneTask
<1>5. CASE cn.current # Nobody /\ LookUp(s, FALSE, cn.current.cred)
  <2>1. cn.current.cred \in Credentials
    BY <1>1, <1>5, ConnFields, IdentityFacts
  <2> QED
    BY <1>1, <1>5, <2>1, LookUpKeeps
<1> QED
  BY <1>3, <1>4, <1>5 DEF ReadRequest

(* From the gate to the handler, which starts under the connection's principal. *)
LEMMA AdmitKeeps ==
    ASSUME AInv, NEW s \in Streams, Gate(s) \/ LeaseRequest(s) \/ RefuseForBudget(s) \/ Dispatch(s)
    PROVE  AInv'
<1> DEFINE cn == conn[Of(s)]
           o == stream[s]
<1>1. o \in StreamType /\ StreamOK(o, cn, file) /\ cn \in ConnType /\ ConnOK(cn)
  BY StreamFacts
<1>2. CASE Goto(s, "answer") /\ o.st # "off"
  BY <1>2, Answered
<1>3. CASE o.st = "gate" /\ Goto(s, "lease")
  <2> DEFINE r == [o EXCEPT !.st = "lease"]
  <2>1. r \in StreamType
    BY <1>1 DEF StreamType, States
  <2>2. r.st = "lease" /\ r.from = o.from /\ r.holds = o.holds
    BY <1>1 DEF StreamType
  <2>3. stream' = [stream EXCEPT ![s] = r] /\ UNCHANGED <<file, conn, cache>>
    BY <1>3 DEF Goto
  <2> HIDE DEF r
  <2>4. StreamOK(r, cn, file)
    BY <1>1, <1>3, <2>2 DEF StreamOK, SlotOK, LookupOK, PassedOK, Checked, States
  <2> QED
    BY <2>1, <2>3, <2>4, OneTask
<1>4. CASE /\ o.st = "lease" /\ cn.current.id # Unbound
           /\ stream' = [stream EXCEPT ![s].st = "budget", ![s].holds = cn.current.id]
           /\ UNCHANGED <<file, conn, cache>>
  <2> DEFINE r == [o EXCEPT !.st = "budget", !.holds = cn.current.id]
  <2>1. cn.current.id = cn.lease /\ cn.current.id \in Principals
    BY <1>1, <1>4, ConnFields, IdentityFacts, NobodyFacts DEF ConnOK
  <2>2. r \in StreamType
    BY <1>1, <2>1 DEF StreamType, States
  <2>3. r.st = "budget" /\ r.from = o.from /\ r.holds = cn.current.id
    BY <1>1 DEF StreamType
  <2>4. stream' = [stream EXCEPT ![s] = r]
    BY <1>4
  <2> HIDE DEF r
  <2>5. StreamOK(r, cn, file)
    BY <1>1, <1>4, <2>1, <2>3 DEF StreamOK, SlotOK, LookupOK, PassedOK, Checked, States
  <2> QED
    BY <1>4, <2>2, <2>4, <2>5, OneTask
<1>5. CASE /\ o.st = "budget" /\ cn.current # Nobody
           /\ stream' = [stream EXCEPT ![s].st = "running", ![s].as = cn.current]
           /\ UNCHANGED <<file, conn, cache>>
  <2> DEFINE r == [o EXCEPT !.st = "running", !.as = cn.current]
  <2>1. cn.current.id = cn.lease /\ cn.current \in Identities
    BY <1>1, <1>5, ConnFields DEF ConnOK
  <2>2. r \in StreamType
    BY <1>1, <2>1 DEF StreamType, States
  <2>3. r.st = "running" /\ r.from = o.from /\ r.holds = o.holds /\ r.as = cn.current
    BY <1>1 DEF StreamType
  <2>4. stream' = [stream EXCEPT ![s] = r]
    BY <1>5
  <2> HIDE DEF r
  <2>5. StreamOK(r, cn, file)
    BY <1>1, <1>5, <2>1, <2>3 DEF StreamOK, SlotOK, LookupOK, PassedOK, Checked, States, Fresh
  <2> QED
    BY <1>5, <2>2, <2>4, <2>5, OneTask
<1>6. Gate(s) => \/ Goto(s, "answer") /\ o.st # "off"
                 \/ o.st = "gate" /\ Goto(s, "lease")
  BY DEF Gate
<1> QED
  BY <1>2, <1>3, <1>4, <1>5, <1>6 DEF LeaseRequest, RefuseForBudget, Dispatch

(* Steps of a task that raise or lower its connection's flag, or forget the
   principal; a stream's arrival. *)
LEMMA FlagKeeps ==
    ASSUME AInv, NEW s \in Streams,
           RaiseFlag(s) \/ LowerFlag(s) \/ ForgetPrincipal(s) \/ AcceptStream(s)
    PROVE  AInv'
<1> DEFINE cn == conn[Of(s)]
           o == stream[s]
<1>1. /\ o \in StreamType /\ StreamOK(o, cn, file) /\ cn \in ConnType /\ ConnOK(cn)
      /\ Of(s) \in Conns
  BY StreamFacts
<1>2. ASSUME NEW st \in {"answer", "forget", "gate", "read"}, NEW x \in ConnType,
             st # "read" => o.st \in Checked, st = "read" => o.st = "off",
             st = "gate" => x.current = Nobody,
             o.holds = Unbound, x.lease = cn.lease, x.current = cn.current \/ x.current = Nobody,
             x.st # "off",
             stream' = [stream EXCEPT ![s].st = st], conn' = [conn EXCEPT ![Of(s)] = x],
             UNCHANGED <<file, cache>>
      PROVE  AInv'
  <2> DEFINE r == [o EXCEPT !.st = st]
  <2>1. r \in StreamType
    BY <1>1, <1>2 DEF StreamType, States
  <2>2. r.st = st /\ r.from = o.from /\ r.holds = Unbound
    BY <1>1, <1>2 DEF StreamType
  <2>3. stream' = [stream EXCEPT ![s] = r]
    BY <1>2
  <2> HIDE DEF r
  <2>4. StreamOK(r, x, file)
    BY <1>1, <1>2, <2>2 DEF StreamOK, SlotOK, LookupOK, PassedOK, Checked, States, Fresh
  <2> HIDE DEF cn
  <2> QED
    BY <1>2, <2>1, <2>3, <2>4, TaskAndConn DEF cn
<1>3. ASSUME NEW b \in BOOLEAN
      PROVE  /\ [cn EXCEPT !.auth = b] \in ConnType
             /\ [cn EXCEPT !.timed = b] \in ConnType
             /\ \A x \in {[cn EXCEPT !.auth = b], [cn EXCEPT !.timed = b]} :
                   x.lease = cn.lease /\ x.current = cn.current /\ x.st = cn.st
  BY <1>1 DEF ConnType
<1>4. /\ [cn EXCEPT !.current = Nobody] \in ConnType
      /\ [cn EXCEPT !.current = Nobody].lease = cn.lease
      /\ [cn EXCEPT !.current = Nobody].current = Nobody
      /\ [cn EXCEPT !.current = Nobody].st = cn.st
  BY <1>1, NobodyFacts DEF ConnType
<1>5. /\ o.st \notin {"budget", "running", "answer"} => o.holds = Unbound
      /\ o.st # "off" => cn.st # "off"
  BY <1>1 DEF StreamOK, SlotOK
<1>6. CASE RaiseFlag(s)
  <2> DEFINE x == [cn EXCEPT !.auth = TRUE]
  <2>1. /\ conn' = [conn EXCEPT ![Of(s)] = x] /\ stream' = [stream EXCEPT ![s].st = "answer"]
        /\ o.st = "flag" /\ UNCHANGED <<file, cache>>
    BY <1>6 DEF RaiseFlag
  <2>2. x \in ConnType /\ x.lease = cn.lease /\ x.current = cn.current /\ x.st = cn.st
    BY <1>3
  <2> HIDE DEF x, cn, o
  <2> QED
    BY <1>2, <1>5, <2>1, <2>2 DEF Checked, States
<1>7. CASE LowerFlag(s)
  <2> DEFINE x == [cn EXCEPT !.auth = FALSE]
  <2>1. /\ conn' = [conn EXCEPT ![Of(s)] = x] /\ stream' = [stream EXCEPT ![s].st = "forget"]
        /\ o.st = "clear" /\ UNCHANGED <<file, cache>>
    BY <1>7 DEF LowerFlag
  <2>2. x \in ConnType /\ x.lease = cn.lease /\ x.current = cn.current /\ x.st = cn.st
    BY <1>3
  <2> HIDE DEF x, cn, o
  <2> QED
    BY <1>2, <1>5, <2>1, <2>2 DEF Checked, States
<1>8. CASE ForgetPrincipal(s)
  <2> DEFINE x == [cn EXCEPT !.current = Nobody]
  <2>1. /\ conn' = [conn EXCEPT ![Of(s)] = x] /\ stream' = [stream EXCEPT ![s].st = "gate"]
        /\ o.st = "forget" /\ UNCHANGED <<file, cache>>
    BY <1>8 DEF ForgetPrincipal
  <2>2. x \in ConnType /\ x.lease = cn.lease /\ x.current = Nobody /\ x.st = cn.st
    BY <1>4
  <2> HIDE DEF x, cn, o
  <2> QED
    BY <1>2, <1>5, <2>1, <2>2 DEF Checked, States
<1>9. CASE AcceptStream(s)
  <2> DEFINE x == [cn EXCEPT !.timed = ~cn.auth]
  <2>1. /\ conn' = [conn EXCEPT ![Of(s)] = x] /\ o.st = "off" /\ cn.st = "open"
        /\ UNCHANGED <<file, cache>>
        /\ stream' = [stream EXCEPT ![s].st = "read"] \/ UNCHANGED stream
    BY <1>9 DEF AcceptStream, Live
  <2>2. x \in ConnType /\ x.lease = cn.lease /\ x.current = cn.current /\ x.st = cn.st
    BY <1>1, <1>3, ConnFields
  <2>3. CASE stream' = [stream EXCEPT ![s].st = "read"]
    <3> HIDE DEF x, cn, o
    <3> QED
      BY <1>2, <1>5, <2>1, <2>2, <2>3
  <2>4. CASE UNCHANGED stream
    <3>1. stream' = [stream EXCEPT ![s] = o]
      BY <2>4 DEF AInv, Types
    <3> HIDE DEF x
    <3>2. StreamOK(o, x, file)
      BY <1>1, <2>1, <2>2, SameRights
    <3> HIDE DEF o
    <3> QED
      BY <1>1, <2>1, <2>2, <3>1, <3>2, TaskAndConn
  <2> QED
    BY <2>1, <2>3, <2>4
<1> QED
  BY <1>6, <1>7, <1>8, <1>9

(* A step that changes one connection, and of the tasks only those of that
   connection. *)
LEMMA OneConn ==
    ASSUME AInv, NEW c \in Conns, NEW x \in ConnType, ConnOK(x),
           conn' = [conn EXCEPT ![c] = x], UNCHANGED <<file, cache>>,
           stream' \in [Streams -> StreamType],
           \A t \in Streams : IF Of(t) = c THEN StreamOK(stream'[t], x, file)
                              ELSE stream'[t] = stream[t]
    PROVE  AInv'
<1>1. Types' /\ CacheOK(cache', file')
  BY DEF AInv, Types
<1>2. \A d \in Conns : conn'[d] = IF d = c THEN x ELSE conn[d]
  BY DEF AInv, Types
<1>3. \A d \in Conns : ConnOK(conn'[d])
  BY <1>2 DEF AInv
<1>4. ASSUME NEW t \in Streams PROVE StreamOK(stream'[t], conn'[Of(t)], file)
  <2>1. StreamOK(stream[t], conn[Of(t)], file) /\ Of(t) \in Conns
    BY StreamFacts
  <2> QED
    BY <1>2, <2>1
<1> QED
  BY <1>1, <1>3, <1>4 DEF AInv

(* Another HELLO of the connection installs x.current, which it began to check at
   the n-th contents: a check that it overlaps counts from n on. *)
LEMMA Overlapped ==
    ASSUME NEW f, Len(f) \in Nat, NEW n \in 1 .. Len(f), NEW r \in StreamType, NEW r2 \in StreamType,
           NEW cn, NEW x, StreamOK(r, cn, f),
           r2 = IF r.from > n THEN [r EXCEPT !.from = n] ELSE r,
           x.st # "off", x.lease = cn.lease \/ cn.lease = Unbound,
           ValidSince(n, x.current.cred, f)
    PROVE  StreamOK(r2, x, f)
<1>1. /\ r2.st = r.st /\ r2.hello = r.hello /\ r2.cred = r.cred /\ r2.stamp = r.stamp
      /\ r2.read = r.read /\ r2.holds = r.holds /\ r2.as = r.as
      /\ r2.from = IF r.from > n THEN n ELSE r.from
  BY DEF StreamType
<1>2. r.from \in Nat /\ r2.from \in Nat /\ n \in Nat /\ r2.from <= r.from /\ r2.from <= n /\ r.stamp \in Nat
  BY <1>1, StreamFields
<1>3. \A k : ValidSince(r.from, k, f) => ValidSince(r2.from, k, f)
  BY <1>2, Earlier
<1>4. Fresh(r2.from, x, f)
  BY <1>2, Earlier DEF Fresh
<1>5. SlotOK(r2, x)
  BY <1>1 DEF StreamOK, SlotOK
<1>6. LookupOK(r2, x, f)
  <2>1. r2.st \in Checked => r2.from \in 1 .. Len(f)
    BY <1>1, <1>2 DEF StreamOK, LookupOK
  <2>2. r2.st \in {"load", "publish"} => /\ r2.cred \in Credentials
                                         /\ r2.from <= r2.stamp /\ r2.stamp <= Len(f)
    BY <1>1, <1>2 DEF StreamOK, LookupOK
  <2> QED
    BY <1>1, <1>4, <2>1, <2>2 DEF StreamOK, LookupOK
<1>7. PassedOK(r2, x, f)
  <2>1. r.st = "running" => x.lease = cn.lease
    BY DEF StreamOK, SlotOK
  <2> QED
    BY <1>1, <1>3, <1>4, <2>1 DEF StreamOK, PassedOK
<1> QED
  BY <1>5, <1>6, <1>7 DEF StreamOK

(* install_connection_principal, refused or not. *)
LEMMA InstallKeeps ==
    ASSUME AInv, NEW s \in Streams, InstallConnectionPrincipal(s)
    PROVE  AInv'
<1> DEFINE c == Of(s)
           cn == conn[c]
           o == stream[s]
           cred == o.cred
           id == Holder[cred]
<1>1. /\ o \in StreamType /\ StreamOK(o, cn, file) /\ cn \in ConnType /\ ConnOK(cn)
      /\ c \in Conns /\ o.st = "install"
  BY StreamFacts DEF InstallConnectionPrincipal
<1>2. CASE Goto(s, "answer")
  BY <1>1, <1>2, Answered
<1>3. CASE ~Goto(s, "answer")
  <2> DEFINE x == [cn EXCEPT !.lease = id, !.current = Identity(cred)]
  <2>1. cred \in Credentials /\ ValidSince(o.from, cred, file) /\ o.from \in 1 .. Len(file)
    BY <1>1 DEF StreamOK, LookupOK, PassedOK, Checked, States
  <2>2. cn.lease = Unbound \/ cn.lease = id
    BY <1>3 DEF InstallConnectionPrincipal, PrincipalIdentityConflicts
  <2>3. id \in Principals /\ Identity(cred) \in Identities /\ Identity(cred).id = id
        /\ Identity(cred).cred = cred
    BY <2>1 DEF Principals, Identities, Identity
  <2>4. /\ x \in ConnType /\ x.lease = id /\ x.current = Identity(cred) /\ x.st = cn.st
    BY <1>1, <2>3 DEF ConnType
  <2>5. cn.st # "off" /\ o.holds = Unbound
    BY <1>1 DEF StreamOK, SlotOK
  <2>6. ConnOK(x)
    BY <2>3, <2>4, <2>5 DEF ConnOK
  <2>7. conn' = [conn EXCEPT ![c] = x] /\ UNCHANGED <<file, cache>>
    BY <1>1, <1>3, <2>2 DEF InstallConnectionPrincipal, Identity
  <2>8. stream' = [t \in Streams |->
                     IF t = s THEN [o EXCEPT !.st = "flag"]
                     ELSE IF Of(t) = c /\ stream[t].from > o.from
                     THEN [stream[t] EXCEPT !.from = o.from]
                     ELSE stream[t]]
    BY <1>3 DEF InstallConnectionPrincipal
  <2>9. ASSUME NEW t \in Streams
        PROVE  /\ stream'[t] \in StreamType
               /\ IF Of(t) = c THEN StreamOK(stream'[t], x, file) ELSE stream'[t] = stream[t]
    <3>1. stream[t] \in StreamType /\ StreamOK(stream[t], conn[Of(t)], file)
      BY StreamFacts
    <3>2. CASE t = s
      <4> DEFINE r == [o EXCEPT !.st = "flag"]
      <4>1. r \in StreamType /\ r.st = "flag" /\ r.from = o.from /\ r.holds = o.holds
        BY <1>1 DEF StreamType, States
      <4>2. stream'[t] = r
        BY <2>8, <3>2
      <4> HIDE DEF r, x, cn, o
      <4>3. StreamOK(r, x, file)
        BY <2>1, <2>4, <2>5, <4>1 DEF StreamOK, SlotOK, LookupOK, PassedOK, Checked, States
      <4> QED
        BY <3>2, <4>1, <4>2, <4>3
    <3>3. CASE t # s /\ Of(t) = c
      <4>1. stream'[t] = IF stream[t].from > o.from THEN [stream[t] EXCEPT !.from = o.from]
                         ELSE stream[t]
        BY <2>8, <3>3
      <4>2. o.from \in Nat /\ Len(file) \in Nat
        BY <1>1, StreamFields, FileFacts
      <4>3. stream'[t] \in StreamType
        BY <3>1, <4>1, <4>2 DEF StreamType
      <4>4. StreamOK(stream[t], cn, file)
        BY <3>1, <3>3
      <4> HIDE DEF x, cn, o
      <4>5. StreamOK(stream'[t], x, file)
        BY <2>1, <2>2, <2>3, <2>4, <2>5, <3>1, <4>1, <4>2, <4>3, <4>4, Overlapped
      <4> QED
        BY <3>3, <4>3, <4>5
    <3>4. CASE t # s /\ Of(t) # c
      BY <2>8, <3>1, <3>4
    <3> QED
      BY <3>2, <3>3, <3>4
  <2>10. stream' \in [Streams -> StreamType]
    BY <2>8, <2>9
  <2> HIDE DEF x, c
  <2> QED
    BY <1>1, <2>4, <2>6, <2>7, <2>9, <2>10, OneConn
<1> QED
  BY <1>2, <1>3

LEMMA NoConnFacts ==
    /\ NoConn \in ConnType /\ ConnOK(NoConn)
    /\ [NoConn EXCEPT !.st = "open"] \in ConnType /\ ConnOK([NoConn EXCEPT !.st = "open"])
    /\ [NoConn EXCEPT !.st = "open"].lease = Unbound
    /\ [NoConn EXCEPT !.st = "open"].st = "open"
  BY NobodyFacts DEF NoConn, ConnType, ConnOK

LEMMA NoStreamFacts == NoStream \in StreamType /\ NoStream.st = "off" /\ NoStream.holds = Unbound
  BY NobodyFacts DEF NoStream, StreamType, States

(* A task that is not there asks nothing of its connection. *)
LEMMA OffStream ==
    ASSUME NEW r, NEW x, NEW f, r.st = "off", r.holds = Unbound
    PROVE  StreamOK(r, x, f)
  BY DEF StreamOK, SlotOK, LookupOK, PassedOK, Checked, States

(* Connections come and go, with the tasks that outlive their accept loop. *)
LEMMA ConnectionKeeps ==
    ASSUME AInv, NEW c \in Conns, Connect(c) \/ PeerCloses(c) \/ AuthenticationTimeout(c)
    PROVE  AInv'
<1> DEFINE cn == conn[c]
<1>1. /\ cn \in ConnType /\ ConnOK(cn) /\ stream \in [Streams -> StreamType]
  BY DEF AInv, Types
<1>2. \A t \in Streams : Of(t) = c => StreamOK(stream[t], cn, file)
  BY DEF AInv
<1>3. ASSUME NEW x \in ConnType, ConnOK(x),
             conn' = [conn EXCEPT ![c] = x], UNCHANGED <<file, cache, stream>>,
             \A t \in Streams : Of(t) = c => StreamOK(stream[t], x, file)
      PROVE  AInv'
  BY <1>1, <1>3, OneConn
<1>4. ASSUME \A t \in Streams : Of(t) = c => stream[t].st = "off", NEW x
      PROVE  \A t \in Streams : Of(t) = c => StreamOK(stream[t], x, file)
  <2> SUFFICES ASSUME NEW t \in Streams, Of(t) = c PROVE StreamOK(stream[t], x, file)
    OBVIOUS
  <2>1. stream[t].st = "off" /\ stream[t].holds = Unbound
    BY <1>2, <1>4 DEF StreamOK, SlotOK
  <2> QED
    BY <2>1, OffStream
<1>5. CASE Connect(c)
  <2> DEFINE x == [NoConn EXCEPT !.st = "open"]
  <2>1. cn.st = "off" /\ conn' = [conn EXCEPT ![c] = x] /\ UNCHANGED <<file, cache, stream>>
    BY <1>5 DEF Connect
  <2>2. \A t \in Streams : Of(t) = c => stream[t].st = "off"
    BY <1>2, <2>1 DEF StreamOK, SlotOK
  <2>3. x \in ConnType /\ ConnOK(x)
    BY NoConnFacts
  <2> HIDE DEF x
  <2> QED
    BY <1>3, <1>4, <2>1, <2>2, <2>3
<1>6. CASE cn.st = "open" /\ LeaveAcceptLoop(c)
  <2>1. CASE \A t \in Streams : Of(t) = c => ~Live(t)
    <3>1. conn' = [conn EXCEPT ![c] = NoConn] /\ UNCHANGED <<file, cache, stream>>
      BY <1>6, <2>1 DEF LeaveAcceptLoop, ReleaseConnection
    <3> QED
      BY <1>3, <1>4, <2>1, <3>1, NoConnFacts DEF Live
  <2>2. CASE ~\A t \in Streams : Of(t) = c => ~Live(t)
    <3> DEFINE x == [cn EXCEPT !.st = "closed"]
    <3>1. conn' = [conn EXCEPT ![c] = x] /\ UNCHANGED <<file, cache, stream>>
      BY <1>6, <2>2 DEF LeaveAcceptLoop
    <3>2. x \in ConnType /\ x.st = "closed" /\ x.lease = cn.lease /\ x.current = cn.current
      BY <1>1 DEF ConnType
    <3> HIDE DEF x
    <3>3. ConnOK(x)
      BY <1>1, <3>2 DEF ConnOK
    <3>4. \A t \in Streams : Of(t) = c => StreamOK(stream[t], x, file)
      BY <1>2, <3>2, SameRights
    <3> QED
      BY <1>3, <3>1, <3>2, <3>3, <3>4
  <2> QED
    BY <2>1, <2>2
<1> QED
  BY <1>5, <1>6 DEF PeerCloses, AuthenticationTimeout

(* A task ends, alone or with its connection. *)
LEMMA EndKeeps ==
    ASSUME AInv, NEW s \in Streams, EndTask(s)
    PROVE  AInv'
<1> DEFINE c == Of(s)
<1>1. stream' = [stream EXCEPT ![s] = NoStream] /\ UNCHANGED <<file, cache>> /\ c \in Conns
  BY StreamFacts DEF EndTask
<1>2. CASE UNCHANGED conn
  BY <1>1, <1>2, OneTask, NoStreamFacts, OffStream
<1>3. CASE ~UNCHANGED conn
  <2>1. conn' = [conn EXCEPT ![c] = NoConn] /\ \A t \in Streams \ {s} : Of(t) = c => ~Live(t)
    BY <1>3 DEF EndTask, ReleaseConnection
  <2>2. stream' \in [Streams -> StreamType]
    BY <1>1, NoStreamFacts DEF AInv, Types
  <2>3. ASSUME NEW t \in Streams
        PROVE  IF Of(t) = c THEN StreamOK(stream'[t], NoConn, file) ELSE stream'[t] = stream[t]
    <3>1. stream'[t] = IF t = s THEN NoStream ELSE stream[t]
      BY <1>1 DEF AInv, Types
    <3>2. StreamOK(stream[t], conn[Of(t)], file)
      BY StreamFacts
    <3>3. Of(t) = c => stream'[t].st = "off" /\ stream'[t].holds = Unbound
      BY <2>1, <3>1, <3>2, NoStreamFacts DEF Live, StreamOK, SlotOK
    <3> QED
      BY <3>1, <3>3, OffStream
  <2> HIDE DEF c
  <2> QED
    BY <1>1, <2>1, <2>2, <2>3, NoConnFacts, OneConn
<1> QED
  BY <1>2, <1>3

(* New contents of the file take no check back. *)
LEMMA EditKeeps ==
    ASSUME AInv, EditFile
    PROVE  AInv'
<1>1. PICK valid \in Configs : file' = Append(file, valid)
  BY DEF EditFile
<1>2. valid \in SUBSET Credentials
  BY AdmissionAssumption
<1>3. /\ file \in Seq(SUBSET Credentials) /\ Len(file) \in Nat /\ Len(file) > 0
  BY FileFacts
<1>4. /\ file' \in Seq(SUBSET Credentials) /\ Len(file') = Len(file) + 1
      /\ \A v \in 1 .. Len(file) : file'[v] = file[v]
  BY <1>1, <1>2, <1>3
<1>5. file' \in Files
  BY <1>3, <1>4 DEF Files
<1>6. \A n \in Nat : \A k : n > 0 /\ ValidSince(n, k, file) => ValidSince(n, k, file')
  BY <1>3, <1>4 DEF ValidSince
<1>7. \A n \in Nat : \A w : n > 0 /\ ReadSince(n, w, file) => ReadSince(n, w, file')
  BY <1>3, <1>4 DEF ReadSince
<1>8. UNCHANGED <<cache, conn, stream>>
  BY DEF EditFile
<1>9. ASSUME NEW s \in Streams PROVE StreamOK(stream[s], conn[Of(s)], file')
  <2> DEFINE r == stream[s]
             cn == conn[Of(s)]
  <2>1. r \in StreamType /\ StreamOK(r, cn, file)
    BY StreamFacts
  <2>2. r.from \in Nat /\ r.stamp \in Nat
    BY <2>1, StreamFields
  <2> HIDE DEF r, cn
  <2>3. r.st \in Checked => r.from \in 1 .. Len(file) /\ r.from > 0 /\ r.from \in 1 .. Len(file')
    BY <2>1, <2>2, <1>3, <1>4 DEF StreamOK, LookupOK
  <2>4. r.st \in Checked /\ Fresh(r.from, cn, file) => Fresh(r.from, cn, file')
    BY <2>2, <2>3, <1>6 DEF Fresh
  <2>5. LookupOK(r, cn, file')
    <3>1. r.st \in {"load", "publish"} =>
             /\ r.st \in Checked /\ r.cred \in Credentials /\ r.from <= r.stamp
             /\ r.stamp <= Len(file')
      BY <2>1, <2>2, <1>3, <1>4 DEF StreamOK, LookupOK, Checked, States
    <3>2. r.st = "publish" => ReadSince(r.stamp, r.read, file')
      BY <2>1, <2>2, <2>3, <3>1, <1>7 DEF StreamOK, LookupOK
    <3> QED
      BY <2>1, <2>3, <2>4, <3>1, <3>2 DEF StreamOK, LookupOK
  <2>6. PassedOK(r, cn, file')
    BY <2>1, <2>2, <2>3, <2>4, <1>6 DEF StreamOK, PassedOK, Checked, States
  <2> QED
    BY <2>1, <2>5, <2>6 DEF StreamOK, r, cn
<1>10. CacheOK(cache, file')
  BY <1>7 DEF AInv, Types, CacheOK
<1> QED
  BY <1>5, <1>8, <1>9, <1>10 DEF AInv, Types

(* The invariant of one step. *)
LEMMA AdmissionKeeps ==
    ASSUME AInv, [AdmissionNext]_admissionVars
    PROVE  AInv'
<1>1. CASE UNCHANGED <<file, cache, conn, stream>>
  BY <1>1 DEF AInv, Types
<1>2. ASSUME NEW s \in Streams, NEW cred \in Credentials, ReadHello(s, cred) PROVE AInv'
  BY <1>2, Answered, LookUpKeeps DEF ReadHello
<1>3. ASSUME NEW s \in Streams, FrameFails(s) \/ InvalidFeatures(s) PROVE AInv'
  BY <1>3, Answered DEF FrameFails, InvalidFeatures
<1>4. StreamStep => AInv'
  BY <1>2, <1>3, ReadRequestKeeps, LoadKeeps, PublishKeeps, InstallKeeps, FlagKeeps,
     AdmitKeeps, EndKeeps DEF StreamStep
<1>5. ConnectionStep => AInv'
  BY ConnectionKeeps DEF ConnectionStep
<1>6. WindowExpires \/ SetDraining \/ Drained \/ GraceExpires \/ CloseEndpoint => AInv'
  BY <1>1 DEF WindowExpires, SetDraining, Drained, GraceExpires, CloseEndpoint
<1>7. UNCHANGED admissionVars => AInv'
  BY <1>1 DEF admissionVars
<1> QED
  BY <1>4, <1>5, <1>6, <1>7, EditKeeps DEF AdmissionNext

LEMMA AdmissionStarts == AdmissionInit => AInv
<1> SUFFICES ASSUME AdmissionInit PROVE AInv
  OBVIOUS
<1>1. file \in Files
  BY AdmissionAssumption DEF AdmissionInit, Files
<1>2. cache \in [stamp : Nat, valid : SUBSET Credentials] /\ CacheOK(cache, file)
  BY DEF AdmissionInit, Uncached, CacheOK
<1>3. conn \in [Conns -> ConnType] /\ stream \in [Streams -> StreamType]
  BY NoConnFacts, NoStreamFacts DEF AdmissionInit
<1>4. \A c \in Conns : ConnOK(conn[c])
  BY NoConnFacts DEF AdmissionInit
<1>5. \A s \in Streams : StreamOK(stream[s], conn[Of(s)], file)
  BY OffStream, NoStreamFacts DEF AdmissionInit
<1> QED
  BY <1>1, <1>2, <1>3, <1>4, <1>5 DEF AInv, Types

(* handle_stream, load_auth_principals_cached, install_connection_principal: in
   every reachable state, a request runs under the principal its connection leased and
   with a credential that was valid at some moment of the checks it overlapped. *)
THEOREM AlwaysRunsAsLeased == AdmissionSpec => []RunsAsLeased
<1>1. AInv => RunsAsLeased
  BY DEF AInv, RunsAsLeased, Running, StreamOK, SlotOK, PassedOK, ValidSince, Stamp
<1> QED
  BY <1>1, AdmissionStarts, AdmissionKeeps, PTL DEF AdmissionSpec

------------------------------------------------------------------------------
(* Slots *)

Opened(cf) == {c \in Conns : cf[c].st # "off"}
LeasedTo(cf, p) == {c \in Conns : cf[c].lease = p}
LiveTasks(sf) == {s \in Streams : sf[s].st # "off"}
HeldBy(sf, p) == {s \in Streams : sf[s].holds = p}

ConnCount ==
    /\ connections = Cardinality(Opened(conn))
    /\ ownConns = [p \in Principals |-> Cardinality(LeasedTo(conn, p))]
TaskCount ==
    /\ active = Cardinality(LiveTasks(stream))
    /\ ownRequests = [p \in Principals |-> Cardinality(HeldBy(stream, p))]

(* The sets that are counted are finite. *)
LEMMA FiniteCounts ==
    /\ \A cf : IsFiniteSet(Opened(cf)) /\ \A p : IsFiniteSet(LeasedTo(cf, p))
    /\ \A sf : IsFiniteSet(LiveTasks(sf)) /\ \A p : IsFiniteSet(HeldBy(sf, p))
<1>1. IsFiniteSet(Conns) /\ IsFiniteSet(Streams)
  BY AdmissionAssumption
<1>2. \A T \in SUBSET Conns : IsFiniteSet(T)
  BY <1>1, FS_Subset
<1>3. \A T \in SUBSET Streams : IsFiniteSet(T)
  BY <1>1, FS_Subset
<1>4. \A cf : Opened(cf) \in SUBSET Conns /\ \A p : LeasedTo(cf, p) \in SUBSET Conns
  BY DEF Opened, LeasedTo
<1>5. \A sf : LiveTasks(sf) \in SUBSET Streams /\ \A p : HeldBy(sf, p) \in SUBSET Streams
  BY DEF LiveTasks, HeldBy
<1> QED
  BY <1>2, <1>3, <1>4, <1>5

LEMMA ConnSame ==
    ASSUME ConnCount, UNCHANGED <<connections, ownConns>>,
           \A c \in Conns : /\ conn'[c].st = "off" <=> conn[c].st = "off"
                            /\ conn'[c].lease = conn[c].lease
    PROVE  ConnCount'
<1>1. Opened(conn') = Opened(conn) /\ \A p : LeasedTo(conn', p) = LeasedTo(conn, p)
  BY DEF Opened, LeasedTo
<1> QED
  BY <1>1 DEF ConnCount

LEMMA TaskSame ==
    ASSUME TaskCount, UNCHANGED <<active, ownRequests>>,
           \A s \in Streams : /\ stream'[s].st = "off" <=> stream[s].st = "off"
                              /\ stream'[s].holds = stream[s].holds
    PROVE  TaskCount'
<1>1. LiveTasks(stream') = LiveTasks(stream) /\ \A p : HeldBy(stream', p) = HeldBy(stream, p)
  BY DEF LiveTasks, HeldBy
<1> QED
  BY <1>1 DEF TaskCount

(* Connection c takes the global slot. *)
LEMMA ConnOpens ==
    ASSUME AInv, ConnCount, NEW c \in Conns, NEW x, conn[c].st = "off",
           conn' = [conn EXCEPT ![c] = x], x.st # "off", x.lease = conn[c].lease,
           connections' = connections + 1, UNCHANGED ownConns
    PROVE  ConnCount'
<1>1. DOMAIN conn = Conns
  BY DEF AInv, Types
<1>2. Opened(conn') = Opened(conn) \cup {c} /\ c \notin Opened(conn)
  BY <1>1 DEF Opened
<1>3. \A p : LeasedTo(conn', p) = LeasedTo(conn, p)
  BY <1>1 DEF LeasedTo
<1>4. Cardinality(Opened(conn')) = Cardinality(Opened(conn)) + 1
  BY <1>2, FiniteCounts, FS_AddElement
<1> QED
  BY <1>3, <1>4 DEF ConnCount

(* Connection c, which held no principal's slot, takes that of id. *)
LEMMA ConnLeases ==
    ASSUME AInv, ConnCount, NEW c \in Conns, NEW x, NEW id \in Principals,
           conn[c].lease = Unbound, conn' = [conn EXCEPT ![c] = x],
           x.st = conn[c].st, x.lease = id,
           ownConns' = [ownConns EXCEPT ![id] = @ + 1], UNCHANGED connections
    PROVE  ConnCount'
<1>1. DOMAIN conn = Conns /\ id # Unbound
  BY AdmissionAssumption DEF AInv, Types
<1>2. Opened(conn') = Opened(conn)
  BY <1>1 DEF Opened
<1>3. LeasedTo(conn', id) = LeasedTo(conn, id) \cup {c} /\ c \notin LeasedTo(conn, id)
  BY <1>1 DEF LeasedTo
<1>4. \A p \in Principals : p # id => LeasedTo(conn', p) = LeasedTo(conn, p)
  BY <1>1, AdmissionAssumption DEF LeasedTo
<1>5. Cardinality(LeasedTo(conn', id)) = Cardinality(LeasedTo(conn, id)) + 1
  BY <1>3, FiniteCounts, FS_AddElement
<1> QED
  BY <1>2, <1>4, <1>5 DEF ConnCount

(* The drops of ConnectionGuard and PrincipalConnectionGuard. *)
LEMMA ConnReleases ==
    ASSUME AInv, ConnCount, NEW c \in Conns, conn[c].st # "off", ReleaseConnection(c)
    PROVE  ConnCount'
<1> DEFINE id == conn[c].lease
<1>1. /\ DOMAIN conn = Conns /\ id \in Principals \cup {Unbound}
      /\ NoConn.st = "off" /\ NoConn.lease = Unbound
  BY ConnFields DEF AInv, Types, NoConn
<1>2. conn' = [conn EXCEPT ![c] = NoConn] /\ connections' = connections - 1
  BY DEF ReleaseConnection
<1>3. Opened(conn') = Opened(conn) \ {c} /\ c \in Opened(conn)
  BY <1>1, <1>2 DEF Opened
<1>4. Cardinality(Opened(conn')) = Cardinality(Opened(conn)) - 1
  BY <1>3, FiniteCounts, FS_RemoveElement
<1>5. \A p \in Principals : p # id => LeasedTo(conn', p) = LeasedTo(conn, p)
  BY <1>1, <1>2, AdmissionAssumption DEF LeasedTo
<1>6. CASE id = Unbound
  BY <1>2, <1>4, <1>5, <1>6, AdmissionAssumption DEF ConnCount, ReleaseConnection
<1>7. CASE id # Unbound
  <2>1. LeasedTo(conn', id) = LeasedTo(conn, id) \ {c} /\ c \in LeasedTo(conn, id)
    BY <1>1, <1>2, <1>7 DEF LeasedTo
  <2>2. Cardinality(LeasedTo(conn', id)) = Cardinality(LeasedTo(conn, id)) - 1
    BY <2>1, FiniteCounts, FS_RemoveElement
  <2>3. ownConns' = [ownConns EXCEPT ![id] = @ - 1]
    BY <1>7 DEF ReleaseConnection
  <2> QED
    BY <1>1, <1>2, <1>4, <1>5, <2>2, <2>3 DEF ConnCount
<1> QED
  BY <1>6, <1>7

(* A permit of request_permits. *)
LEMMA TaskStarts ==
    ASSUME AInv, TaskCount, NEW s \in Streams, NEW r, stream[s].st = "off",
           stream' = [stream EXCEPT ![s] = r], r.st # "off", r.holds = stream[s].holds,
           active' = active + 1, UNCHANGED ownRequests
    PROVE  TaskCount'
<1>1. DOMAIN stream = Streams
  BY DEF AInv, Types
<1>2. LiveTasks(stream') = LiveTasks(stream) \cup {s} /\ s \notin LiveTasks(stream)
  BY <1>1 DEF LiveTasks
<1>3. \A p : HeldBy(stream', p) = HeldBy(stream, p)
  BY <1>1 DEF HeldBy
<1>4. Cardinality(LiveTasks(stream')) = Cardinality(LiveTasks(stream)) + 1
  BY <1>2, FiniteCounts, FS_AddElement
<1> QED
  BY <1>3, <1>4 DEF TaskCount

(* principal_request_stream_guard. *)
LEMMA TaskLeases ==
    ASSUME AInv, TaskCount, NEW s \in Streams, NEW r, NEW id \in Principals,
           stream[s].holds = Unbound, stream' = [stream EXCEPT ![s] = r],
           stream[s].st # "off", r.st # "off", r.holds = id,
           ownRequests' = [ownRequests EXCEPT ![id] = @ + 1], UNCHANGED active
    PROVE  TaskCount'
<1>1. DOMAIN stream = Streams /\ id # Unbound
  BY AdmissionAssumption DEF AInv, Types
<1>2. LiveTasks(stream') = LiveTasks(stream)
  BY <1>1 DEF LiveTasks
<1>3. HeldBy(stream', id) = HeldBy(stream, id) \cup {s} /\ s \notin HeldBy(stream, id)
  BY <1>1 DEF HeldBy
<1>4. \A p \in Principals : p # id => HeldBy(stream', p) = HeldBy(stream, p)
  BY <1>1, AdmissionAssumption DEF HeldBy
<1>5. Cardinality(HeldBy(stream', id)) = Cardinality(HeldBy(stream, id)) + 1
  BY <1>3, FiniteCounts, FS_AddElement
<1> QED
  BY <1>2, <1>4, <1>5 DEF TaskCount

(* The drops of RequestStreamGuard and PrincipalRequestStreamGuard. *)
LEMMA TaskEnds ==
    ASSUME AInv, TaskCount, NEW s \in Streams, EndTask(s)
    PROVE  TaskCount'
<1> DEFINE id == stream[s].holds
<1>1. /\ DOMAIN stream = Streams /\ id \in Principals \cup {Unbound} /\ stream[s].st # "off"
  BY StreamFields DEF AInv, Types, EndTask
<1>2. stream' = [stream EXCEPT ![s] = NoStream] /\ active' = active - 1
  BY DEF EndTask
<1>3. LiveTasks(stream') = LiveTasks(stream) \ {s} /\ s \in LiveTasks(stream)
  BY <1>1, <1>2, NoStreamFacts DEF LiveTasks
<1>4. Cardinality(LiveTasks(stream')) = Cardinality(LiveTasks(stream)) - 1
  BY <1>3, FiniteCounts, FS_RemoveElement
<1>5. \A p \in Principals : p # id => HeldBy(stream', p) = HeldBy(stream, p)
  BY <1>1, <1>2, NoStreamFacts, AdmissionAssumption DEF HeldBy
<1>6. CASE id = Unbound
  BY <1>2, <1>4, <1>5, <1>6, AdmissionAssumption DEF TaskCount, EndTask
<1>7. CASE id # Unbound
  <2>1. HeldBy(stream', id) = HeldBy(stream, id) \ {s} /\ s \in HeldBy(stream, id)
    BY <1>1, <1>2, <1>7, NoStreamFacts DEF HeldBy
  <2>2. Cardinality(HeldBy(stream', id)) = Cardinality(HeldBy(stream, id)) - 1
    BY <2>1, FiniteCounts, FS_RemoveElement
  <2>3. ownRequests' = [ownRequests EXCEPT ![id] = @ - 1]
    BY <1>7 DEF EndTask
  <2> QED
    BY <1>1, <1>2, <1>4, <1>5, <2>2, <2>3 DEF TaskCount
<1> QED
  BY <1>6, <1>7

(* A task goes on and keeps what it holds. *)
LEMMA TaskMoves ==
    ASSUME AInv, TaskCount, NEW s \in Streams, NEW r, stream[s].st # "off",
           stream' = [stream EXCEPT ![s] = r], r.st # "off", r.holds = stream[s].holds,
           UNCHANGED <<active, ownRequests>>
    PROVE  TaskCount'
<1>1. \A t \in Streams : stream'[t] = IF t = s THEN r ELSE stream[t]
  BY DEF AInv, Types
<1> QED
  BY <1>1, TaskSame

LEMMA GotoCounts ==
    ASSUME AInv, TaskCount, NEW s \in Streams, NEW st, st # "off", stream[s].st # "off",
           stream' = [stream EXCEPT ![s].st = st], UNCHANGED <<active, ownRequests>>
    PROVE  TaskCount'
<1> DEFINE r == [stream[s] EXCEPT !.st = st]
<1>1. stream[s] \in StreamType
  BY StreamFacts
<1>2. r.st = st /\ r.holds = stream[s].holds
  BY <1>1 DEF StreamType
<1>3. stream' = [stream EXCEPT ![s] = r]
  OBVIOUS
<1> HIDE DEF r
<1> QED
  BY <1>2, <1>3, TaskMoves

(* Steps of a task between its arrival and its end count nothing, but for the
   principal's slot. *)
LEMMA RequestCounts ==
    ASSUME AInv, TaskCount, NEW s \in Streams,
           \/ FrameFails(s) \/ ReadRequest(s) \/ \E cred \in Credentials : ReadHello(s, cred)
           \/ LoadFile(s) \/ PublishCache(s) \/ InvalidFeatures(s)
           \/ RaiseFlag(s) \/ LowerFlag(s) \/ ForgetPrincipal(s)
           \/ Gate(s) \/ LeaseRequest(s) \/ RefuseForBudget(s) \/ Dispatch(s)
    PROVE  TaskCount'
<1> DEFINE o == stream[s]
<1>1. o \in StreamType /\ StreamOK(o, conn[Of(s)], file)
  BY StreamFacts
<1>2. ASSUME NEW st, st # "off", o.st # "off", Goto(s, st) PROVE TaskCount'
  BY <1>2, GotoCounts DEF Goto, slots
<1>3. ASSUME NEW hello, NEW cred, o.st = "read", LookUp(s, hello, cred) PROVE TaskCount'
  <2> DEFINE st == IF cache.stamp = Stamp THEN Decision(hello, cred, cache.valid) ELSE "load"
             r == [o EXCEPT !.hello = hello, !.cred = cred, !.from = Stamp,
                            !.stamp = Stamp, !.st = st]
  <2>1. r.st = st /\ r.holds = o.holds
    BY <1>1 DEF StreamType
  <2>2. st # "off"
    BY DEF Decision
  <2>3. stream' = [stream EXCEPT ![s] = r] /\ UNCHANGED <<active, ownRequests>>
    BY <1>3 DEF LookUp, slots
  <2> HIDE DEF r, st
  <2> QED
    BY <1>3, <2>1, <2>2, <2>3, TaskMoves
<1>4. CASE FrameFails(s) \/ InvalidFeatures(s) \/ RefuseForBudget(s)
  BY <1>2, <1>4 DEF FrameFails, InvalidFeatures, RefuseForBudget
<1>5. CASE ReadRequest(s)
  <2> DEFINE r == [o EXCEPT !.st = "clear", !.from = Stamp]
  <2>1. r.st = "clear" /\ r.holds = o.holds
    BY <1>1 DEF StreamType
  <2>2. CASE stream' = [stream EXCEPT ![s] = r] /\ UNCHANGED slots /\ o.st = "read"
    <3> HIDE DEF r
    <3> QED
      BY <2>1, <2>2, TaskMoves DEF slots
  <2>3. o.st = "read"
    BY <1>5 DEF ReadRequest
  <2> QED
    BY <1>2, <1>3, <1>5, <2>2, <2>3 DEF ReadRequest
<1>6. CASE \E cred \in Credentials : ReadHello(s, cred)
  BY <1>2, <1>3, <1>6 DEF ReadHello
<1>7. CASE LoadFile(s)
  <2> DEFINE r == [o EXCEPT !.st = "publish", !.read = Valid]
  <2>1. r.st = "publish" /\ r.holds = o.holds
    BY <1>1 DEF StreamType
  <2>2. /\ stream' = [stream EXCEPT ![s] = r] /\ o.st = "load"
        /\ UNCHANGED <<active, ownRequests>>
    BY <1>7 DEF LoadFile, slots
  <2> HIDE DEF r
  <2> QED
    BY <2>1, <2>2, TaskMoves
<1>8. CASE PublishCache(s)
  <2> DEFINE st == Decision(o.hello, o.cred, o.read)
             r == [o EXCEPT !.st = st, !.read = {}]
  <2>1. r.st = st /\ r.holds = o.holds
    BY <1>1 DEF StreamType
  <2>2. st # "off"
    BY DEF Decision
  <2>3. /\ stream' = [stream EXCEPT ![s] = r] /\ o.st = "publish"
        /\ UNCHANGED <<active, ownRequests>>
    BY <1>8 DEF PublishCache, slots
  <2> HIDE DEF r, st
  <2> QED
    BY <2>1, <2>2, <2>3, TaskMoves
<1>9. CASE RaiseFlag(s) \/ LowerFlag(s) \/ ForgetPrincipal(s)
  <2>1. PICK st \in {"answer", "forget", "gate"} : stream' = [stream EXCEPT ![s].st = st]
    BY <1>9 DEF RaiseFlag, LowerFlag, ForgetPrincipal
  <2>2. o.st # "off" /\ UNCHANGED <<active, ownRequests>>
    BY <1>9 DEF RaiseFlag, LowerFlag, ForgetPrincipal, slots
  <2> QED
    BY <2>1, <2>2, GotoCounts
<1>10. CASE Gate(s)
  BY <1>2, <1>10 DEF Gate
<1>11. CASE LeaseRequest(s)
  <2> DEFINE id == conn[Of(s)].current.id
             r == [o EXCEPT !.st = "budget", !.holds = id]
  <2>1. CASE Goto(s, "answer")
    BY <1>2, <1>11, <2>1 DEF LeaseRequest
  <2>2. CASE ~Goto(s, "answer")
    <3>1. /\ o.st = "lease" /\ id # Unbound
          /\ stream' = [stream EXCEPT ![s] = r]
          /\ ownRequests' = [ownRequests EXCEPT ![id] = @ + 1] /\ UNCHANGED active
      BY <1>11, <2>2 DEF LeaseRequest
    <3>2. id \in Principals
      BY <3>1, StreamFacts, ConnFields, IdentityFacts, NobodyFacts
    <3>3. r.st = "budget" /\ r.holds = id /\ o.holds = Unbound
      BY <1>1, <3>1 DEF StreamType, StreamOK, SlotOK
    <3> HIDE DEF r, id
    <3> QED
      BY <3>1, <3>2, <3>3, TaskLeases
  <2> QED
    BY <2>1, <2>2
<1>12. CASE Dispatch(s)
  <2> DEFINE r == [o EXCEPT !.st = "running", !.as = conn[Of(s)].current]
  <2>1. r.st = "running" /\ r.holds = o.holds
    BY <1>1 DEF StreamType
  <2>2. CASE /\ stream' = [stream EXCEPT ![s] = r] /\ UNCHANGED slots /\ o.st = "budget"
    <3> HIDE DEF r
    <3> QED
      BY <2>1, <2>2, TaskMoves DEF slots
  <2> QED
    BY <1>2, <1>12, <2>2 DEF Dispatch
<1> QED
  BY <1>4, <1>5, <1>6, <1>7, <1>8, <1>9, <1>10, <1>11, <1>12

(* The rest of a task's life, and what a connection counts in it. *)
LEMMA ArrivalCounts ==
    ASSUME AInv, ConnCount, TaskCount, NEW s \in Streams, AcceptStream(s)
    PROVE  ConnCount' /\ TaskCount'
<1> DEFINE c == Of(s)
           x == [conn[c] EXCEPT !.timed = ~conn[c].auth]
           r == [stream[s] EXCEPT !.st = "read"]
<1>1. stream[s] \in StreamType /\ conn[c] \in ConnType /\ c \in Conns
  BY StreamFacts
<1>2. x.st = conn[c].st /\ x.lease = conn[c].lease
  BY <1>1 DEF ConnType
<1>3. r.st = "read" /\ r.holds = stream[s].holds
  BY <1>1 DEF StreamType
<1>4. conn' = [conn EXCEPT ![c] = x] /\ UNCHANGED <<connections, ownConns, ownRequests>>
  BY DEF AcceptStream
<1>5. \/ stream' = [stream EXCEPT ![s] = r] /\ active' = active + 1 /\ stream[s].st = "off"
      \/ UNCHANGED <<stream, active>>
  BY DEF AcceptStream, Live
<1> HIDE DEF x, r
<1>6. \A d \in Conns : conn'[d] = IF d = c THEN x ELSE conn[d]
  BY <1>4 DEF AInv, Types
<1>7. ConnCount'
  BY <1>2, <1>4, <1>6, ConnSame
<1>8. TaskCount'
  BY <1>3, <1>4, <1>5, TaskStarts, TaskSame
<1> QED
  BY <1>7, <1>8

LEMMA InstallCounts ==
    ASSUME AInv, ConnCount, TaskCount, NEW s \in Streams, InstallConnectionPrincipal(s)
    PROVE  ConnCount' /\ TaskCount'
<1> DEFINE c == Of(s)
           cn == conn[c]
           o == stream[s]
           id == Holder[o.cred]
<1>1. /\ o \in StreamType /\ cn \in ConnType /\ c \in Conns /\ o.st = "install"
      /\ StreamOK(o, cn, file)
  BY StreamFacts DEF InstallConnectionPrincipal
<1>2. CASE Goto(s, "answer")
  BY <1>1, <1>2, GotoCounts, ConnSame DEF Goto, slots
<1>3. CASE ~Goto(s, "answer")
  <2> DEFINE x == [cn EXCEPT !.lease = IF cn.lease = Unbound THEN id ELSE @,
                             !.current = [id |-> id, cred |-> o.cred]]
  <2>1. /\ conn' = [conn EXCEPT ![c] = x]
        /\ ownConns' = IF cn.lease = Unbound THEN [ownConns EXCEPT ![id] = @ + 1] ELSE ownConns
        /\ UNCHANGED <<connections, active, ownRequests>>
    BY <1>3 DEF InstallConnectionPrincipal
  <2>2. x.st = cn.st /\ x.lease = IF cn.lease = Unbound THEN id ELSE cn.lease
    BY <1>1 DEF ConnType
  <2>3. id \in Principals
    BY <1>1 DEF StreamOK, PassedOK, Principals
  <2>4. ASSUME NEW t \in Streams
        PROVE  /\ stream'[t].st = "off" <=> stream[t].st = "off"
               /\ stream'[t].holds = stream[t].holds
    <3>1. stream[t] \in StreamType
      BY StreamFacts
    <3>2. \/ stream'[t] = [stream[t] EXCEPT !.st = "flag"] /\ t = s
          \/ stream'[t] = [stream[t] EXCEPT !.from = o.from]
          \/ stream'[t] = stream[t]
      BY <1>3 DEF InstallConnectionPrincipal
    <3> QED
      BY <1>1, <3>1, <3>2 DEF StreamType
  <2>5. TaskCount'
    BY <2>1, <2>4, TaskSame
  <2> HIDE DEF x
  <2>6. ConnCount'
    <3>1. CASE cn.lease = Unbound
      BY <1>1, <2>1, <2>2, <2>3, <3>1, ConnLeases
    <3>2. CASE cn.lease # Unbound
      <4>1. \A d \in Conns : conn'[d] = IF d = c THEN x ELSE conn[d]
        BY <2>1 DEF AInv, Types
      <4> QED
        BY <2>1, <2>2, <3>2, <4>1, ConnSame
    <3> QED
      BY <3>1, <3>2
  <2> QED
    BY <2>5, <2>6
<1> QED
  BY <1>2, <1>3

LEMMA EndCounts ==
    ASSUME AInv, ConnCount, TaskCount, NEW s \in Streams, EndTask(s)
    PROVE  ConnCount' /\ TaskCount'
<1>1. Of(s) \in Conns
  BY StreamFacts
<1>2. CASE conn[Of(s)].st = "closed" /\ ReleaseConnection(Of(s))
  BY <1>1, <1>2, ConnReleases, TaskEnds
<1>3. CASE UNCHANGED <<conn, connections, ownConns>>
  BY <1>3, ConnSame, TaskEnds
<1> QED
  BY <1>2, <1>3 DEF EndTask

LEMMA ConnectionCounts ==
    ASSUME AInv, ConnCount, TaskCount, NEW c \in Conns,
           Connect(c) \/ PeerCloses(c) \/ AuthenticationTimeout(c)
    PROVE  ConnCount' /\ TaskCount'
<1>1. conn[c] \in ConnType /\ ConnOK(conn[c])
  BY DEF AInv, Types
<1>2. TaskCount'
  BY TaskSame DEF Connect, PeerCloses, AuthenticationTimeout, LeaveAcceptLoop
<1>3. CASE Connect(c)
  <2>1. /\ conn[c].st = "off" /\ conn[c].lease = Unbound /\ connections' = connections + 1
        /\ conn' = [conn EXCEPT ![c] = [NoConn EXCEPT !.st = "open"]] /\ UNCHANGED ownConns
    BY <1>1, <1>3 DEF Connect, ConnOK
  <2> QED
    BY <1>2, <2>1, NoConnFacts, ConnOpens
<1>4. CASE conn[c].st = "open" /\ LeaveAcceptLoop(c)
  <2>1. CASE ReleaseConnection(c)
    BY <1>2, <1>4, <2>1, ConnReleases
  <2>2. CASE conn' = [conn EXCEPT ![c].st = "closed"] /\ UNCHANGED <<connections, ownConns>>
    <3>1. \A d \in Conns : conn'[d] = IF d = c THEN [conn[c] EXCEPT !.st = "closed"] ELSE conn[d]
      BY <2>2 DEF AInv, Types
    <3>2. /\ [conn[c] EXCEPT !.st = "closed"].st = "closed"
          /\ [conn[c] EXCEPT !.st = "closed"].lease = conn[c].lease
      BY <1>1 DEF ConnType
    <3>3. \A d \in Conns : /\ conn'[d].st = "off" <=> conn[d].st = "off"
                           /\ conn'[d].lease = conn[d].lease
      BY <1>4, <3>1, <3>2
    <3> QED
      BY <1>2, <2>2, <3>3, ConnSame
  <2> QED
    BY <1>4, <2>1, <2>2 DEF LeaveAcceptLoop
<1> QED
  BY <1>3, <1>4 DEF PeerCloses, AuthenticationTimeout

(* The other steps of a task leave every connection's slots where they are. *)
LEMMA RequestKeepsConns ==
    ASSUME AInv, ConnCount, NEW s \in Streams,
           \/ FrameFails(s) \/ ReadRequest(s) \/ \E cred \in Credentials : ReadHello(s, cred)
           \/ LoadFile(s) \/ PublishCache(s) \/ InvalidFeatures(s)
           \/ RaiseFlag(s) \/ LowerFlag(s) \/ ForgetPrincipal(s)
           \/ Gate(s) \/ LeaseRequest(s) \/ RefuseForBudget(s) \/ Dispatch(s)
    PROVE  ConnCount'
<1>1. CASE UNCHANGED <<conn, connections, ownConns>>
  BY <1>1, ConnSame
<1>2. CASE RaiseFlag(s) \/ LowerFlag(s) \/ ForgetPrincipal(s)
  <2> DEFINE c == Of(s)
  <2>1. conn[c] \in ConnType /\ c \in Conns
    BY StreamFacts
  <2>2. \/ \E b \in BOOLEAN : conn' = [conn EXCEPT ![c].auth = b]
        \/ conn' = [conn EXCEPT ![c].current = Nobody]
    BY <1>2 DEF RaiseFlag, LowerFlag, ForgetPrincipal
  <2>3. UNCHANGED <<connections, ownConns>>
    BY <1>2 DEF RaiseFlag, LowerFlag, ForgetPrincipal, slots
  <2>4. \A d \in Conns : conn'[d].st = conn[d].st /\ conn'[d].lease = conn[d].lease
    BY <2>1, <2>2 DEF AInv, Types, ConnType
  <2> QED
    BY <2>3, <2>4, ConnSame
<1> QED
  BY <1>1, <1>2 DEF FrameFails, ReadRequest, ReadHello, LoadFile, PublishCache, InvalidFeatures,
     Gate, LeaseRequest, RefuseForBudget, Dispatch, Goto, LookUp, slots

LEMMA CountsKept ==
    ASSUME AInv, ConnCount, TaskCount, [AdmissionNext]_admissionVars
    PROVE  ConnCount' /\ TaskCount'
<1>1. CASE UNCHANGED <<conn, stream, slots>>
  BY <1>1, ConnSame, TaskSame DEF slots
<1>2. StreamStep => ConnCount' /\ TaskCount'
  BY RequestCounts, RequestKeepsConns, ArrivalCounts, InstallCounts, EndCounts DEF StreamStep
<1>3. ConnectionStep => ConnCount' /\ TaskCount'
  BY ConnectionCounts DEF ConnectionStep
<1>4. EditFile \/ WindowExpires \/ SetDraining \/ Drained \/ GraceExpires \/ CloseEndpoint
        => UNCHANGED <<conn, stream, slots>>
  BY DEF EditFile, WindowExpires, SetDraining, Drained, GraceExpires, CloseEndpoint
<1>5. UNCHANGED admissionVars => UNCHANGED <<conn, stream, slots>>
  BY DEF admissionVars, slots
<1> QED
  BY <1>1, <1>2, <1>3, <1>4, <1>5 DEF AdmissionNext

LEMMA CountsStart == AdmissionInit => ConnCount /\ TaskCount
<1> SUFFICES ASSUME AdmissionInit PROVE ConnCount /\ TaskCount
  OBVIOUS
<1>1. Opened(conn) = {} /\ \A p \in Principals : LeasedTo(conn, p) = {}
  BY AdmissionAssumption DEF AdmissionInit, Opened, LeasedTo, NoConn
<1>2. LiveTasks(stream) = {} /\ \A p \in Principals : HeldBy(stream, p) = {}
  BY AdmissionAssumption, NoStreamFacts DEF AdmissionInit, LiveTasks, HeldBy
<1> QED
  BY <1>1, <1>2, FS_EmptySet DEF AdmissionInit, ConnCount, TaskCount

(* ConnectionGuard, PrincipalConnectionGuard, RequestStreamGuard and
   PrincipalRequestStreamGuard: on every path the four counters are the numbers of
   live connections and tasks that hold the slots they count. *)
THEOREM SlotsAlwaysExact == AdmissionSpec => []SlotsExact
<1>1. ConnCount /\ TaskCount => SlotsExact
  BY DEF ConnCount, TaskCount, SlotsExact, Opened, LeasedTo, LiveTasks, HeldBy, Live
<1>2. AInv /\ ConnCount /\ TaskCount /\ [AdmissionNext]_admissionVars
        => AInv' /\ ConnCount' /\ TaskCount'
  BY AdmissionKeeps, CountsKept
<1> QED
  BY <1>1, <1>2, AdmissionStarts, CountsStart, PTL DEF AdmissionSpec

------------------------------------------------------------------------------
(* The drain *)

Admitted == {"lease", "budget", "running"}
DrainInv ==
    /\ phase \in {"serving", "draining", "closing", "syncing", "cut"}
    /\ phase \in {"closing", "syncing"} => \A s \in Streams : stream[s].st \notin Admitted

(* Only a serving daemon lets a task past the gate. *)
LEMMA NoneAdmitted ==
    ASSUME AInv, NEW s \in Streams, phase # "serving",
           \/ AcceptStream(s) \/ FrameFails(s) \/ ReadRequest(s)
           \/ \E cred \in Credentials : ReadHello(s, cred)
           \/ LoadFile(s) \/ PublishCache(s)
           \/ InvalidFeatures(s) \/ InstallConnectionPrincipal(s) \/ RaiseFlag(s)
           \/ LowerFlag(s) \/ ForgetPrincipal(s) \/ Gate(s)
           \/ LeaseRequest(s) \/ RefuseForBudget(s) \/ Dispatch(s) \/ EndTask(s),
           NEW t \in Streams, stream'[t].st \in Admitted
    PROVE  stream[t].st \in Admitted
<1>1. stream[s] \in StreamType /\ stream[t] \in StreamType /\ DOMAIN stream = Streams
  BY StreamFacts DEF AInv, Types
<1>2. ASSUME NEW r, r.st \notin Admitted \/ stream[s].st \in Admitted,
             stream' = [stream EXCEPT ![s] = r]
      PROVE  stream[t].st \in Admitted
  BY <1>1, <1>2
<1>3. ASSUME NEW st, st \notin Admitted \/ stream[s].st \in Admitted,
             stream' = [stream EXCEPT ![s].st = st]
      PROVE  stream[t].st \in Admitted
  BY <1>1, <1>3 DEF StreamType
<1>4. CASE UNCHANGED stream
  BY <1>4
<1>5. ASSUME NEW hello, NEW cred, LookUp(s, hello, cred) PROVE stream[t].st \in Admitted
  <2> DEFINE st == IF cache.stamp = Stamp THEN Decision(hello, cred, cache.valid) ELSE "load"
             r == [stream[s] EXCEPT !.hello = hello, !.cred = cred, !.from = Stamp,
                                    !.stamp = Stamp, !.st = st]
  <2>1. r.st = st
    BY <1>1 DEF StreamType
  <2>2. st \notin Admitted
    BY DEF Decision, Admitted
  <2>3. stream' = [stream EXCEPT ![s] = r]
    BY <1>5 DEF LookUp
  <2> HIDE DEF r, st
  <2> QED
    BY <1>2, <2>1, <2>2, <2>3
<1>6. CASE AcceptStream(s) \/ FrameFails(s) \/ InvalidFeatures(s) \/ RaiseFlag(s) \/ LowerFlag(s)
           \/ ForgetPrincipal(s) \/ Gate(s) \/ RefuseForBudget(s)
  <2>1. \/ UNCHANGED stream
        \/ \E st \in {"read", "answer", "forget", "gate"} : stream' = [stream EXCEPT ![s].st = st]
    BY <1>6 DEF AcceptStream, FrameFails, InvalidFeatures, RaiseFlag, LowerFlag, ForgetPrincipal,
                Gate, RefuseForBudget, Goto
  <2> QED
    BY <1>3, <1>4, <2>1 DEF Admitted
<1>7. CASE LeaseRequest(s) \/ Dispatch(s)
  <2>1. stream[s].st \in Admitted
    BY <1>7 DEF LeaseRequest, Dispatch, Admitted
  <2>2. \A u \in Streams \ {s} : stream'[u] = stream[u]
    BY <1>1, <1>7 DEF LeaseRequest, Dispatch, Goto
  <2> QED
    BY <2>1, <2>2
<1>8. CASE ReadRequest(s)
  <2> DEFINE r == [stream[s] EXCEPT !.st = "clear", !.from = Stamp]
  <2>1. r.st \notin Admitted
    BY <1>1 DEF StreamType, Admitted
  <2>2. CASE stream' = [stream EXCEPT ![s] = r]
    <3> HIDE DEF r
    <3> QED
      BY <1>2, <2>1, <2>2
  <2>3. CASE Goto(s, "answer")
    BY <1>3, <2>3 DEF Goto, Admitted
  <2> QED
    BY <1>5, <1>8, <2>2, <2>3 DEF ReadRequest
<1>9. CASE \E cred \in Credentials : ReadHello(s, cred)
  <2>1. CASE Goto(s, "answer")
    BY <1>3, <2>1 DEF Goto, Admitted
  <2> QED
    BY <1>5, <1>9, <2>1 DEF ReadHello
<1>10. CASE LoadFile(s) \/ PublishCache(s) \/ EndTask(s)
  <2>1. stream'[s].st \notin Admitted
    BY <1>1, <1>10, NoStreamFacts DEF LoadFile, PublishCache, EndTask, Decision, StreamType, Admitted
  <2>2. \A u \in Streams \ {s} : stream'[u] = stream[u]
    BY <1>1, <1>10 DEF LoadFile, PublishCache, EndTask
  <2> QED
    BY <2>1, <2>2
<1>11. CASE InstallConnectionPrincipal(s)
  <2>1. CASE Goto(s, "answer")
    BY <1>3, <2>1 DEF Goto, Admitted
  <2>2. CASE ~Goto(s, "answer")
    <3>1. \/ t = s /\ stream'[t] = [stream[t] EXCEPT !.st = "flag"]
          \/ stream'[t] = [stream[t] EXCEPT !.from = stream[s].from]
          \/ stream'[t] = stream[t]
      BY <1>11, <2>2 DEF InstallConnectionPrincipal
    <3> QED
      BY <1>1, <3>1 DEF StreamType, Admitted
  <2> QED
    BY <2>1, <2>2
<1> QED
  BY <1>6, <1>7, <1>8, <1>9, <1>10, <1>11

LEMMA DrainKeeps ==
    ASSUME AInv, TaskCount, DrainInv, [AdmissionNext]_admissionVars
    PROVE  DrainInv'
<1>1. CASE UNCHANGED <<phase, stream>>
  BY <1>1 DEF DrainInv
<1>2. CASE StreamStep
  <2>1. UNCHANGED phase
    BY <1>2 DEF StreamStep, AcceptStream, FrameFails, ReadRequest, ReadHello, LoadFile, PublishCache,
       InvalidFeatures, InstallConnectionPrincipal, RaiseFlag, LowerFlag, ForgetPrincipal, Gate,
       LeaseRequest, RefuseForBudget, Dispatch, EndTask, Goto, LookUp
  <2>2. ASSUME phase # "serving", NEW t \in Streams, stream'[t].st \in Admitted
        PROVE  stream[t].st \in Admitted
    BY <1>2, <2>2, NoneAdmitted DEF StreamStep
  <2> QED
    BY <2>1, <2>2 DEF DrainInv
<1>3. CASE Drained
  <2>1. LiveTasks(stream) = {}
    BY <1>3, FiniteCounts, FS_EmptySet DEF Drained, TaskCount
  <2>2. \A s \in Streams : stream[s].st = "off"
    BY <2>1 DEF LiveTasks
  <2> QED
    BY <1>3, <2>2 DEF Drained, DrainInv, Admitted
<1>4. CASE SetDraining \/ GraceExpires \/ CloseEndpoint
  BY <1>4 DEF SetDraining, GraceExpires, CloseEndpoint, DrainInv
<1>5. ConnectionStep \/ EditFile \/ WindowExpires => UNCHANGED <<phase, stream>>
  BY DEF ConnectionStep, Connect, PeerCloses, AuthenticationTimeout, LeaveAcceptLoop, EditFile,
         WindowExpires
<1>6. UNCHANGED admissionVars => UNCHANGED <<phase, stream>>
  BY DEF admissionVars
<1> QED
  BY <1>1, <1>2, <1>3, <1>4, <1>5, <1>6 DEF AdmissionNext

(* The drain of the main loop, handle_stream's drain gate: once the loop has seen no
   request stream left, no request runs while the endpoint closes and the journals are
   synced. *)
THEOREM DrainAlwaysWaits == AdmissionSpec => []DrainWaits
<1>1. AdmissionInit => DrainInv
  BY DEF AdmissionInit, DrainInv
<1>2. AInv /\ ConnCount /\ TaskCount /\ DrainInv /\ [AdmissionNext]_admissionVars
        => AInv' /\ ConnCount' /\ TaskCount' /\ DrainInv'
  BY AdmissionKeeps, CountsKept, DrainKeeps
<1>3. DrainInv => DrainWaits
  BY DEF DrainInv, DrainWaits, Running, Admitted
<1> QED
  BY <1>1, <1>2, <1>3, AdmissionStarts, CountsStart, PTL DEF AdmissionSpec
==============================================================================
