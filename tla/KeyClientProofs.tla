-------------------------- MODULE KeyClientProofs --------------------------
(* Proofs about KeyClient, for every list of actions that fits together, all    *)
(* periods and margins, and any number of faults and tokens.                    *)
EXTENDS KeyClient, TLAPS

\* An action of this kind and about this name has run in this pass.
Passed(kind, name) == \E p \in Positions : p < pos /\ Kind[p] = kind /\ Subject[p] = name

\* Between the steps of an action.  A certificate that was received is one of this
\* pass, for a key that is whole; a key is torn while it is written.
StageOK ==
    /\ stage = "act" => reply = Absent
    /\ stage # "act" => pos \in Positions
    /\ At("keygen", "write") => key[Name] = "torn"
    /\ stage # "act" /\ (Doing("request") \/ Doing("bootstrap")) =>
          /\ reply # Absent /\ reply >= began + Life[Name]
          /\ key[Name] = "ok" /\ Name \in Intended
    /\ stage # "act" /\ Doing("request") => Keygrant # Absent

\* A node that has a certificate has its key, and may have it.
KeysOK ==
    /\ \A c \in Certs : cert[c] >= 0 => key[c] = "ok" /\ c \in Intended
    /\ Keygrant # Absent => key[G] = "ok"

\* Nothing that the node may have is put off.
RetriesOK == \A a \in APIs : a \in Certs \cup Intended => RetryAt[a] = Absent

\* Every few days there is an undisturbed pass, and the keyserver is up during it.
TimesOK == lastGood <= began /\ now <= lastGood + MaxOutage + 1 /\ (good => up)

\* The keygranting certificate is the one on the disk, if that one can be read, and
\* was good for its margin when the last undisturbed pass began.  So it was at the
\* beginning of this one, if it is undisturbed so far and past its renewal.
GrantOK ==
    /\ cert[G] >= 0 => Keygrant = cert[G]
    /\ Keygrant # Absent =>
          /\ Keygrant >= lastGood + InAdvance[G]
          /\ good /\ Passed("request", G) => Keygrant >= began + InAdvance[G]

\* Only a fault takes the keygranting certificate away from a node with others, or
\* makes its file differ from the one in memory other than while it is written.
MembersOK ==
    faults = 0 =>
        /\ \A c \in Certs : cert[c] >= 0 => Keygrant # Absent
        /\ Keygrant # Absent => cert[G] = Keygrant \/ (stage = "close" /\ Name = G)

\* The same as GrantOK for all certificates.
Fresh(c, t) == cert[c] >= 0 => cert[c] >= t + InAdvance[c] \/ (faults > 0 /\ Unadmitted(t))
CertsOK ==
    \A c \in Certs : Fresh(c, lastGood) /\ (good /\ Passed("request", c) => Fresh(c, began))

\* And for torn downloads: an undisturbed pass leaves none that is old.
Due(d, t) == Torn(d) => t - file[d].at <= Refresh[d] \/ (d \notin OpenFiles /\ Unadmitted(t))
FilesOK ==
    \A d \in Downloads \cap (Intended \cup OpenFiles) :
        Due(d, lastGood) /\ (good /\ Passed("download", d) => Due(d, began))

\* A download that was refused is put off.
RefusalsOK ==
    \A a \in APIs \ Certs : refused[a] # Absent =>
        RetryAt[a] # Absent /\ RetryAt[a] >= refused[a] + RetryAfter

IInv ==
    /\ TypeOK /\ StageOK /\ KeysOK /\ RetriesOK /\ TimesOK /\ GrantOK /\ MembersOK
    /\ CertsOK /\ FilesOK /\ RefusalsOK /\ AdmissionNotLost
-----------------------------------------------------------------------------
(* The list of actions *)

\* What a list that fits together is like.
LEMMA ListFacts ==
    /\ Positions = 1..Len(ConvergeState) /\ Len(ConvergeState) \in Nat /\ End = Len(ConvergeState) + 1
    /\ G \in Certs /\ G \in APIs /\ Certs \subseteq APIs
    /\ \A p \in Positions :
          /\ Kind[p] \in {"request", "keygen", "bootstrap"} => Subject[p] \in Certs
          /\ Kind[p] = "bootstrap" => Subject[p] = G
          /\ Kind[p] = "download" => Subject[p] \in Downloads /\ Subject[p] \notin Certs
          /\ Kind[p] = "download" /\ Subject[p] \notin OpenFiles => Subject[p] \in APIs
    /\ \A c \in Certs : \E p \in Positions : Kind[p] = "request" /\ Subject[p] = c
    /\ \A d \in Downloads : \E p \in Positions : Kind[p] = "download" /\ Subject[p] = d
    /\ LocalConf \in Downloads /\ LocalConf # G
<1>1. /\ ConvergeState \in Seq(Kinds \X STRING) /\ G \in Certs
      /\ About(ConvergeState, "keygen") \subseteq Certs
      /\ About(ConvergeState, "bootstrap") \subseteq {G}
      /\ LocalConf \in Downloads /\ Certs \cap Downloads = {}
  BY ConvergeAssumption DEF FitsTogether, Certs, Downloads
<1>2. Positions = 1..Len(ConvergeState) /\ Len(ConvergeState) \in Nat /\ End = Len(ConvergeState) + 1
  BY <1>1 DEF Positions, End
<1>3. ASSUME NEW p \in Positions, NEW kind, Kind[p] = kind
      PROVE  Subject[p] \in About(ConvergeState, kind)
  BY <1>3 DEF Positions, Kind, Subject, About
<1>4. ASSUME NEW kind, NEW name \in About(ConvergeState, kind)
      PROVE  \E p \in Positions : Kind[p] = kind /\ Subject[p] = name
  BY <1>4 DEF Positions, Kind, Subject, About
<1>5. /\ \A p \in Positions :
          /\ Kind[p] = "request" => Subject[p] \in Certs
          /\ Kind[p] = "keygen" => Subject[p] \in Certs
          /\ Kind[p] = "bootstrap" => Subject[p] = G
          /\ Kind[p] = "download" => Subject[p] \in Downloads
  BY <1>1, <1>3 DEF Certs, Downloads
<1>6. \A c \in Certs : \E p \in Positions : Kind[p] = "request" /\ Subject[p] = c
  BY <1>4 DEF Certs
<1>7. \A d \in Downloads : \E p \in Positions : Kind[p] = "download" /\ Subject[p] = d
  BY <1>4 DEF Downloads
<1> QED
  BY <1>1, <1>2, <1>5, <1>6, <1>7 DEF APIs, G, LocalConf

\* Which actions have run after a step.
LEMMA PassedNext == ASSUME NEW kind, NEW name PROVE
    /\ pos' = pos => (Passed(kind, name)' <=> Passed(kind, name))
    /\ pos \in Positions /\ pos' = pos + 1 =>
         (Passed(kind, name)' <=> Passed(kind, name) \/ (Kind[pos] = kind /\ Subject[pos] = name))
  BY ListFacts DEF Passed
-----------------------------------------------------------------------------
(* Types *)

\* Flags are only set to TRUE and FALSE.
LEMMA FlagsTyped ==
    ASSUME TypeOK, [Next]_vars
    PROVE  /\ up' \in BOOLEAN /\ performed' \in BOOLEAN /\ blocked' \in BOOLEAN
           /\ wasStabilized' \in BOOLEAN /\ good' \in BOOLEAN /\ ready' \in BOOLEAN
<1> DEFINE Set(old, new) == new = old \/ new = TRUE \/ new = FALSE
<1>1. CASE Act
  <2>1. UNCHANGED up /\ Set(performed, performed') /\ Set(blocked, blocked')
    BY <1>1 DEF Act, GenerateKey, CreateFile, Bootstrap, SendToken, RemoveToken, Request,
       RequestFails,
       TruncateCert, CloseCert, Download, TruncateFile, CloseFile, ReloadHostname, StartPass, EndPass,
       Goto, Done, Skip, NotifyPerformed, Blocked, environment, disk
  <2>2. good' \in {good, FALSE, up} /\ (UNCHANGED <<wasStabilized, ready>> \/ EndPass)
    BY <1>1 DEF Act, GenerateKey, CreateFile, Bootstrap, SendToken, RemoveToken, Request,
       RequestFails,
       TruncateCert, CloseCert, Download, TruncateFile, CloseFile, ReloadHostname, StartPass, EndPass,
       Fault, NoFault, loop
  <2>3. EndPass => Set(ready, ready') /\ Set(wasStabilized, wasStabilized')
    <3>1. EndPass => /\ wasStabilized' = ~performed
                     /\ ready' = ready \/ ready' = (ready \/ Notifies)
      BY DEF EndPass
    <3> QED
      BY <3>1 DEF TypeOK, Notifies
  <2> QED
    BY <2>1, <2>2, <2>3 DEF TypeOK
<1>2. CASE Crash \/ StartTimeout
  BY <1>2, Zenon DEF Crash, StartTimeout, StartAgain, Fault, environment, disk, TypeOK
<1>3. CASE Outage \/ Recover \/ PlaceToken \/ ExpireToken \/ Tick \/ UNCHANGED vars
  <2>1. /\ Set(up, up') /\ UNCHANGED <<performed, blocked, wasStabilized, ready>>
        /\ Set(good, good')
    BY <1>3 DEF Outage, Recover, PlaceToken, ExpireToken, Tick, vars, environment, disk, turn,
       loop, Fault, NoFault
  <2> QED
    BY <2>1 DEF TypeOK
<1> QED
  BY <1>1, <1>2, <1>3 DEF Next


\* An action of the list at its next step, or the next action.
Turns ==
    /\ pos \in Positions
    /\ \/ pos' = pos /\ stage' \in {"remove", "write", "close"} /\ reply' \in Nat \cup {Absent}
       \/ pos' = pos + 1 /\ stage' = "act" /\ reply' = Absent
    /\ faults' \in {faults, faults + 1}
    /\ UNCHANGED <<now, lastGood, placed, began>>

\* Every step of an action of the list is one of these.
LEMMA ActionTurns ==
    ASSUME TypeOK, Act, ~StartPass, ~EndPass
    PROVE  Turns
<1> USE DEF Turns, TypeOK, Goto, Done, Skip, NotifyPerformed, Blocked, At, Doing, Fault, NoFault,
   environment, loop
<1>1. CASE GenerateKey \/ CreateFile
  BY <1>1 DEF GenerateKey, CreateFile
<1>2. CASE Bootstrap \/ RemoveToken
  <2>1. Life[G] \in Nat
    BY ListFacts, ConstantsAssumption
  <2> QED
    BY <1>2, <2>1 DEF Bootstrap, SendToken, RemoveToken
<1>3. CASE Request
  <2>1. Life[Name] \in Nat
    BY <1>3, ListFacts, ConstantsAssumption DEF Request, Name
  <2> QED
    BY <1>3, <2>1 DEF Request, RequestFails
<1>4. CASE TruncateCert \/ CloseCert
  BY <1>4 DEF TruncateCert, CloseCert
<1>5. CASE Download \/ TruncateFile \/ CloseFile \/ ReloadHostname
  BY <1>5 DEF Download, TruncateFile, CloseFile, ReloadHostname, RequestFails
<1> QED
  BY <1>1, <1>2, <1>3, <1>4, <1>5 DEF Act

\* The types of files and memory.
Texts == {"none", "cut", "name", "whole"}
Typed(t, k, c, f, h, g, retry, ref) ==
    /\ t \in {"none", "live", "spent"}
    /\ k \in [Certs -> {"absent", "torn", "ok"}]
    /\ c \in [Certs -> Nat \cup {Absent, Malformed}]
    /\ f \in [Downloads -> [at : Nat \cup {Absent}, text : Texts]]
    /\ h \in {"other", "cut", "right"}
    /\ g \in Nat \cup {Absent}
    /\ retry \in [APIs -> Nat \cup {Absent}] /\ ref \in [APIs -> Nat \cup {Absent}]
TypeRest == Typed(token, key, cert, file, hostname, Keygrant, RetryAt, refused)

\* Every step keeps the types of files and memory.
LEMMA RestTyped ==
    ASSUME TypeOK, StageOK, [Next]_vars PROVE TypeRest'
<1>0. TypeRest
  BY DEF TypeOK, TypeRest, Typed, Texts
<1> USE <1>0 DEF TypeRest, Typed
<1>1. CASE GenerateKey \/ CreateFile
  BY <1>1 DEF GenerateKey, CreateFile, memory
<1>2. CASE Bootstrap \/ RemoveToken
  BY <1>2 DEF Bootstrap, RemoveToken, SendToken, memory
<1>3. CASE Request
  <2>1. RetryAt' = RetryAt /\ UNCHANGED <<disk, Keygrant>>
    BY <1>3 DEF Request, RequestFails, memory
  <2>2. \/ refused' = refused \/ refused' = [refused EXCEPT ![Name] = now]
    BY <1>3 DEF Request, RequestFails, memory
  <2>3. now \in Nat
    BY DEF TypeOK
  <2> QED
    BY <2>1, <2>2, <2>3 DEF disk
<1>4. CASE TruncateCert \/ CloseCert
  <2>1. \/ cert' = cert \/ cert' = [cert EXCEPT ![Name] = Malformed]
        \/ cert' = [cert EXCEPT ![Name] = reply]
    BY <1>4 DEF TruncateCert, CloseCert
  <2>2. Keygrant' \in {Keygrant, reply} /\ UNCHANGED <<token, key, file, hostname, RetryAt, refused>>
    BY <1>4 DEF TruncateCert, CloseCert, memory
  <2>3. reply \in Nat \cup {Absent}
    BY DEF TypeOK
  <2> QED
    BY <2>1, <2>2, <2>3
<1>5. CASE Download
  <2>1. UNCHANGED <<disk, Keygrant>>
    BY <1>5 DEF Download, RequestFails, memory
  <2>2. \/ RetryAt' = RetryAt \/ RetryAt' = [RetryAt EXCEPT ![Name] = now + RetryAfter]
    BY <1>5 DEF Download, RequestFails, memory
  <2>3. \/ refused' = refused \/ refused' = [refused EXCEPT ![Name] = now]
    BY <1>5 DEF Download, RequestFails, memory
  <2>4. now \in Nat /\ now + RetryAfter \in Nat
    BY ConstantsAssumption DEF TypeOK
  <2> QED
    BY <2>1, <2>2, <2>3, <2>4 DEF disk
<1>6. CASE TruncateFile \/ CloseFile
  <2>1. PICK t \in Texts : file' = file \/ file' = [file EXCEPT ![Name] = [at |-> now, text |-> t]]
    BY <1>6 DEF TruncateFile, CloseFile, Tears, Texts
  <2>2. UNCHANGED <<token, key, cert, hostname, memory>>
    BY <1>6 DEF TruncateFile, CloseFile
  <2>3. now \in Nat
    BY DEF TypeOK
  <2>4. file' \in [Downloads -> [at : Nat \cup {Absent}, text : Texts]]
    BY <2>1, <2>3
  <2> QED
    BY <2>2, <2>4 DEF memory
<1>7. CASE ReloadHostname \/ StartPass \/ EndPass \/ Outage \/ Recover \/ Tick \/ UNCHANGED vars
  BY <1>7 DEF ReloadHostname, HostNode, StartPass, EndPass, Outage, Recover, Tick, vars, disk, memory
<1>8. CASE Crash \/ StartTimeout
  <2>1. /\ UNCHANGED disk /\ RetryAt' = [a \in APIs |-> Absent] /\ refused' = [a \in APIs |-> Absent]
        /\ Keygrant' = Absent \/ (Keygrant' = cert[G] /\ cert[G] >= 0)
    BY <1>8 DEF Crash, StartTimeout, StartAgain, GrantingCert
  <2>2. Keygrant' \in Nat \cup {Absent}
    BY <2>1, ListFacts DEF Absent, Malformed
  <2> QED
    BY <2>1, <2>2 DEF disk
<1>9. CASE PlaceToken \/ ExpireToken
  BY <1>9 DEF PlaceToken, ExpireToken, memory
<1> QED
  BY <1>1, <1>2, <1>3, <1>4, <1>5, <1>6, <1>7, <1>8, <1>9 DEF Next, Act

\* Every step keeps the types.
LEMMA TypeNext == ASSUME TypeOK, StageOK, [Next]_vars PROVE TypeOK'
<1> DEFINE Clock == /\ now' \in Nat /\ lastGood' \in 0..now' /\ faults' \in Nat /\ placed' \in Nat
                    /\ pos' \in 0..End /\ stage' \in {"act", "remove", "write", "close"}
                    /\ reply' \in Nat \cup {Absent} /\ began' \in 0..now'
<1>1. CASE Act /\ ~StartPass /\ ~EndPass
  <2>1. Turns
    BY <1>1, ActionTurns
  <2>2. Clock
    BY <2>1, ListFacts DEF Turns, TypeOK
  <2> QED
    BY <2>2, FlagsTyped, RestTyped DEF TypeOK, TypeRest, Typed, Texts
<1>2. CASE StartPass \/ EndPass
  <2>1. Clock
    <3>1. /\ UNCHANGED <<now, placed, stage, reply>> /\ pos' \in {0, 1} /\ faults' \in {faults, faults + 1}
          /\ lastGood' \in {lastGood, began} /\ began' \in {now, began}
      BY <1>2 DEF StartPass, EndPass, Fault, NoFault, environment
    <3> QED
      BY <3>1, ListFacts DEF TypeOK
  <2> QED
    BY <2>1, FlagsTyped, RestTyped DEF TypeOK, TypeRest, Typed, Texts
<1>3. CASE Crash \/ StartTimeout
  <2>1. Clock
    <3>1. /\ UNCHANGED <<now, placed, lastGood, began>> /\ faults' \in {faults, faults + 1}
          /\ pos' = 0 /\ stage' = "act" /\ reply' = Absent
      BY <1>3 DEF Crash, StartTimeout, StartAgain, environment, Fault
    <3> QED
      BY <3>1, ListFacts DEF TypeOK
  <2> QED
    BY <2>1, FlagsTyped, RestTyped DEF TypeOK, TypeRest, Typed, Texts
<1>4. CASE Outage \/ Recover \/ PlaceToken \/ ExpireToken \/ Tick \/ UNCHANGED vars
  <2>1. /\ now' \in {now, now + 1} /\ placed' \in {placed, placed + 1} /\ faults' \in {faults, faults + 1}
        /\ UNCHANGED <<lastGood, began, pos, stage, reply>>
    BY <1>4 DEF Outage, Recover, PlaceToken, ExpireToken, Tick, vars, environment, turn, loop,
       Fault, NoFault
  <2>2. Clock
    BY <2>1 DEF TypeOK
  <2> QED
    BY <2>2, FlagsTyped, RestTyped DEF TypeOK, TypeRest, Typed, Texts
<1> QED
  BY <1>1, <1>2, <1>3, <1>4 DEF Next
-----------------------------------------------------------------------------
(* Steps *)

\* Certificates and the keygranting certificate stay as they are, and a request that
\* ends in an undisturbed pass has left them good for its margin.
LEMMA CertsStay ==
    ASSUME TypeOK, GrantOK, MembersOK, CertsOK,
           UNCHANGED <<cert, Keygrant, lastGood, began>>, faults' \in {faults, faults + 1}, good' => good,
           pos' = pos \/ (pos \in Positions /\ pos' = pos + 1),
           stage = "close" /\ Name = G /\ faults' = 0 => UNCHANGED <<pos, stage>>,
           good' /\ pos' = pos + 1 /\ Kind[pos] = "request" =>
               /\ Fresh(Name, began)
               /\ Name = G /\ Keygrant # Absent => Keygrant >= began + InAdvance[G]
    PROVE  GrantOK' /\ MembersOK' /\ CertsOK'
<1>1. ASSUME NEW c \in Certs, good', Passed("request", c)'
      PROVE  Passed("request", c) \/ (pos' = pos + 1 /\ Kind[pos] = "request" /\ Name = c)
  BY <1>1, PassedNext DEF Name
<1>2. GrantOK'
  BY <1>1, ListFacts DEF GrantOK
<1>3. MembersOK'
  BY DEF MembersOK, Name, TypeOK
<1>4. \A c \in Certs, t \in {lastGood, began} : Fresh(c, t) => Fresh(c, t)'
  BY DEF Fresh, Unadmitted, TypeOK
<1>5. CertsOK'
  BY <1>1, <1>4 DEF CertsOK
<1> QED
  BY <1>2, <1>3, <1>5

\* The same for downloads, which are to be whole or recent.
LEMMA FilesStay ==
    ASSUME FilesOK, UNCHANGED <<file, Keygrant, lastGood, began>>, good' => good,
           pos' = pos \/ (pos \in Positions /\ pos' = pos + 1),
           good' /\ pos' = pos + 1 /\ Kind[pos] = "download" /\ Name \in Intended \cup OpenFiles =>
               Due(Name, began)
    PROVE  FilesOK'
<1>1. ASSUME NEW d \in Downloads, good', Passed("download", d)'
      PROVE  Passed("download", d) \/ (pos' = pos + 1 /\ Kind[pos] = "download" /\ Name = d)
  BY <1>1, PassedNext DEF Name
<1>2. \A d \in Downloads, t \in {lastGood, began} : Due(d, t) => Due(d, t)'
  BY DEF Due, Torn, Unadmitted
<1> QED
  BY <1>1, <1>2 DEF FilesOK

\* The keyclient's own certificate has not expired.
LEMMA KeygrantValid == ASSUME TypeOK, TimesOK, GrantOK, Keygrant # Absent PROVE now <= Keygrant
  BY ListFacts, ConstantsAssumption DEF TypeOK, TimesOK, GrantOK

\* What an undisturbed pass is to achieve for a certificate.
Kept == /\ Fresh(Name, began)
        /\ Name = G /\ Keygrant # Absent => Keygrant >= began + InAdvance[G]

\* A request that ends in an undisturbed pass was not needed or not possible.
LEMMA RequestEnds ==
    ASSUME IInv, Request, good, good', pos' # pos
    PROVE  Kept
<1>1. /\ pos \in Positions /\ Kind[pos] = "request" /\ Name \in Certs /\ up
      /\ RetryAt[Name] = Absent /\ CanRetry(Name)
  BY ListFacts DEF Request, At, Doing, Name, IInv, TimesOK, RetriesOK, CanRetry
<1>2. /\ now \in Nat /\ began \in 0..now /\ cert[Name] \in Nat \cup {Absent, Malformed} /\ InAdvance[Name] \in Nat
      /\ Keygrant \in Nat \cup {Absent} /\ faults \in Nat
  BY <1>1, ConstantsAssumption DEF IInv, TypeOK
<1>3. CASE ~NeedsRequest(Name)
  <2>1. cert[Name] >= 0 /\ now < cert[Name] - InAdvance[Name]
    BY <1>1, <1>2, <1>3 DEF NeedsRequest, shouldRegenerate, Absent, Malformed
  <2>2. cert[Name] >= began + InAdvance[Name]
    BY <1>2, <2>1 DEF Absent, Malformed
  <2> QED
    BY <1>1, <2>1, <2>2 DEF Kept, Fresh, IInv, GrantOK
<1>4. CASE Keygrant = Absent
  BY <1>1, <1>2, <1>4 DEF Kept, Fresh, Unadmitted, IInv, MembersOK
<1>5. CASE NeedsRequest(Name) /\ Keygrant # Absent
  <2>1. now <= Keygrant
    BY <1>5, KeygrantValid DEF IInv
  <2>2. key[Name] # "ok" \/ Name \notin Intended
    BY <1>1, <1>5, <2>1 DEF Request, RequestFails, Accepted, Goto, Fault
  <2>3. ~(cert[Name] >= 0) /\ Name # G
    BY <1>1, <1>5, <2>2, ConstantsAssumption DEF IInv, KeysOK
  <2> QED
    BY <2>3 DEF Kept, Fresh
<1> QED
  BY <1>3, <1>4, <1>5

\* The same for a download.
LEMMA DownloadEnds ==
    ASSUME IInv, Download, good, good', pos' # pos, Name \in Intended \cup OpenFiles
    PROVE  Due(Name, began)
<1>1. /\ pos \in Positions /\ Kind[pos] = "download" /\ Name \in Downloads /\ up
      /\ Name \notin OpenFiles => RetryAt[Name] = Absent /\ CanRetry(Name) /\ Name \in Intended
  BY ListFacts DEF Download, At, Doing, Name, IInv, TimesOK, RetriesOK, CanRetry
<1>2. now \in Nat /\ began \in 0..now /\ file[Name].at \in Nat \cup {Absent} /\ Refresh[Name] \in Nat
  BY <1>1, ConstantsAssumption DEF IInv, TypeOK
<1>3. CASE ~needsRefresh(Name)
  BY <1>2, <1>3 DEF needsRefresh, Due, Torn, Absent
<1>4. CASE needsRefresh(Name) /\ Keygrant = Absent /\ Name \notin OpenFiles
  BY <1>4 DEF Due, Unadmitted
<1>5. CASE needsRefresh(Name) /\ (Keygrant # Absent \/ Name \in OpenFiles)
  <2>1. Keygrant # Absent => now <= Keygrant
    BY KeygrantValid DEF IInv
  <2> QED
    BY <1>1, <1>5, <2>1 DEF Download, RequestFails, Accepted, Goto
<1> QED
  BY <1>3, <1>4, <1>5

\* An action ends, or stays at its stage.
LEMMA StageStays ==
    ASSUME StageOK,
           \/ stage' = "act" /\ reply' = Absent
           \/ UNCHANGED <<pos, stage, reply, began, key, Keygrant>>
    PROVE  StageOK'
  BY DEF StageOK, At, Doing, Name

\* The keys that are needed stay.
LEMMA KeysStay == ASSUME KeysOK, UNCHANGED <<key, cert, Keygrant>> PROVE KeysOK'
  BY DEF KeysOK

\* Neither the clock nor the keyserver changes within an action of the list.
LEMMA TimesStay ==
    ASSUME TimesOK, UNCHANGED <<now, up, lastGood, began>>, good' => good PROVE TimesOK'
  BY DEF TimesOK

\* What the keyclient was refused stays.
LEMMA RefusalsStay == ASSUME RetriesOK, RefusalsOK, UNCHANGED <<RetryAt, refused>>
                      PROVE  RetriesOK' /\ RefusalsOK'
  BY DEF RetriesOK, RefusalsOK

\* Every step of the creation of a key keeps the invariant.
LEMMA KeygenStep == ASSUME IInv, GenerateKey \/ CreateFile, TypeOK' PROVE IInv'
<1> USE DEF IInv
<1>1. /\ pos \in Positions /\ Kind[pos] = "keygen" /\ Name \in Certs /\ stage # "close"
      /\ UNCHANGED <<environment, token, cert, file, memory, loop>>
      /\ good' => good
  BY ListFacts DEF GenerateKey, CreateFile, At, Doing, Name, Fault, NoFault
<1>2. /\ pos' = pos + 1 \/ pos' = pos
      /\ faults' \in {faults, faults + 1}
  BY DEF GenerateKey, CreateFile, Goto, Done, Skip, NotifyPerformed, Fault, NoFault
<1>3. GrantOK' /\ MembersOK' /\ CertsOK' /\ FilesOK'
  BY <1>1, <1>2, CertsStay, FilesStay DEF environment, memory, loop
<1>4. TimesOK' /\ RetriesOK' /\ RefusalsOK'
  BY <1>1, TimesStay, RefusalsStay DEF environment, memory, loop
<1>5. StageOK'
  <2>1. CASE stage' = "act" /\ reply' = Absent
    BY <2>1, StageStays
  <2>2. CASE Goto("write", Absent) /\ key' = [key EXCEPT ![Name] = "torn"]
    BY <1>1, <2>2 DEF Goto, At, Doing, Name, TypeOK, StageOK
  <2> QED
    BY <2>1, <2>2 DEF GenerateKey, CreateFile, Done, Skip, NotifyPerformed
<1>6. KeysOK'
  <2>1. key[Name] # "ok" \/ key' = key
    BY DEF GenerateKey, CreateFile, StageOK
  <2>2. \A c \in Certs : key[c] = "ok" => key'[c] = "ok"
    BY <1>1, <2>1 DEF GenerateKey, CreateFile, TypeOK
  <2> QED
    BY <1>1, <2>2, ListFacts DEF KeysOK, memory
<1>7. AdmissionNotLost'
  BY <1>1 DEF GenerateKey, CreateFile, At, Doing, Fault, NoFault, TypeOK, AdmissionNotLost,
     StageOK, memory, environment
<1> QED
  BY <1>3, <1>4, <1>5, <1>6, <1>7

\* So does every step of the bootstrap but for the write, ...
LEMMA BootstrapStep == ASSUME IInv, Bootstrap \/ RemoveToken, TypeOK' PROVE IInv'
<1> USE DEF IInv
<1>1. /\ pos \in Positions /\ Kind[pos] = "bootstrap" /\ Name = G /\ stage # "close"
      /\ UNCHANGED <<environment, key, cert, file, memory, loop>>
      /\ good' => good
  BY ListFacts DEF Bootstrap, SendToken, RemoveToken, At, Doing, Name, Fault, NoFault
<1>2. /\ pos' = pos + 1 \/ pos' = pos
      /\ faults' \in {faults, faults + 1}
  BY DEF Bootstrap, SendToken, RemoveToken, Goto, Done, Skip, Blocked, Fault, NoFault
<1>3. GrantOK' /\ MembersOK' /\ CertsOK' /\ FilesOK'
  BY <1>1, <1>2, CertsStay, FilesStay DEF environment, memory, loop
<1>4. TimesOK' /\ RetriesOK' /\ RefusalsOK' /\ KeysOK'
  BY <1>1, TimesStay, RefusalsStay, KeysStay DEF environment, memory, loop
<1>5. StageOK'
  <2>1. CASE stage' = "act" /\ reply' = Absent
    BY <2>1, StageStays
  <2>2. CASE Bootstrap /\ Goto("remove", now + Life[G])
    <3>1. key[G] = "ok"
      BY <2>2 DEF Bootstrap, Goto, Done, Skip, Blocked, TypeOK
    <3>2. reply' \in Nat /\ reply' >= began + Life[G] /\ reply' # Absent
      <4>1. Life[G] \in Nat /\ now \in Nat /\ began \in 0..now
        BY ListFacts, ConstantsAssumption DEF TypeOK
      <4> QED
        BY <2>2, <4>1 DEF Goto, Absent
    <3>3. pos' = pos /\ stage' = "remove" /\ began' = began /\ key' = key
      BY <1>1, <2>2 DEF Goto, loop
    <3> QED
      BY <1>1, <3>1, <3>2, <3>3, ConstantsAssumption DEF At, Doing, Name, StageOK
  <2>3. CASE RemoveToken /\ Goto("write", reply)
    BY <1>1, <2>3 DEF RemoveToken, Goto, At, Doing, Name, StageOK, memory, loop
  <2> QED
    BY <2>1, <2>2, <2>3 DEF Bootstrap, SendToken, RemoveToken, Done, Skip, Blocked
<1>6. AdmissionNotLost'
  <2>1. CASE Bootstrap
    BY <1>1, <2>1, ListFacts, ConstantsAssumption
    DEF Bootstrap, SendToken, NeedsBootstrap, At, Doing, Name, Goto, Done, Skip, Blocked, Fault,
       NoFault,
        TypeOK, AdmissionNotLost, StageOK, memory, environment, Absent
  <2>2. CASE RemoveToken
    BY <1>1, <2>2
    DEF RemoveToken, At, Doing, Goto, Done, Skip, Fault, NoFault, TypeOK, AdmissionNotLost,
       StageOK, memory, environment
  <2> QED
    BY <2>1, <2>2
<1> QED
  BY <1>3, <1>4, <1>5, <1>6

\* ... the request of a certificate, ...
LEMMA RequestStep == ASSUME IInv, Request, TypeOK' PROVE IInv'
<1> USE DEF IInv
<1>1. /\ At("request", "act") /\ pos \in Positions /\ Kind[pos] = "request" /\ Name \in Certs
      /\ UNCHANGED <<environment, disk, loop, Keygrant, RetryAt>>
      /\ refused' = refused \/ refused' = [refused EXCEPT ![Name] = now]
  BY ListFacts DEF Request, RequestFails, At, Doing, Name, memory
<1>2. /\ \/ pos' = pos + 1 /\ stage' = "act" /\ reply' = Absent
         \/ /\ pos' = pos /\ stage' = "write" /\ reply' = now + Life[Name]
            /\ key[Name] = "ok" /\ Keygrant # Absent /\ Name \in Intended
      /\ faults' \in {faults, faults + 1} /\ (good' => good)
  BY DEF Request, RequestFails, Accepted, Goto, Done, Skip, Blocked, Fault, NoFault
<1>3. GrantOK' /\ MembersOK' /\ CertsOK'
  <2>1. good' /\ pos' = pos + 1 => Kept
    <3>1. pos \in Nat
      BY DEF TypeOK
    <3> QED
      BY <1>2, <3>1, RequestEnds
  <2> QED
    BY <1>1, <1>2, <2>1, CertsStay DEF At, Kept, environment, disk, loop
<1>4. FilesOK'
  BY <1>1, <1>2, FilesStay DEF environment, disk, loop
<1>5. TimesOK' /\ KeysOK'
  BY <1>1, <1>2, TimesStay, KeysStay DEF environment, disk, loop
<1>6. RetriesOK' /\ RefusalsOK'
  BY <1>1 DEF RetriesOK, RefusalsOK, TypeOK
<1>7. StageOK'
  BY <1>1, <1>2, ConstantsAssumption DEF StageOK, At, Doing, Name, TypeOK, disk, loop, Absent
<1>8. AdmissionNotLost'
  BY <1>1, <1>2 DEF AdmissionNotLost, At, Doing, Name, TypeOK, StageOK, disk, environment
<1> QED
  BY <1>3, <1>4, <1>5, <1>6, <1>7, <1>8

\* ... the beginning of the write of a certificate, ...
LEMMA TruncateCertStep == ASSUME IInv, TruncateCert, TypeOK' PROVE IInv'
<1> USE DEF IInv
<1>1. /\ pos \in Positions /\ Kind[pos] \in {"request", "bootstrap"} /\ Name \in Certs /\ stage = "write"
      /\ UNCHANGED <<environment, token, key, file, memory, loop>>
  BY ListFacts DEF TruncateCert, At, Doing, Name
<1>2. \/ /\ cert' = [cert EXCEPT ![Name] = Malformed] /\ pos' = pos /\ stage' = "close" /\ reply' = reply
         /\ UNCHANGED <<faults, good>>
      \/ /\ cert' = cert /\ pos' = pos + 1 /\ stage' = "act" /\ reply' = Absent
         /\ faults' = faults + 1 /\ good' = FALSE
  BY DEF TruncateCert, Goto, Done, Skip, Fault, NoFault
<1>3. \A c \in Certs : cert'[c] >= 0 => cert'[c] = cert[c]
  BY <1>1, <1>2 DEF TypeOK, Malformed
<1>4. good' => good /\ pos' = pos
  BY <1>2
<1>5. ASSUME NEW kind, NEW name, good' PROVE Passed(kind, name)' => Passed(kind, name)
  BY <1>4, <1>5, PassedNext
<1>6. GrantOK'
  BY <1>1, <1>3, <1>4, <1>5, ListFacts DEF GrantOK, environment, memory, loop
<1>7. MembersOK'
  <2>1. cert'[G] = cert[G] \/ (Name = G /\ stage' = "close" /\ pos' = pos)
    BY <1>1, <1>2, ListFacts DEF TypeOK
  <2>2. CASE faults' = 0
    <3>1. faults = 0 /\ stage # "close"
      BY <1>1, <1>2, <2>2 DEF TypeOK
    <3> QED
      BY <1>1, <1>3, <2>1, <3>1 DEF MembersOK, Name, memory
  <2> QED
    BY <2>2 DEF MembersOK
<1>8. CertsOK'
  <2>1. faults' > 0 \/ ~(faults > 0)
    BY <1>2 DEF TypeOK
  <2>2. \A c \in Certs, t \in {lastGood, began} : Fresh(c, t) => Fresh(c, t)'
    BY <1>1, <1>3, <2>1 DEF Fresh, Unadmitted, memory
  <2> QED
    BY <1>1, <1>4, <1>5, <2>2 DEF CertsOK, environment, loop
<1>9. FilesOK'
  BY <1>1, <1>2, FilesStay DEF environment, memory, loop
<1>10. TimesOK' /\ RetriesOK' /\ RefusalsOK'
  BY <1>1, <1>4, TimesStay, RefusalsStay DEF environment, memory, loop
<1>11. StageOK'
  BY <1>1, <1>2 DEF StageOK, At, Doing, Name, memory, loop
<1>12. KeysOK'
  BY <1>1, <1>3 DEF KeysOK, memory
<1>13. AdmissionNotLost'
  <2>1. Kind[pos] = "bootstrap" => reply # Absent
    BY <1>1 DEF StageOK, Doing
  <2>2. cert'[G] = cert[G] \/ (Name = G /\ stage' = "close" /\ pos' = pos)
    BY <1>1, <1>2, ListFacts DEF TypeOK
  <2>3. CASE faults' = 0
    BY <1>1, <1>2, <2>1, <2>2, <2>3 DEF AdmissionNotLost, Doing, Name, TypeOK, memory, environment
  <2> QED
    BY <2>3 DEF AdmissionNotLost
<1> QED
  BY <1>6, <1>7, <1>8, <1>9, <1>10, <1>11, <1>12, <1>13

\* ... its end, ...
LEMMA CloseCertStep == ASSUME IInv, CloseCert, TypeOK' PROVE IInv'
<1> USE DEF IInv
<1>1. /\ pos \in Positions /\ Kind[pos] \in {"request", "bootstrap"} /\ Name \in Certs /\ stage = "close"
      /\ Kind[pos] = "bootstrap" => Name = G
      /\ UNCHANGED <<environment, token, key, file, RetryAt, refused, loop>>
      /\ pos' = pos + 1 /\ stage' = "act" /\ reply' = Absent
  BY ListFacts DEF CloseCert, At, Doing, Name, Done, Skip, NotifyPerformed
<1>2. /\ reply # Absent /\ reply \in Nat /\ reply >= began + Life[Name] /\ key[Name] = "ok" /\ Name \in Intended
      /\ Kind[pos] = "request" => Keygrant # Absent
  BY <1>1 DEF StageOK, Doing, TypeOK
<1>3. TimesOK' /\ RetriesOK' /\ RefusalsOK' /\ StageOK'
  <2>1. good' => good
    BY DEF CloseCert, Fault, NoFault
  <2> QED
    BY <1>1, <2>1, TimesStay, RefusalsStay, StageStays DEF environment, loop
<1>4. CASE cert' = cert /\ Keygrant' = Keygrant /\ Fault
  <2>1. GrantOK' /\ MembersOK' /\ CertsOK' /\ FilesOK'
    <3>1. faults' # 0
      BY <1>4 DEF Fault, TypeOK
    <3> QED
      BY <1>1, <1>4, <3>1, CertsStay, FilesStay DEF Fault, environment, loop
  <2>2. KeysOK' /\ AdmissionNotLost'
    BY <1>1, <1>4, KeysStay DEF Fault, AdmissionNotLost, TypeOK
  <2> QED
    BY <1>3, <2>1, <2>2
<1>5. CASE /\ cert' = [cert EXCEPT ![Name] = reply] /\ NoFault
           /\ Keygrant' = IF Name = G THEN reply ELSE Keygrant
  <2>0. UNCHANGED <<faults, good, began, lastGood, key, file, now, placed, token>>
    BY <1>1, <1>5 DEF NoFault, loop, environment
  <2>1. \A c \in Certs : cert'[c] = IF c = Name THEN reply ELSE cert[c]
    BY <1>1, <1>5 DEF TypeOK
  <2>2. /\ Life[G] \in Nat /\ InAdvance[G] \in Nat /\ InAdvance[G] <= Life[G]
        /\ Life[Name] \in Nat /\ InAdvance[Name] \in Nat /\ InAdvance[Name] <= Life[Name]
        /\ lastGood \in Nat /\ began \in Nat /\ lastGood <= began /\ G \in Certs
    BY <1>1, ListFacts, ConstantsAssumption DEF TypeOK, TimesOK
  <2>3. /\ reply >= began + InAdvance[Name] /\ reply >= lastGood + InAdvance[Name]
        /\ Name = G => reply >= began + Life[G] /\ reply >= lastGood + Life[G]
                       /\ reply >= began + InAdvance[G] /\ reply >= lastGood + InAdvance[G]
    BY <1>2, <2>2
  <2>4. ASSUME NEW kind \in {"request", "download"}, NEW name, Passed(kind, name)'
        PROVE  Passed(kind, name) \/ (kind = "request" /\ Kind[pos] = "request" /\ name = Name)
    BY <1>1, <2>4, PassedNext DEF Name
  <2>5. \A t \in {lastGood, began} : Unadmitted(t) => Unadmitted(t)'
    BY <1>5, <2>3 DEF Unadmitted
  <2>6. GrantOK'
    <3>1. CASE Name = G
      BY <1>5, <2>0, <2>1, <2>2, <2>3, <3>1 DEF GrantOK
    <3>2. CASE Name # G
      BY <1>5, <2>0, <2>1, <2>2, <2>4, <3>2 DEF GrantOK
    <3> QED
      BY <3>1, <3>2
  <2>7. MembersOK'
    BY <1>1, <1>2, <1>5, <2>0, <2>1 DEF MembersOK
  <2>8. CertsOK'
    <3>1. \A c \in Certs, t \in {lastGood, began} : c = Name => Fresh(c, t)'
      BY <1>1, <2>0, <2>1, <2>3 DEF Fresh
    <3>2. \A c \in Certs \ {Name}, t \in {lastGood, began} : Fresh(c, t) => Fresh(c, t)'
      BY <2>0, <2>1, <2>5 DEF Fresh
    <3> QED
      BY <2>0, <2>4, <3>1, <3>2 DEF CertsOK
  <2>9. FilesOK'
    <3>1. \A d \in Downloads, t \in {lastGood, began} : Due(d, t) => Due(d, t)'
      BY <2>0, <2>5 DEF Due, Torn
    <3> QED
      BY <2>0, <2>4, <3>1 DEF FilesOK
  <2>10. KeysOK'
    BY <1>2, <1>5, <2>0, <2>1 DEF KeysOK
  <2>11. AdmissionNotLost'
    <3>1. CASE Name = G
      BY <1>2, <1>5, <2>1, <2>2, <3>1 DEF AdmissionNotLost
    <3>2. CASE Name # G
      BY <1>1, <1>5, <2>0, <2>1, <2>2, <3>2 DEF AdmissionNotLost, Doing
    <3> QED
      BY <3>1, <3>2
  <2> QED
    BY <1>3, <2>6, <2>7, <2>8, <2>9, <2>10, <2>11
<1> QED
  BY <1>4, <1>5 DEF CloseCert

\* ... the request of a download, ...
LEMMA DownloadStep == ASSUME IInv, Download, TypeOK' PROVE IInv'
<1> USE DEF IInv
<1>1. /\ stage = "act" /\ pos \in Positions /\ Kind[pos] = "download" /\ Name \in Downloads /\ Name \notin Certs
      /\ UNCHANGED <<environment, disk, loop, Keygrant>>
  BY ListFacts DEF Download, RequestFails, At, Doing, Name, memory
<1>2. /\ \/ pos' = pos + 1 /\ stage' = "act" /\ reply' = Absent
         \/ pos' = pos /\ stage' = "write" /\ reply' = Absent
      /\ UNCHANGED <<faults, good>>
  BY DEF Download, RequestFails, Goto, Done, Skip, Blocked, NoFault
<1>3. GrantOK' /\ MembersOK' /\ CertsOK'
  BY <1>1, <1>2, CertsStay DEF environment, disk, loop
<1>4. FilesOK'
  <2>1. pos \in Nat
    BY DEF TypeOK
  <2>2. good' /\ pos' = pos + 1 /\ Name \in Intended \cup OpenFiles => Due(Name, began)
    BY <1>2, <2>1, DownloadEnds
  <2> QED
    BY <1>1, <1>2, <2>2, FilesStay DEF environment, disk, loop
<1>5. TimesOK' /\ KeysOK'
  BY <1>1, <1>2, TimesStay, KeysStay DEF environment, disk, loop
<1>6. RetriesOK' /\ RefusalsOK'
  <2>1. CASE UNCHANGED <<RetryAt, refused>>
    BY <2>1, RefusalsStay
  <2>2. CASE ~UNCHANGED <<RetryAt, refused>>
    <3>1. /\ Name \in APIs /\ Name \notin Intended
          /\ RetryAt' = [RetryAt EXCEPT ![Name] = now + RetryAfter]
          /\ refused' = [refused EXCEPT ![Name] = now]
      BY <1>1, <2>2 DEF Download, RequestFails, Accepted, Forbidden, memory, APIs
    <3>2. now \in Nat /\ RetryAfter \in Nat
      BY ConstantsAssumption DEF TypeOK
    <3> QED
      BY <1>1, <3>1, <3>2 DEF RetriesOK, RefusalsOK, TypeOK, Absent
  <2> QED
    BY <2>1, <2>2
<1>7. StageOK'
  BY <1>1, <1>2 DEF StageOK, At, Doing, Name
<1>8. AdmissionNotLost'
  BY <1>1, <1>2 DEF AdmissionNotLost, Doing, StageOK, disk, environment
<1> QED
  BY <1>3, <1>4, <1>5, <1>6, <1>7, <1>8

\* ... the write of a download, which is as recent as can be then, ...
LEMMA WriteFileStep == ASSUME IInv, TruncateFile \/ CloseFile, TypeOK' PROVE IInv'
<1> USE DEF IInv
<1>1. /\ stage \in {"write", "close"} /\ pos \in Positions /\ Kind[pos] = "download"
      /\ Name \in Downloads /\ Name \notin Certs
      /\ UNCHANGED <<environment, token, key, cert, memory, loop>>
  BY ListFacts DEF TruncateFile, CloseFile, At, Doing, Name
<1>2. /\ \/ pos' = pos + 1 /\ stage' = "act" /\ reply' = Absent
         \/ pos' = pos /\ stage' = "close" /\ reply' = Absent
      /\ faults' \in {faults, faults + 1} /\ (good' => good)
  BY DEF TruncateFile, CloseFile, Goto, Done, Skip, NotifyPerformed, Fault, NoFault
<1>3. GrantOK' /\ MembersOK' /\ CertsOK'
  <2>1. Name # G
    BY <1>1, ListFacts
  <2> QED
    BY <1>1, <1>2, <2>1, CertsStay DEF environment, memory, loop
<1>4. FilesOK'
  <2>1. CASE file' = file /\ ~good'
    BY <1>1, <1>2, <2>1, FilesStay DEF environment, memory, loop
  <2>2. ASSUME NEW x \in Texts, file' = [file EXCEPT ![Name] = [at |-> now, text |-> x]]
        PROVE  FilesOK'
    <3>1. file'[Name].at = now /\ \A d \in Downloads : d # Name => file'[d] = file[d]
      BY <1>1, <2>2 DEF TypeOK
    <3>2. now \in Nat /\ lastGood \in 0..now /\ began \in 0..now /\ Refresh[Name] \in Nat
      BY <1>1, ConstantsAssumption DEF TypeOK
    <3>3. \A d \in Downloads, t \in {lastGood, began} : d = Name => Due(d, t)'
      BY <3>1, <3>2 DEF Due
    <3>4. \A d \in Downloads, t \in {lastGood, began} : d # Name /\ Due(d, t) => Due(d, t)'
      BY <1>1, <3>1 DEF Due, Torn, Unadmitted, memory
    <3>5. ASSUME NEW d \in Downloads, d # Name, Passed("download", d)' PROVE Passed("download", d)
      BY <1>1, <1>2, <3>5, PassedNext DEF Name
    <3> QED
      BY <1>1, <1>2, <3>3, <3>4, <3>5 DEF FilesOK, environment, loop
  <2> QED
    BY <2>1, <2>2 DEF TruncateFile, CloseFile, Fault, Tears, Texts
<1>5. TimesOK' /\ KeysOK' /\ RetriesOK' /\ RefusalsOK'
  BY <1>1, <1>2, TimesStay, KeysStay, RefusalsStay DEF environment, memory, loop
<1>6. StageOK'
  BY <1>1, <1>2 DEF StageOK, At, Doing, Name
<1>7. AdmissionNotLost'
  <2>1. Name # G
    BY <1>1, ListFacts
  <2> QED
    BY <1>1, <1>2, <2>1 DEF AdmissionNotLost, Doing, Name, memory, environment, TypeOK
<1> QED
  BY <1>3, <1>4, <1>5, <1>6, <1>7

\* ... the change of the hostname, ...
LEMMA HostnameStep == ASSUME IInv, ReloadHostname, TypeOK' PROVE IInv'
<1> USE DEF IInv
<1>1. /\ pos \in Positions /\ Kind[pos] = "hostname" /\ stage = "act"
      /\ pos' = pos + 1 /\ stage' = "act" /\ reply' = Absent
      /\ faults' \in {faults, faults + 1} /\ (good' => good)
      /\ UNCHANGED <<environment, token, key, cert, file, memory, loop>>
  BY DEF ReloadHostname, At, Doing, Done, Skip, NotifyPerformed, Blocked, Fault, NoFault
<1>2. GrantOK' /\ MembersOK' /\ CertsOK' /\ FilesOK'
  BY <1>1, CertsStay, FilesStay DEF environment, memory, loop
<1>3. TimesOK' /\ KeysOK' /\ RetriesOK' /\ RefusalsOK' /\ StageOK'
  BY <1>1, TimesStay, KeysStay, RefusalsStay, StageStays DEF environment, memory, loop
<1>4. AdmissionNotLost'
  BY <1>1 DEF AdmissionNotLost, Doing, memory, environment, TypeOK
<1> QED
  BY <1>2, <1>3, <1>4

\* A pass has gone through every action of the list when it ends.
LEMMA AllPassed ==
    ASSUME pos = End
    PROVE  /\ \A c \in Certs : Passed("request", c)
           /\ \A d \in Downloads : Passed("download", d)
  BY ListFacts DEF Passed

\* ... the beginning of a pass, when no action of it has run, and its end, ...
LEMMA PassStep == ASSUME IInv, StartPass \/ EndPass, TypeOK' PROVE IInv'
<1> USE DEF IInv
<1>1. CASE StartPass
  <2>1. ASSUME NEW kind, NEW name PROVE ~Passed(kind, name)'
    BY <1>1, ListFacts DEF StartPass, Passed
  <2>2. /\ UNCHANGED <<environment, faults, disk, memory, stage, reply>> /\ began' = now /\ good' = up
        /\ stage = "act" /\ reply = Absent /\ ~Doing("bootstrap")
    BY <1>1, ListFacts DEF StartPass, StageOK, Doing
  <2>3. GrantOK' /\ MembersOK'
    BY <2>1, <2>2 DEF GrantOK, MembersOK, environment, disk, memory
  <2>4. CertsOK'
    BY <2>1, <2>2 DEF CertsOK, Fresh, Unadmitted, environment, disk, memory
  <2>5. FilesOK'
    BY <2>1, <2>2 DEF FilesOK, Due, Torn, Unadmitted, environment, disk, memory
  <2>6. TimesOK'
    BY <2>2 DEF TimesOK, TypeOK, environment
  <2>7. KeysOK' /\ RetriesOK' /\ RefusalsOK' /\ StageOK'
    BY <2>2, KeysStay, RefusalsStay, StageStays DEF disk, memory
  <2>8. AdmissionNotLost'
    BY <2>2 DEF AdmissionNotLost, environment, disk, memory
  <2> QED
    BY <2>3, <2>4, <2>5, <2>6, <2>7, <2>8
<1>2. CASE EndPass
  <2>1. ASSUME NEW kind, NEW name PROVE ~Passed(kind, name)'
    BY <1>2, ListFacts DEF EndPass, Passed
  <2>2. /\ UNCHANGED <<now, up, placed, disk, memory, stage, reply, began>>
        /\ lastGood' = IF good THEN began ELSE lastGood
        /\ faults' \in {faults, faults + 1} /\ faults \in Nat /\ (good' => good)
        /\ stage = "act" /\ reply = Absent /\ ~Doing("bootstrap")
    BY <1>2, ListFacts DEF EndPass, Fault, NoFault, StageOK, Doing, TypeOK
  <2>3. /\ \A c \in Certs : Passed("request", c)
        /\ \A d \in Downloads : Passed("download", d)
    BY <1>2, AllPassed DEF EndPass
  <2>4. GrantOK' /\ MembersOK'
    BY <2>1, <2>2, <2>3, ListFacts DEF GrantOK, MembersOK, disk, memory
  <2>5. CertsOK'
    <3>1. \A c \in Certs, t \in {lastGood, began} : Fresh(c, t) => Fresh(c, t)'
      BY <2>2 DEF Fresh, Unadmitted, disk, memory
    <3> QED
      BY <2>1, <2>2, <2>3, <3>1 DEF CertsOK
  <2>6. FilesOK'
    <3>1. \A d \in Downloads, t \in {lastGood, began} : Due(d, t) => Due(d, t)'
      BY <2>2 DEF Due, Torn, Unadmitted, disk, memory
    <3> QED
      BY <2>1, <2>2, <2>3, <3>1 DEF FilesOK
  <2>7. TimesOK'
    BY <2>2, ConstantsAssumption DEF TimesOK, TypeOK
  <2>8. KeysOK' /\ RetriesOK' /\ RefusalsOK' /\ StageOK'
    BY <2>2, KeysStay, RefusalsStay, StageStays DEF disk, memory
  <2>9. AdmissionNotLost'
    BY <2>2 DEF AdmissionNotLost, disk, memory
  <2> QED
    BY <2>4, <2>5, <2>6, <2>7, <2>8, <2>9
<1> QED
  BY <1>1, <1>2

\* ... a new start, after which what is left of the keygranting certificate is
\* the one on the disk, ...
LEMMA StartStep == ASSUME IInv, Crash \/ StartTimeout, TypeOK' PROVE IInv'
<1> USE DEF IInv
<1>1. /\ UNCHANGED <<environment, disk, began>> /\ good' = FALSE /\ faults \in Nat
      /\ pos' = 0 /\ stage' = "act" /\ reply' = Absent
      /\ RetryAt' = [a \in APIs |-> Absent] /\ refused' = [a \in APIs |-> Absent]
  BY DEF Crash, StartTimeout, StartAgain, Fault, TypeOK
<1>2. Keygrant' = Absent \/ (Keygrant' = Keygrant /\ cert[G] = Keygrant /\ key[G] = "ok")
  BY ListFacts DEF Crash, StartTimeout, StartAgain, GrantingCert, GrantOK
<1>3. cert[G] >= 0 => Keygrant' = cert[G]
  BY ListFacts DEF Crash, StartTimeout, StartAgain, GrantingCert, GrantOK, KeysOK
<1>4. \/ faults' = faults + 1
      \/ /\ faults' = faults /\ stage = "act" /\ ~Doing("bootstrap")
         /\ faults = 0 => Keygrant' = Keygrant /\ (Keygrant # Absent => cert[G] = Keygrant)
  <2>1. CASE Crash
    BY <2>1 DEF Crash, Fault
  <2>2. CASE StartTimeout
    <3>1. faults' = faults /\ stage = "act" /\ ~Doing("bootstrap")
      BY <2>2, ListFacts DEF StartTimeout, StageOK, Doing
    <3>2. faults = 0 /\ Keygrant # Absent => cert[G] = Keygrant
      BY <3>1 DEF MembersOK
    <3>3. Keygrant # Absent /\ cert[G] = Keygrant => Keygrant' = Keygrant
      BY <1>3 DEF TypeOK, Absent
    <3> QED
      BY <1>2, <3>1, <3>2, <3>3
  <2> QED
    BY <2>1, <2>2
<1>5. GrantOK'
  BY <1>1, <1>2, <1>3 DEF GrantOK, environment, disk
<1>6. MembersOK'
  BY <1>1, <1>4 DEF MembersOK, disk
<1>7. CertsOK'
  BY <1>1, <1>2, <1>4 DEF CertsOK, Fresh, Unadmitted, environment, disk
<1>8. FilesOK'
  BY <1>1, <1>2 DEF FilesOK, Due, Torn, Unadmitted, environment, disk
<1>9. TimesOK' /\ RetriesOK' /\ RefusalsOK' /\ StageOK'
  BY <1>1, StageStays DEF TimesOK, RetriesOK, RefusalsOK, environment
<1>10. KeysOK' /\ AdmissionNotLost'
  BY <1>1, <1>2, <1>4 DEF KeysOK, AdmissionNotLost, environment, disk
<1> QED
  BY <1>5, <1>6, <1>7, <1>8, <1>9, <1>10

\* ... and every step of the environment.
LEMMA EnvironmentStep ==
    ASSUME IInv, Outage \/ Recover \/ PlaceToken \/ ExpireToken \/ Tick \/ UNCHANGED vars, TypeOK'
    PROVE  IInv'
<1> USE DEF IInv
<1>1. /\ UNCHANGED <<lastGood, key, cert, file, memory, pos, stage, reply, began>>
      /\ faults' \in {faults, faults + 1} /\ (good' => good)
  BY DEF Outage, Recover, PlaceToken, ExpireToken, Tick, vars, environment, disk, memory, turn,
     loop, Fault, NoFault
<1>2. GrantOK' /\ MembersOK' /\ CertsOK' /\ FilesOK'
  <2>1. pos \in Nat
    BY DEF TypeOK
  <2> QED
    BY <1>1, <2>1, CertsStay, FilesStay DEF memory
<1>3. KeysOK' /\ RetriesOK' /\ RefusalsOK' /\ StageOK'
  BY <1>1, KeysStay, RefusalsStay, StageStays DEF memory
<1>4. TimesOK'
  BY <1>1, ConstantsAssumption
  DEF TimesOK, TypeOK, Outage, Recover, PlaceToken, ExpireToken, Tick, vars, environment, Fault,
     NoFault
<1>5. AdmissionNotLost'
  <2>1. \/ token' = "live"
        \/ placed' = placed /\ (token' = token \/ faults' = faults + 1)
    BY DEF Outage, Recover, PlaceToken, ExpireToken, Tick, vars, environment, disk, Fault
  <2> QED
    BY <1>1, <2>1 DEF AdmissionNotLost, Doing, Name, memory, TypeOK
<1> QED
  BY <1>2, <1>3, <1>4, <1>5
-----------------------------------------------------------------------------
(* Theorems *)

\* Every step keeps the invariant.
LEMMA IInvNext == IInv /\ [Next]_vars => IInv'
<1>1. IInv /\ [Next]_vars => TypeOK'
  BY TypeNext DEF IInv
<1> QED
  BY <1>1, KeygenStep, BootstrapStep, RequestStep, TruncateCertStep, CloseCertStep, DownloadStep,
     WriteFileStep, HostnameStep, PassStep, StartStep, EnvironmentStep DEF Next, Act

\* The invariant holds when the keyclient is first started.
LEMMA IInvInit == Init => IInv
<1> SUFFICES ASSUME Init PROVE IInv
  OBVIOUS
<1>1. /\ performed \in BOOLEAN /\ blocked \in BOOLEAN
      /\ wasStabilized \in BOOLEAN /\ good \in BOOLEAN /\ ready \in BOOLEAN
  BY Zenon DEF Init
<1>2. TypeOK
  BY <1>1, ListFacts DEF Init, TypeOK, Absent
<1>3. /\ \A c \in Certs : cert[c] = Absent
      /\ \A d \in Downloads : file[d].at = Absent
      /\ \A a \in APIs : RetryAt[a] = Absent /\ refused[a] = Absent
      /\ Keygrant = Absent /\ good = FALSE /\ stage = "act" /\ reply = Absent /\ placed = 0
  BY DEF Init
<1>4. StageOK /\ KeysOK /\ RetriesOK /\ GrantOK /\ MembersOK /\ CertsOK /\ AdmissionNotLost
  BY <1>3, ListFacts DEF StageOK, KeysOK, RetriesOK, GrantOK, MembersOK, CertsOK, Fresh,
     AdmissionNotLost, Absent, At
<1>5. TimesOK
  BY ConstantsAssumption DEF Init, TimesOK
<1>6. FilesOK /\ RefusalsOK
  BY <1>3 DEF FilesOK, Due, Torn, RefusalsOK
<1> QED
  BY <1>2, <1>4, <1>5, <1>6 DEF IInv

\* The invariant holds in every behaviour.
THEOREM Invariance == Spec => []IInv
  BY IInvInit, IInvNext, PTL DEF Spec

\* Without faults a node that was given a token keeps its admission, whatever the
\* order of token, outages, passes and renewals.
THEOREM KeepsAdmission == Spec => []AdmissionNotLost
  BY Invariance, PTL DEF IInv

\* The certificate for requests never expires, nor does any other unless a fault cost
\* the node that one: for every list of actions, all margins and any number of faults.
THEOREM RenewsInTime == Spec => []RenewedInTime
<1>1. IInv => RenewedInTime
  <2> SUFFICES ASSUME IInv PROVE RenewedInTime
    OBVIOUS
  <2>1. Keygrant # Absent => now <= Keygrant
    BY KeygrantValid DEF IInv
  <2>2. ASSUME NEW c \in Certs, cert[c] >= 0, ~(faults > 0 /\ Unadmitted(lastGood)) PROVE now <= cert[c]
    <3>1. cert[c] >= lastGood + InAdvance[c]
      BY <2>2 DEF IInv, CertsOK, Fresh
    <3>2. /\ now \in Nat /\ lastGood \in Nat /\ cert[c] \in Nat \cup {Absent, Malformed} /\ now <= lastGood + MaxOutage + 1
          /\ InAdvance[c] \in Nat /\ MaxOutage \in Nat /\ MaxOutage < InAdvance[c]
      BY ConstantsAssumption DEF IInv, TypeOK, TimesOK
    <3> QED
      BY <2>2, <3>1, <3>2 DEF Absent, Malformed
  <2> QED
    BY <2>1, <2>2 DEF RenewedInTime
<1> QED
  BY <1>1, Invariance, PTL

\* A torn download is replaced at the next refresh, however many faults there are.
THEOREM ReplacesTornFiles == Spec => []TornFilesReplaced
<1>1. IInv => TornFilesReplaced
  <2> SUFFICES ASSUME IInv, NEW d \in Downloads \cap (Intended \cup OpenFiles), Torn(d),
                      ~(d \notin OpenFiles /\ Unadmitted(lastGood))
               PROVE  now - file[d].at <= Refresh[d] + MaxOutage + 1
    BY DEF TornFilesReplaced
  <2>1. lastGood - file[d].at <= Refresh[d]
    BY DEF IInv, FilesOK, Due
  <2>2. /\ now \in Nat /\ lastGood \in Nat /\ now <= lastGood + MaxOutage + 1 /\ MaxOutage \in Nat
        /\ file[d].at \in Nat \cup {Absent} /\ Refresh[d] \in Nat
    BY ConstantsAssumption DEF IInv, TypeOK, TimesOK
  <2> QED
    BY <2>1, <2>2 DEF Absent
<1> QED
  BY <1>1, Invariance, PTL

\* What the comment on ClientState.RetryAt says is true of downloads: the keyclient
\* does not ask again for one that it was refused before the pause is over.
DownloadRefusalsRespected == \A a \in APIs \ Certs : RefusalRespected(a)

\* The keyclient respects the refusals of downloads.
THEOREM RespectsDownloadRefusals == Spec => []DownloadRefusalsRespected
<1>1. IInv => DownloadRefusalsRespected
  <2> SUFFICES ASSUME IInv, NEW a \in APIs \ Certs, Asks(a), refused[a] # Absent
               PROVE  now > refused[a] + RetryAfter
    BY DEF DownloadRefusalsRespected, RefusalRespected
  <2>1. CanRetry(a) /\ RetryAt[a] # Absent /\ RetryAt[a] >= refused[a] + RetryAfter
    BY ListFacts DEF Asks, At, Doing, Name, NeedsRequest, IInv, RefusalsOK
  <2>2. now \in Nat /\ RetryAt[a] \in Nat \cup {Absent} /\ refused[a] \in Nat \cup {Absent} /\ RetryAfter \in Nat
    BY ConstantsAssumption DEF IInv, TypeOK
  <2> QED
    BY <2>1, <2>2 DEF CanRetry, Absent
<1> QED
  BY <1>1, Invariance, PTL
=============================================================================
