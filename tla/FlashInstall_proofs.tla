---- MODULE FlashInstall_proofs ----
(***************************************************************************)
(* Installations, for any flash, any releases and any requests.            *)
(***************************************************************************)
EXTENDS FlashInstall, FlashChoice_proofs, SequenceTheorems

(***************************************************************************)
(* The images.                                                             *)
(***************************************************************************)
\* A plan takes every image from the release that was found.
LEMMA PlannedImages ==
    ASSUME NEW o \in Offers, NEW role \in {"uboot", "kernel", "rootfs"}
    PROVE  role \in Roles /\ Payloads(o)[role].body = o.release.images[role]
  <1>1. role \in Roles
    BY DEF Roles
  <1> QED
    BY <1>1 DEF Payloads

(* Every installation puts in place images that suit what it was asked for (openipc.py:868).     *)
THEOREM SuitableImages == Spec => ImagesSuitRequest
  <1>1. ASSUME NEW o \in Offers, NEW wipe \in BOOLEAN, Install(o, wipe)
        PROVE  Suits(o.request, [role \in Roles |-> payloads'[role].body])
    <2> DEFINE c == o.request
               Body == [role \in Roles |-> payloads'[role].body]
    <2>1. o.layout # <<>> /\ payloads' = Payloads(o)
      BY <1>1 DEF Install, Plan
    <2>2. c \in Requests /\ o.release = ReleaseFor(c) /\ ReleaseFor(c) # None
      BY <2>1 DEF Offers, Found, Offered
    <2>3. Suits(c, ReleaseFor(c).images)
      BY <2>2, FoundSuits, InstallAssumption
    <2>4. \A role \in {"uboot", "kernel", "rootfs"} : Body[role] = ReleaseFor(c).images[role]
      BY <2>1, <2>2, PlannedImages
    <2>5. Suits(c, Body)
      BY <2>3, <2>4 DEF Suits, Provides
    <2> QED
      BY <2>5
  <1>2. runs' # runs /\ payloads' # Nothing =>
            \A o \in Offers, wipe \in BOOLEAN : Install(o, wipe) =>
                Suits(o.request, [role \in Roles |-> payloads'[role].body])
    BY <1>1
  <1> QED
    BY <1>2, PTL DEF ImagesSuitRequest

(***************************************************************************)
(* Backups.  Of a block whose first contents some image in the backup      *)
(* directory has, they are lost only if flash_backup is told to write to   *)
(* that very file.  All that a step needs is that a block has an image     *)
(* before it is changed, and that an image which lacks the first contents  *)
(* of a block is not the only one of it.                                   *)
(***************************************************************************)
IsList(s) == \E S : s \in Seq(S)

SavedOld(b) ==
    \/ b \in dropped
    \/ \E n \in DOMAIN backups : b < Len(backups[n]) /\ backups[n][b + 1] = Old

\* A block that was changed, in the flash or in an image.
Touched(b) ==
    \/ flash[b] # Old
    \/ \E n \in DOMAIN backups : b < Len(backups[n]) /\ backups[n][b + 1] # Old

BackupsAreImages == IsList(backups) /\ \A n \in DOMAIN backups : IsList(backups[n])

TouchedAreSaved == \A b \in Addresses : Touched(b) => SavedOld(b)

AllSaved == \A b \in Addresses : SavedOld(b)

\* A restore erases and writes what its image covers.
RestoreUnderWay ==
    /\ payloads = Nothing
    /\ IsList(script)
    /\ \E max \in Limits :
           /\ \A b \in Addresses : b < max => SavedOld(b)
           /\ \A i \in DOMAIN script : script[i].do \in {"erase", "write"} =>
                  script[i].offset = 0 /\ script[i].size = max

SavedInv ==
    /\ flash = [b \in Addresses |-> flash[b]]
    /\ BackupsAreImages
    /\ TouchedAreSaved
    /\ mode \in {"idle", "backup", "stage", "script"}
    /\ mode = "stage" => AllSaved
    /\ mode = "script" => AllSaved \/ RestoreUnderWay

\* Lists stay lists: appending,
LEMMA AppendToList ==
    ASSUME NEW s, IsList(s), NEW e
    PROVE  /\ IsList(Append(s, e))
           /\ DOMAIN Append(s, e) = 1 .. Len(s) + 1
           /\ DOMAIN s = 1 .. Len(s) /\ Len(s) \in Nat
           /\ Append(s, e)[Len(s) + 1] = e
           /\ \A i \in DOMAIN s : Append(s, e)[i] = s[i]
  <1>1. PICK S : s \in Seq(S)
    BY DEF IsList
  <1>2. s \in Seq(S \cup {e})
    BY <1>1
  <1>3. Append(s, e) \in Seq(S \cup {e})
    BY <1>2
  <1>4. /\ DOMAIN Append(s, e) = 1 .. Len(s) + 1
        /\ DOMAIN s = 1 .. Len(s) /\ Len(s) \in Nat
        /\ Append(s, e)[Len(s) + 1] = e
        /\ \A i \in DOMAIN s : Append(s, e)[i] = s[i]
    BY <1>2
  <1> QED
    BY <1>3, <1>4 DEF IsList

\* a list of one,
LEMMA OneIsList ==
    ASSUME NEW e
    PROVE  IsList(<<e>>) /\ DOMAIN <<e>> = {1} /\ <<e>>[1] = e
  <1>1. <<e>> \in Seq({e})
    OBVIOUS
  <1>2. DOMAIN <<e>> = 1 .. 1 /\ <<e>>[1] = e
    OBVIOUS
  <1>3. 1 .. 1 = {1}
    OBVIOUS
  <1> QED
    BY <1>1, <1>2, <1>3 DEF IsList

\* all but the first,
LEMMA TailOfList ==
    ASSUME NEW s, IsList(s), s # <<>>
    PROVE  /\ IsList(Tail(s))
           /\ \A i \in DOMAIN Tail(s) : i + 1 \in DOMAIN s /\ Tail(s)[i] = s[i + 1]
           /\ 1 \in DOMAIN s /\ Head(s) = s[1]
  <1>1. PICK S : s \in Seq(S)
    BY DEF IsList
  <1>2. Tail(s) \in Seq(S)
    BY <1>1, HeadTailProperties
  <1>3. /\ \A i \in DOMAIN Tail(s) : i + 1 \in DOMAIN s /\ Tail(s)[i] = s[i + 1]
        /\ 1 \in DOMAIN s /\ Head(s) = s[1]
    BY <1>1, <1>2, HeadTailProperties
  <1> QED
    BY <1>2, <1>3 DEF IsList

\* and the image of a list.
LEMMA ImageIsList ==
    ASSUME NEW m \in Nat, NEW f
    PROVE  LET image == [i \in 1 .. m |-> f[i - 1]]
           IN  IsList(image) /\ Len(image) = m /\ \A i \in 1 .. m : image[i] = f[i - 1]
  <1> DEFINE image == [i \in 1 .. m |-> f[i - 1]]
             S == {f[i - 1] : i \in 1 .. m}
  <1>1. image \in [1 .. m -> S]
    OBVIOUS
  <1>2. image \in Seq(S)
    <2> HIDE DEF image, S
    <2>1. [1 .. m -> S] \in {[1 .. n -> S] : n \in Nat}
      OBVIOUS
    <2> QED
      BY <1>1, <2>1, SeqDef
  <1>3. Len(image) = m
    BY <1>1, <1>2
  <1>4. IsList(image)
    BY <1>2 DEF IsList
  <1>5. \A i \in 1 .. m : image[i] = f[i - 1]
    OBVIOUS
  <1> HIDE DEF image
  <1> QED
    BY <1>3, <1>4, <1>5 DEF image

\* Another image does not lose anything.
LEMMA BackupKeeps ==
    ASSUME BackupsAreImages, NEW m \in 1 .. FlashSize, UNCHANGED dropped,
           backups' = Append(backups, [i \in 1 .. m |-> flash[i - 1]])
    PROVE  /\ BackupsAreImages'
           /\ \A b \in Addresses : SavedOld(b) => SavedOld(b)'
           /\ \A b \in Addresses : b < m /\ flash[b] = Old => SavedOld(b)'
           /\ TouchedAreSaved /\ UNCHANGED flash => TouchedAreSaved'
  <1> DEFINE image == [i \in 1 .. m |-> flash[i - 1]]
             last == Len(backups) + 1
  <1>1. m \in Nat
    BY InstallAssumption
  <1>2. IsList(image) /\ Len(image) = m /\ \A i \in 1 .. m : image[i] = flash[i - 1]
    BY <1>1, ImageIsList
  <1>3. /\ IsList(backups')
        /\ DOMAIN backups' = 1 .. last
        /\ DOMAIN backups = 1 .. Len(backups) /\ Len(backups) \in Nat
        /\ backups'[last] = image
        /\ \A n \in DOMAIN backups : backups'[n] = backups[n]
    BY AppendToList DEF BackupsAreImages
  <1>4. \A n \in DOMAIN backups' : n \in DOMAIN backups \/ n = last
    BY <1>3
  <1>5. BackupsAreImages'
    BY <1>2, <1>3, <1>4 DEF BackupsAreImages
  <1>6. \A b \in Addresses : SavedOld(b) => SavedOld(b)'
    BY <1>3 DEF SavedOld
  <1>7. \A b \in Addresses : b < m => b + 1 \in 1 .. m /\ image[b + 1] = flash[b]
    BY <1>1, <1>2, InstallAssumption DEF Addresses
  <1>8. ASSUME NEW b \in Addresses, b < m, flash[b] = Old
        PROVE  SavedOld(b)'
    <2>1. last \in DOMAIN backups'
      BY <1>3
    <2>2. b < Len(image) /\ image[b + 1] = Old
      BY <1>2, <1>7, <1>8
    <2> QED
      BY <2>1, <2>2, <1>3 DEF SavedOld
  <1>9. ASSUME TouchedAreSaved, UNCHANGED flash, NEW b \in Addresses, Touched(b)'
        PROVE  SavedOld(b)'
    <2>1. CASE flash[b] # Old
      BY <2>1, <1>9, <1>6 DEF TouchedAreSaved, Touched
    <2>2. CASE flash[b] = Old
      <3>1. PICK n \in DOMAIN backups' : b < Len(backups'[n]) /\ backups'[n][b + 1] # Old
        BY <2>2, <1>9 DEF Touched
      <3>2. ASSUME n = last PROVE FALSE
        <4>1. b < m /\ backups'[n] = image
          BY <3>1, <3>2, <1>2, <1>3
        <4>2. backups'[n][b + 1] = flash[b]
          BY <4>1, <1>7
        <4> QED
          BY <4>2, <3>1, <2>2
      <3>3. n \in DOMAIN backups /\ backups[n] = backups'[n]
        BY <3>2, <1>3, <1>4
      <3> QED
        BY <3>1, <3>3, <1>9, <1>6 DEF TouchedAreSaved, Touched
    <2> QED
      BY <2>1, <2>2
  <1>10. TouchedAreSaved /\ UNCHANGED flash => TouchedAreSaved'
    BY <1>9 DEF TouchedAreSaved
  <1> QED
    BY <1>5, <1>6, <1>8, <1>10

\* An image that is replaced takes with it what no other has, and flash_backup drops no more.
LEMMA ReplaceKeeps ==
    ASSUME BackupsAreImages, TouchedAreSaved, NEW n \in DOMAIN backups, NEW m \in 1 .. FlashSize,
           UNCHANGED flash, backups' = [backups EXCEPT ![n] = Snapshot(m)],
           dropped' = dropped \cup (KeptBy(backups[n]) \ KeptBy(Snapshot(m)))
    PROVE  BackupsAreImages' /\ TouchedAreSaved'
  <1> DEFINE image == Snapshot(m)
  <1>1. m \in Nat
    BY InstallAssumption
  <1>2. IsList(image) /\ Len(image) = m /\ \A i \in 1 .. m : image[i] = flash[i - 1]
    BY <1>1, ImageIsList DEF Snapshot
  <1>3. \A b \in Addresses : b < m => image[b + 1] = flash[b]
    BY <1>1, <1>2, InstallAssumption DEF Addresses
  <1> HIDE DEF image
  <1>4. PICK S : backups \in Seq(S)
    BY DEF BackupsAreImages, IsList
  <1>5. backups' = [backups EXCEPT ![n] = image]
    BY DEF image
  <1>6. /\ DOMAIN backups' = DOMAIN backups /\ backups'[n] = image
        /\ \A k \in DOMAIN backups : k # n => backups'[k] = backups[k]
    BY <1>4, <1>5
  <1>7. IsList(backups')
    <2>1. backups \in Seq(S \cup {image})
      BY <1>4
    <2>2. backups' \in Seq(S \cup {image})
      BY <1>5, <2>1
    <2> QED
      BY <2>2 DEF IsList
  <1>8. BackupsAreImages'
    BY <1>2, <1>6, <1>7 DEF BackupsAreImages
  <1>9. dropped' = dropped \cup (KeptBy(backups[n]) \ KeptBy(image))
    BY DEF image
  <1>10. ASSUME NEW b \in Addresses, SavedOld(b)
         PROVE  SavedOld(b)'
    <2>1. CASE b \in dropped
      BY <2>1, <1>9 DEF SavedOld
    <2>2. ASSUME NEW k \in DOMAIN backups, b < Len(backups[k]), backups[k][b + 1] = Old
          PROVE  SavedOld(b)'
      <3>1. CASE k # n
        BY <2>2, <3>1, <1>6 DEF SavedOld
      <3>2. CASE k = n /\ b \notin KeptBy(image)
        BY <2>2, <3>2, <1>9 DEF SavedOld, KeptBy
      <3>3. CASE k = n /\ b \in KeptBy(image)
        BY <2>2, <3>3, <1>6 DEF SavedOld, KeptBy
      <3> QED
        BY <3>1, <3>2, <3>3
    <2> QED
      BY <1>10, <2>1, <2>2 DEF SavedOld
  <1>11. ASSUME NEW b \in Addresses, Touched(b)'
         PROVE  Touched(b)
    <2>1. CASE flash[b] # Old
      BY <2>1 DEF Touched
    <2>2. ASSUME NEW k \in DOMAIN backups', b < Len(backups'[k]), backups'[k][b + 1] # Old
          PROVE  Touched(b)
      <3>1. CASE k # n
        BY <2>2, <3>1, <1>6 DEF Touched
      <3>2. CASE k = n
        <4>1. flash[b] # Old
          BY <2>2, <3>2, <1>2, <1>3, <1>6
        <4> QED
          BY <4>1 DEF Touched
      <3> QED
        BY <3>1, <3>2
    <2> QED
      BY <1>11, <2>1, <2>2 DEF Touched
  <1> QED
    BY <1>8, <1>10, <1>11 DEF TouchedAreSaved

\* Without a new image, only blocks that are saved, or were changed before, may change.
LEMMA FlashKeeps ==
    ASSUME UNCHANGED <<backups, dropped>>, BackupsAreImages, TouchedAreSaved,
           flash' = [b \in Addresses |-> flash'[b]],
           \A b \in Addresses : flash'[b] = flash[b] \/ flash[b] # Old \/ SavedOld(b)
    PROVE  /\ BackupsAreImages' /\ TouchedAreSaved'
           /\ \A b \in Addresses : SavedOld(b) => SavedOld(b)'
  <1>1. \A b \in Addresses : SavedOld(b)' <=> SavedOld(b)
    BY DEF SavedOld
  <1>2. \A b \in Addresses : Touched(b)' => Touched(b) \/ SavedOld(b)
    BY DEF Touched
  <1> QED
    BY <1>1, <1>2 DEF TouchedAreSaved, BackupsAreImages

\* A boot writes no block but that of an environment, which was not there at first.
LEMMA BootKeeps ==
    ASSUME NEW f, f = [b \in Addresses |-> f[b]], NEW g \in Booted(f)
    PROVE  /\ g = [b \in Addresses |-> g[b]]
           /\ \A b \in Addresses : g[b] = f[b] \/ (f[b] # Old /\ payloads # Nothing)
  <1>1. CASE g = f
    BY <1>1
  <1>2. CASE g # f
    <2>1. PICK e \in (IF payloads = Nothing THEN {} ELSE {payloads["env"]}) :
              f[e.offset] \in Contents /\ g = [f EXCEPT ![e.offset] = Saved]
      BY <1>2 DEF Booted
    <2>2. payloads # Nothing /\ f[e.offset] # Old
      BY <2>1, InstallAssumption
    <2>3. \A b \in Addresses : g[b] = f[b] \/ b = e.offset
      BY <2>1
    <2>4. g = [b \in Addresses |-> g[b]]
      BY <2>1
    <2> QED
      BY <2>2, <2>3, <2>4
  <1> QED
    BY <1>1, <1>2

\* A command of a script erases or writes nothing that is not saved.
LEMMA CommandKeeps ==
    ASSUME SavedInv, mode = "script", script # <<>>, Head(script).do \in {"erase", "write"},
           NEW n, n = Head(script).size \/ (n \in Nat /\ n <= Head(script).size)
    PROVE  LET f == After(Head(script), n)
           IN  /\ f = [b \in Addresses |-> f[b]]
               /\ \A b \in Addresses : f[b] = flash[b] \/ SavedOld(b)
  <1> DEFINE f == After(Head(script), n)
  <1>1. f = [b \in Addresses |-> f[b]]
    BY DEF After
  <1>2. CASE AllSaved
    BY <1>1, <1>2 DEF AllSaved
  <1>3. CASE RestoreUnderWay
    <2>1. PICK max \in Limits :
              /\ \A b \in Addresses : b < max => SavedOld(b)
              /\ \A i \in DOMAIN script : script[i].do \in {"erase", "write"} =>
                     script[i].offset = 0 /\ script[i].size = max
      BY <1>3 DEF RestoreUnderWay
    <2>2. Head(script).offset = 0 /\ Head(script).size = max
      BY <1>3, <2>1, TailOfList DEF RestoreUnderWay
    <2>3. ASSUME NEW b \in Addresses, f[b] # flash[b]
          PROVE  b < max
      <3>1. ~(b - 0 + 1 > n)
        BY <2>2, <2>3 DEF After
      <3>2. max \in 1 .. FlashSize /\ FlashSize \in Nat
        BY InstallAssumption
      <3>3. n = max \/ (n \in Nat /\ n <= max)
        BY <2>2
      <3>4. b \in Int /\ max \in Int /\ n \in Int /\ n <= max
        BY <3>2, <3>3 DEF Addresses
      <3> QED
        BY <3>1, <3>4
    <2> QED
      BY <1>1, <2>1, <2>3
  <1> QED
    BY <1>2, <1>3 DEF SavedInv

\* The script goes on, or is cut short, without a new command.
LEMMA ScriptGoesOn ==
    ASSUME SavedInv, mode = "script", script # <<>>, UNCHANGED payloads,
           script' = Tail(script) \/ script' = <<Say("not modified")>>,
           \A b \in Addresses : SavedOld(b) => SavedOld(b)'
    PROVE  AllSaved' \/ RestoreUnderWay'
  <1>1. CASE AllSaved
    BY <1>1 DEF AllSaved
  <1>2. CASE RestoreUnderWay
    <2>1. PICK max \in Limits :
              /\ \A b \in Addresses : b < max => SavedOld(b)
              /\ \A i \in DOMAIN script : script[i].do \in {"erase", "write"} =>
                     script[i].offset = 0 /\ script[i].size = max
      BY <1>2 DEF RestoreUnderWay
    <2>2. IsList(script') /\ \A i \in DOMAIN script' : script'[i].do \in {"erase", "write"} =>
              script'[i].offset = 0 /\ script'[i].size = max
      <3>1. CASE script' = Tail(script)
        BY <3>1, <1>2, <2>1, TailOfList DEF RestoreUnderWay
      <3>2. CASE script' = <<Say("not modified")>>
        <4>1. IsList(script') /\ DOMAIN script' = {1} /\ script'[1] = Say("not modified")
          BY <3>2, OneIsList
        <4>2. Say("not modified").do = "say"
          BY DEF Say
        <4> QED
          BY <4>1, <4>2
      <3> QED
        BY <3>1, <3>2
    <2> QED
      BY <1>2, <2>1, <2>2 DEF RestoreUnderWay
  <1> QED
    BY <1>1, <1>2 DEF SavedInv

\* A restore covers what its image has, and of that nothing is lost.
LEMMA RestoreBegins ==
    ASSUME SavedInv, NEW n \in DOMAIN backups, NEW max \in Limits, Len(backups[n]) = max,
           script' = RestoreScript(n, max), payloads' = Nothing, UNCHANGED <<backups, dropped>>
    PROVE  RestoreUnderWay'
  <1>1. \A b \in Addresses : b < max => SavedOld(b)
    BY DEF SavedInv, TouchedAreSaved, Touched, SavedOld
  <1>2. \A b \in Addresses : SavedOld(b)' <=> SavedOld(b)
    BY DEF SavedOld
  <1> DEFINE fetch == Fetch("backup", n, TRUE)
             erase == Erase(0, max)
             write == Write(0, max)
             say == Say("restored")
  <1>3. /\ fetch.do = "fetch" /\ say.do = "say"
        /\ erase.offset = 0 /\ erase.size = max
        /\ write.offset = 0 /\ write.size = max
    BY DEF Fetch, Erase, Write, Say
  <1>4. script' = <<fetch, erase, write, say>>
    BY DEF RestoreScript
  <1> HIDE DEF fetch, erase, write, say
  <1>5. script' \in Seq({fetch, erase, write, say}) /\ DOMAIN script' = 1 .. 4
    BY <1>4
  <1>6. \A i \in DOMAIN script' : script'[i] \in {fetch, erase, write, say}
    BY <1>4, <1>5
  <1>7. \A i \in DOMAIN script' : script'[i].do \in {"erase", "write"} =>
            script'[i].offset = 0 /\ script'[i].size = max
    BY <1>3, <1>6
  <1> QED
    BY <1>1, <1>2, <1>5, <1>7 DEF RestoreUnderWay, IsList

\* Nothing has been erased.
LEMMA SavedStarts == Init => SavedInv
  <1> SUFFICES ASSUME Init
               PROVE  SavedInv
    OBVIOUS
  <1>1. /\ flash = [b \in Addresses |-> Old] /\ backups = <<>> /\ mode = "idle"
    BY DEF Init
  <1>2. BackupsAreImages
    BY <1>1 DEF BackupsAreImages, IsList
  <1>3. TouchedAreSaved
    BY <1>1 DEF TouchedAreSaved, Touched
  <1> QED
    BY <1>1, <1>2, <1>3 DEF SavedInv

\* Every step keeps SavedInv.
LEMMA SavedStep ==
    ASSUME SavedInv, [Next]_vars
    PROVE  SavedInv'
  <1> USE DEF SavedInv
  <1>1. ASSUME UNCHANGED <<flash, backups, dropped>>
        PROVE  /\ BackupsAreImages' /\ TouchedAreSaved' /\ (flash = [b \in Addresses |-> flash[b]])'
               /\ \A b \in Addresses : SavedOld(b) => SavedOld(b)'
    BY <1>1, FlashKeeps
  <1>2. ASSUME NEW max \in Limits, SaveBackup(max)
        PROVE  SavedInv'
    <2>1. max \in 1 .. FlashSize
      BY InstallAssumption
    <2>2. UNCHANGED <<flash, mode, dropped>> /\ mode = "idle"
      BY <1>2 DEF SaveBackup, Begin
    <2>3. backups' = Append(backups, [i \in 1 .. max |-> flash[i - 1]])
      BY <1>2 DEF SaveBackup, Snapshot
    <2> QED
      BY <2>1, <2>2, <2>3, BackupKeeps
  <1>3. ASSUME NEW n \in DOMAIN backups, NEW max \in Limits, StartRestore(n, max)
        PROVE  SavedInv'
    <2>1. /\ UNCHANGED <<flash, backups, dropped>> /\ mode' = "script" /\ Len(backups[n]) = max
          /\ script' = RestoreScript(n, max) /\ payloads' = Nothing
      BY <1>3 DEF StartRestore, Begin
    <2>2. RestoreUnderWay'
      BY <2>1, RestoreBegins
    <2> QED
      BY <2>1, <2>2, <1>1
  <1>4. ASSUME NEW o \in Offers, NEW wipe \in BOOLEAN, Refuse(o, wipe) \/ Install(o, wipe)
        PROVE  SavedInv'
    <2>1. UNCHANGED <<flash, backups, dropped>> /\ mode' \in {"idle", "backup"}
      BY <1>4 DEF Refuse, Install, Begin
    <2> QED
      BY <2>1, <1>1
  <1>5. CASE BackUp
    <2>1. /\ UNCHANGED <<flash, dropped>> /\ mode' = "stage"
          /\ backups' = Append(backups, [i \in 1 .. FlashSize |-> flash[i - 1]])
      BY <1>5 DEF BackUp, Snapshot, history
    <2>2. FlashSize \in 1 .. FlashSize
      BY InstallAssumption
    <2>3. /\ BackupsAreImages' /\ TouchedAreSaved'
          /\ \A b \in Addresses : SavedOld(b) => SavedOld(b)'
          /\ \A b \in Addresses : b < FlashSize /\ flash[b] = Old => SavedOld(b)'
      BY <2>1, <2>2, BackupKeeps
    <2>4. AllSaved'
      <3> SUFFICES ASSUME NEW b \in Addresses
                   PROVE  SavedOld(b)'
        BY DEF AllSaved
      <3>1. b < FlashSize
        BY InstallAssumption DEF Addresses
      <3>2. CASE flash[b] = Old
        BY <3>1, <3>2, <2>3
      <3>3. CASE flash[b] # Old
        BY <3>3, <2>3 DEF TouchedAreSaved, Touched
      <3> QED
        BY <3>2, <3>3
    <2> QED
      BY <2>1, <2>3, <2>4
  <1>6. CASE Stage
    <2>1. UNCHANGED <<flash, backups, dropped>> /\ mode = "stage" /\ mode' = "script"
      BY <1>6 DEF Stage
    <2>2. AllSaved'
      BY <2>1, <1>1 DEF AllSaved
    <2> QED
      BY <2>1, <2>2, <1>1
  <1>7. ASSUME RunFetch \/ (\E n \in 0 .. FlashSize : FetchFails(n)) \/ RunSay
        PROVE  SavedInv'
    <2>1. /\ UNCHANGED <<flash, backups, payloads, dropped>> /\ mode = "script" /\ script # <<>>
          /\ mode' \in {"idle", "script"}
          /\ script' = Tail(script) \/ script' = <<Say("not modified")>>
      BY <1>7 DEF RunFetch, FetchFails, RunSay, Runs, serverVars, history
    <2>2. AllSaved' \/ RestoreUnderWay'
      BY <2>1, <1>1, ScriptGoesOn
    <2> QED
      BY <2>1, <2>2, <1>1
  <1>8. ASSUME RunErase \/ RunWrite
        PROVE  SavedInv'
    <2>1. /\ UNCHANGED <<backups, payloads, mode, dropped>> /\ mode = "script" /\ script # <<>>
          /\ script' = Tail(script) /\ Head(script).do \in {"erase", "write"}
          /\ flash' = After(Head(script), Head(script).size)
      BY <1>8 DEF RunErase, RunWrite, Runs, serverVars, history
    <2>2. /\ flash' = [b \in Addresses |-> flash'[b]]
          /\ \A b \in Addresses : flash'[b] = flash[b] \/ SavedOld(b)
      BY <2>1, CommandKeeps
    <2>3. /\ BackupsAreImages' /\ TouchedAreSaved'
          /\ \A b \in Addresses : SavedOld(b) => SavedOld(b)'
      BY <2>1, <2>2, FlashKeeps
    <2>4. AllSaved' \/ RestoreUnderWay'
      BY <2>1, <2>3, ScriptGoesOn
    <2> QED
      BY <2>1, <2>2, <2>3, <2>4
  <1>9. CASE RunReset
    <2>1. flash' \in Booted(flash) /\ UNCHANGED <<backups, dropped>> /\ mode' = "idle"
      BY <1>9 DEF RunReset, serverVars
    <2>2. /\ flash' = [b \in Addresses |-> flash'[b]]
          /\ \A b \in Addresses : flash'[b] = flash[b] \/ flash[b] # Old
      BY <2>1, BootKeeps
    <2>3. BackupsAreImages' /\ TouchedAreSaved'
      BY <2>1, <2>2, FlashKeeps
    <2> QED
      BY <2>1, <2>2, <2>3
  <1>10. ASSUME NEW n \in 0 .. FlashSize, PowerLoss(n)
         PROVE  SavedInv'
    <2>1. Interrupted(n) /\ UNCHANGED <<backups, dropped>> /\ mode # "idle" /\ mode' = "idle"
      BY <1>10 DEF PowerLoss, serverVars, history
    <2>2. n \in Nat
      BY InstallAssumption
    <2>3. /\ flash' = [b \in Addresses |-> flash'[b]]
          /\ \A b \in Addresses : flash'[b] = flash[b] \/ flash[b] # Old \/ SavedOld(b)
      <3>1. CASE mode = "script" /\ script # <<>> /\ Head(script).do \in {"erase", "write"}
        <4> DEFINE f == After(Head(script), n)
        <4>1. n <= Head(script).size /\ flash' \in Booted(f)
          BY <2>1, <3>1 DEF Interrupted
        <4>2. /\ f = [b \in Addresses |-> f[b]]
              /\ \A b \in Addresses : f[b] = flash[b] \/ SavedOld(b)
          BY <2>2, <3>1, <4>1, CommandKeeps
        <4> HIDE DEF f
        <4>3. /\ flash' = [b \in Addresses |-> flash'[b]]
              /\ \A b \in Addresses : flash'[b] = f[b] \/ (f[b] # Old /\ payloads # Nothing)
          BY <4>1, <4>2, BootKeeps
        <4> QED
          BY <4>2, <4>3
      <3>2. CASE flash' \in Booted(flash)
        BY <3>2, BootKeeps
      <3> QED
        BY <2>1, <3>1, <3>2 DEF Interrupted
    <2>4. BackupsAreImages' /\ TouchedAreSaved'
      BY <2>1, <2>3, FlashKeeps
    <2> QED
      BY <2>1, <2>3, <2>4
  <1>11. ASSUME NEW o \in Offers, NEW role, OtherStages(o, role)
         PROVE  SavedInv'
    <2>1. UNCHANGED <<flash, backups, mode, script, payloads, dropped>>
      BY <1>11 DEF OtherStages, history
    <2>2. AllSaved => AllSaved'
      BY <2>1, <1>1 DEF AllSaved
    <2>3. RestoreUnderWay => RestoreUnderWay'
      BY <2>1, <1>1 DEF RestoreUnderWay
    <2> QED
      BY <2>1, <2>2, <2>3, <1>1
  <1>12. CASE UNCHANGED vars
    <2>1. UNCHANGED <<flash, backups, mode, script, payloads, dropped>>
      BY <1>12 DEF vars, serverVars, history
    <2>2. AllSaved => AllSaved'
      BY <2>1, <1>1 DEF AllSaved
    <2>3. RestoreUnderWay => RestoreUnderWay'
      BY <2>1, <1>1 DEF RestoreUnderWay
    <2> QED
      BY <2>1, <2>2, <2>3, <1>1
  <1>13. ASSUME NEW n \in DOMAIN backups, NEW max \in Limits, ReplaceBackup(n, max)
         PROVE  SavedInv'
    <2>1. max \in 1 .. FlashSize
      BY InstallAssumption
    <2>2. /\ UNCHANGED <<flash, mode>> /\ mode = "idle"
          /\ backups' = [backups EXCEPT ![n] = Snapshot(max)]
          /\ dropped' = dropped \cup (KeptBy(backups[n]) \ KeptBy(Snapshot(max)))
      BY <1>13 DEF ReplaceBackup, Begin
    <2>3. BackupsAreImages' /\ TouchedAreSaved'
      BY <2>1, <2>2, ReplaceKeeps
    <2> QED
      BY <2>2, <2>3
  <1> QED
    BY <1>2, <1>3, <1>4, <1>5, <1>6, <1>7, <1>8, <1>9, <1>10, <1>11, <1>12, <1>13
    DEF Next, ServerStep, BoardStep, Environment

(* Whatever installations, backups and restores a board goes through, with power losses, failed  *)
(* fetches and other sessions in between: of every block that is not as it was first found, an   *)
(* image in the backup directory has the first contents, unless flash_backup was told to write   *)
(* to a file that had them (openipc.py:913, tools.py:191-208).                                   *)
THEOREM OriginalKept == Spec => []OriginalIsSaved
  <1>1. SavedInv => OriginalIsSaved
    BY DEF SavedInv, TouchedAreSaved, Touched, SavedOld, OriginalIsSaved
  <1> QED
    BY SavedStarts, SavedStep, <1>1, PTL DEF Spec

(***************************************************************************)
(* Plans.                                                                  *)
(***************************************************************************)
EnvBlocks == {c.envBlock : c \in Requests}

\* Partitions inside the flash and apart, with room for their images; only that of the
\* environment begins as an environment does.
SoundPlan(plan) ==
    /\ plan \in [Roles -> PayloadType]
    /\ \A role \in Roles : InRange(plan[role], FlashSize) /\ Len(plan[role].body) <= plan[role].size
    /\ \A r, s \in Roles : r # s => Apart(plan[r], plan[s])
    /\ Len(plan["env"].body) > 0 /\ plan["env"].body[1] \in EnvBlocks
    /\ \A role \in Roles \ {"env"} : Range(plan[role].body) \cap EnvBlocks = {}

SoundOverlay(part, plan) ==
    InRange(part, FlashSize) /\ \A role \in Roles : Apart(part, plan[role])

PlanInv ==
    /\ pending \subseteq Roles
    /\ payloads = Nothing => pending = {} /\ overlay = Nothing
    /\ payloads # Nothing => SoundPlan(payloads)
    /\ overlay # Nothing => SoundOverlay(overlay, payloads)

(***************************************************************************)
(* Types.                                                                  *)
(***************************************************************************)
InstallCommands ==
    {Fetch("install", payloads[role].source, FALSE) : role \in pending}
        \cup {Erase(payloads[role].offset, payloads[role].size) : role \in pending}
        \cup {Write(payloads[role].offset, Len(payloads[role].body)) : role \in pending}
        \cup (IF overlay = Nothing THEN {} ELSE {Erase(overlay.offset, overlay.size)})
        \cup {Say("updated"), Reset}

RestoreCommands ==
    {Fetch("backup", n, TRUE) : n \in DOMAIN backups}
        \cup {Erase(0, max) : max \in Limits}
        \cup {Write(0, max) : max \in Limits}
        \cup {Say("restored"), Say("not modified")}

Commands == IF payloads = Nothing THEN RestoreCommands ELSE InstallCommands

Types ==
    /\ flash \in [Addresses -> Block]
    /\ before \in [Addresses -> Block]
    /\ ram \in Seq(Block)
    /\ files \in [Sources -> Seq(Contents) \cup {Nothing}]
    /\ backups \in Seq(Seq(Block))
    /\ mode \in {"idle", "backup", "stage", "script"}
    /\ lost \subseteq Roles
    /\ dropped \subseteq Addresses
    /\ runs \in 0 .. MaxRuns

\* What is under way, and that the files of an installation are in place while its script runs.
ModeInv ==
    /\ script \in Seq(Commands)
    /\ (mode = "script") <=> (script # <<>>)
    /\ mode \in {"backup", "stage"} => payloads # Nothing
    /\ mode = "script" => \A role \in pending : files[payloads[role].source] # Nothing

(***************************************************************************)
(* How far a script has come.                                              *)
(***************************************************************************)
Finished(role) == Matches(payloads[role]) \/ role \in lost

\* The partitions that a script updates before role's,
Preceding(role) ==
    CASE role = "uboot" -> {}
      [] role = "env" -> {"uboot"}
      [] role = "kernel" -> {"uboot", "env"}
      [] role = "rootfs" -> {"uboot", "env", "kernel"}

\* and what it goes on with after it.
Ending == EraseOverlay(<<Say("updated"), Reset>>)

AfterKernel == Update("rootfs", Ending)

AfterEnv == Update("kernel", AfterKernel)

Rest(role) ==
    CASE role = "uboot" -> Update("env", AfterEnv)
      [] role = "env" -> AfterEnv
      [] role = "kernel" -> AfterKernel
      [] role = "rootfs" -> Ending

FetchOf(role) == Fetch("install", payloads[role].source, FALSE)
EraseOf(role) == Erase(payloads[role].offset, payloads[role].size)
WriteOf(role) == Write(payloads[role].offset, Len(payloads[role].body))

Fetched(role) == ram = payloads[role].body \/ role \in lost

IsErased(part) == \A b \in Area(part) : flash[b] = Erased

FromFetch(role) == <<FetchOf(role), EraseOf(role), WriteOf(role)>> \o Rest(role)
FromErase(role) == <<EraseOf(role), WriteOf(role)>> \o Rest(role)
FromWrite(role) == <<WriteOf(role)>> \o Rest(role)

AtFetch(role) == script = FromFetch(role)
AtErase(role) == script = FromErase(role) /\ Fetched(role)
AtWrite(role) == script = FromWrite(role) /\ Fetched(role) /\ IsErased(payloads[role])

\* It is role's turn: what precedes it is done, and what needs no update.
Ready(role) ==
    /\ role \in pending
    /\ \A r \in Roles : r \notin pending \/ r \in Preceding(role) => Finished(r)

Updating(role) == Ready(role) /\ (AtFetch(role) \/ AtErase(role) \/ AtWrite(role))

AllUpdated ==
    /\ \A role \in Roles : Finished(role)
    /\ \/ overlay # Nothing /\ script = <<Erase(overlay.offset, overlay.size), Say("updated"), Reset>>
       \/ script = <<Say("updated"), Reset>>
       \/ script = <<Reset>>

Installing == payloads # Nothing /\ (AllUpdated \/ \E role \in Roles : Updating(role))

Restored(n) ==
    flash = [b \in Addresses |-> IF b < Len(backups[n]) THEN backups[n][b + 1] ELSE before[b]]

RestoreAt(n, max) ==
    \/ script = RestoreScript(n, max) /\ flash = before
    \/ /\ script = <<Erase(0, max), Write(0, max), Say("restored")>>
       /\ ram = backups[n] /\ flash = before
    \/ /\ script = <<Write(0, max), Say("restored")>>
       /\ ram = backups[n] /\ \A b \in Addresses : b >= max => flash[b] = before[b]
    \/ script = <<Say("restored")>> /\ Restored(n)
    \/ script = <<Say("not modified")>> /\ flash = before

Restoring ==
    /\ payloads = Nothing
    /\ \E n \in DOMAIN backups, max \in Limits : Len(backups[n]) = max /\ RestoreAt(n, max)

\* What is not pending needs no update, the script is somewhere, and what was said still holds.
ScriptInv ==
    /\ mode \in {"backup", "stage"} => \A role \in Roles \ pending : Matches(payloads[role])
    /\ mode = "script" => Installing \/ Restoring
    /\ said = "updated" =>
           payloads # Nothing /\ script = <<Reset>> /\ \A role \in Roles : Finished(role)
    /\ said = "restored" => mode = "idle" /\ \E n \in DOMAIN backups : Restored(n)
    /\ said = "not modified" => mode = "idle" /\ flash = before

(***************************************************************************)
(* The last installation that lost nothing still holds, but for the        *)
(* environment, until the next script.                                     *)
(***************************************************************************)
CurrentInv ==
    current # Nothing =>
        /\ mode # "script"
        /\ SoundPlan(current)
        /\ \A role \in Roles \ {"env"} : Matches(current[role])

\* A search for a U-Boot finds one at most.
LEMMA UbootIsOne ==
    ASSUME NEW c, NEW a \in Uboot(c), NEW b \in Uboot(c)
    PROVE  a = b
  <1>1. \A tag, soc, prefix : \A x, y \in ExactUboot(tag, soc, prefix) : x = y
    BY DEF ExactUboot, Or, Single
  <1>2. \A tag, soc : \A x, y \in UbootIn(tag, soc) : x = y
    BY <1>1 DEF UbootIn, Or
  <1> QED
    BY <1>2 DEF Uboot, Or

\* What is found comes out of published assets.
LEMMA FoundIsPublished ==
    ASSUME NEW c \in Requests, ReleaseFor(c) # None
    PROVE  LET f == ReleaseFor(c)
           IN  /\ \A role \in {"uboot", "kernel", "rootfs"} :
                      /\ f.images[role] \in Seq(Contents)
                      /\ Range(f.images[role]) \cap EnvBlocks = {}
                      /\ f.sources[role] \in Sources
               /\ DOMAIN f.images = {"uboot", "kernel", "rootfs"}
               /\ Ranked(f.env)
  <1> DEFINE f == ReleaseFor(c)
             H(role) == Holder(c, role)
             All == UNION Range(Published)
  <1>1. /\ Complete(c)
        /\ f = [env |-> H("uboot").env,
                images |-> [role \in {"uboot", "kernel", "rootfs"} |-> H(role).holds[role]],
                sources |-> [role \in {"uboot", "kernel", "rootfs"} |-> Source(H(role), role)]]
    BY DEF ReleaseFor
  <1>2. PICK a \in Uboot(c) : "uboot" \in DOMAIN a.holds /\ a.env # None
    BY <1>1 DEF Complete
  <1>3. H("uboot") = a
    BY <1>2, UbootIsOne DEF Holder
  <1>4. H("kernel") \in Firmware(c) /\ "kernel" \in DOMAIN H("kernel").holds
    BY <1>1 DEF Complete, Holder
  <1>5. H("rootfs") \in Firmware(c) /\ "rootfs" \in DOMAIN H("rootfs").holds
    BY <1>1 DEF Complete, Holder
  <1>6. \A role \in {"uboot", "kernel", "rootfs"} : H(role) \in All /\ role \in DOMAIN H(role).holds
    <2>1. {Published[c.tag], Published[Latest]} \subseteq Range(Published)
      BY InstallAssumption DEF Range
    <2>2. H("uboot") \in Published[c.tag] \cup Published[Latest]
      BY <1>3, UbootSuits DEF SuitableUboot
    <2>3. H("kernel") \in Published[c.tag] /\ H("rootfs") \in Published[c.tag]
      <3> HIDE DEF H
      <3>1. SuitableFirmware(c, H("kernel"), H("rootfs"))
        BY <1>4, <1>5, FirmwareSuits, InstallAssumption
      <3> QED
        BY <3>1 DEF SuitableFirmware
    <2> HIDE DEF H
    <2> QED
      BY <1>2, <1>3, <1>4, <1>5, <2>1, <2>2, <2>3
  <1>7. \A b \in All : \A role \in DOMAIN b.holds :
            /\ b.holds[role] \in Seq(Contents)
            /\ Range(b.holds[role]) \cap EnvBlocks = {}
    BY InstallAssumption, EnvAssumption DEF EnvBlocks, Range
  <1>8. Ranked(f.env)
    <2>1. f.env = a.env /\ a \in All
      BY <1>1, <1>3, <1>6
    <2> QED
      BY <2>1, <1>2, EnvAssumption DEF Ranked
  <1>9. ASSUME NEW role \in {"uboot", "kernel", "rootfs"} PROVE f.sources[role] \in Sources
    <2>1. f.sources[role] \in Range(f.sources)
      BY <1>1 DEF Range
    <2>2. [request |-> c, release |-> f] \in Found
      BY DEF Found
    <2> QED
      BY <2>1, <2>2 DEF Sources
  <1>10. /\ DOMAIN f.images = {"uboot", "kernel", "rootfs"}
         /\ \A role \in {"uboot", "kernel", "rootfs"} : f.images[role] = H(role).holds[role]
    BY <1>1
  <1> HIDE DEF f, H, All
  <1>11. ASSUME NEW role \in {"uboot", "kernel", "rootfs"}
         PROVE  f.images[role] \in Seq(Contents) /\ Range(f.images[role]) \cap EnvBlocks = {}
    BY <1>6, <1>7, <1>10
  <1> QED
    BY <1>8, <1>9, <1>10, <1>11 DEF f

\* Of an offer with a layout: whose request, whose release, and what the layout is.
LEMMA OfferIs ==
    ASSUME NEW o \in Offers, o.layout # <<>>
    PROVE  /\ o.request \in Requests /\ o.release = ReleaseFor(o.request) /\ o.release # None
           /\ GoodTable(o.layout, o.request.size) /\ Sound(o.layout)
           /\ Fits(o.layout, o.release.images)
  <1>1. PICK f \in Found :
            /\ o.request = f.request /\ o.release = f.release
            /\ o.layout = IF Offered(f) THEN Layout(f.release.env, f.request.size, f.release.images)
                          ELSE <<>>
    BY DEF Offers
  <1>2. o.request \in Requests /\ o.release = ReleaseFor(o.request)
    BY <1>1 DEF Found
  <1>3. /\ o.release # None
        /\ o.layout = Layout(o.release.env, o.request.size, o.release.images)
    BY <1>1 DEF Offered
  <1>4. Candidates(o.release.env, o.request.size, o.release.images) # {}
    BY <1>3, NoCandidateNoLayout
  <1>5. Ranked(o.release.env)
    BY <1>2, <1>3, FoundIsPublished
  <1>6. o.request.size \in Nat
    BY <1>2, InstallAssumption
  <1> QED
    BY <1>2, <1>3, <1>4, <1>5, <1>6, LayoutIsTightest

\* A payload of an offer lies where the layout has its partition.
LEMMA PayloadIs ==
    ASSUME NEW o, NEW role \in Roles
    PROVE  LET p == Payloads(o)[role]
               e == Entry(o.layout, role)
           IN  /\ p.offset = e.offset /\ p.size = e.size /\ EndOf(p) = EndOf(e)
               /\ p = [offset |-> p.offset, size |-> p.size, source |-> p.source, body |-> p.body]
  BY DEF Payloads, EndOf

\* What an installation plans is sound.
LEMMA PlanIsSound ==
    ASSUME NEW o \in Offers, o.layout # <<>>
    PROVE  /\ SoundPlan(Payloads(o)) /\ Payloads(o) # Nothing
           /\ Has(o.layout, "overlay") => SoundOverlay(Entry(o.layout, "overlay"), Payloads(o))
  <1> DEFINE plan == Payloads(o)
             E(role) == Entry(o.layout, role)
             total == o.request.size
  <1>1. /\ o.request \in Requests /\ o.release = ReleaseFor(o.request) /\ o.release # None
        /\ GoodTable(o.layout, total) /\ Sound(o.layout) /\ Fits(o.layout, o.release.images)
    BY OfferIs
  <1>2. total \in 1 .. FlashSize /\ FlashSize \in Nat
    BY <1>1, InstallAssumption
  <1>3. \A role \in Roles : Has(o.layout, role)
    BY <1>1 DEF Sound
  <1>4. ASSUME NEW role \in Roles \cup {"overlay"}, Has(o.layout, role)
        PROVE  InRange(E(role), FlashSize)
    BY <1>1, <1>2, <1>4, EntryInRange DEF InRange
  <1>5. ASSUME NEW role \in Roles PROVE InRange(plan[role], FlashSize)
    BY <1>3, <1>4, PayloadIs DEF InRange
  <1>6. ASSUME NEW r \in Roles, NEW s \in Roles, r # s PROVE Apart(plan[r], plan[s])
    <2>1. Apart(E(r), E(s))
      BY <1>1, <1>2, <1>3, <1>6, EntriesApart
    <2> QED
      BY <2>1, PayloadIs DEF Apart
  <1>7. ASSUME NEW role \in Roles \ {"env"}
        PROVE  /\ plan[role].body \in Seq(Contents)
               /\ plan[role].source \in Sources
               /\ Range(plan[role].body) \cap EnvBlocks = {}
               /\ Len(plan[role].body) <= plan[role].size
    <2>1. role \in {"uboot", "kernel", "rootfs"}
      BY DEF Roles
    <2>2. plan[role].body = o.release.images[role] /\ plan[role].source = o.release.sources[role]
      BY <2>1 DEF Payloads
    <2>3. Len(o.release.images[role]) <= E(role).size
      BY <2>1, <1>1, FoundIsPublished DEF Fits
    <2>4. plan[role].size = E(role).size
      BY PayloadIs
    <2> HIDE DEF plan, E
    <2> QED
      BY <2>1, <2>2, <2>3, <2>4, <1>1, FoundIsPublished
  <1>8. /\ plan["env"].body \in Seq(Contents)
        /\ plan["env"].source \in Sources
        /\ Len(plan["env"].body) = plan["env"].size
        /\ Len(plan["env"].body) > 0
        /\ plan["env"].body[1] \in EnvBlocks
    <2> DEFINE n == plan["env"].size
               block == o.request.envBlock
    <2>1. n \in Nat \ {0}
      BY <1>5 DEF InRange, Roles
    <2>2. plan["env"].body = [i \in 1 .. n |-> block] /\ plan["env"].source = EnvSource
      BY DEF Payloads, Roles
    <2>3. block \in Contents /\ block \in EnvBlocks
      BY <1>1, InstallAssumption DEF EnvBlocks
    <2>4. EnvSource \in Sources
      BY DEF Sources
    <2> HIDE DEF n, plan, block
    <2> QED
      BY <2>1, <2>2, <2>3, <2>4 DEF n
  <1>9. plan \in [Roles -> PayloadType]
    <2>1. DOMAIN plan = Roles /\ plan = [role \in Roles |-> plan[role]]
      BY DEF Payloads
    <2>2. ASSUME NEW role \in Roles PROVE plan[role] \in PayloadType
      <3>1. plan[role].body \in Seq(Contents) /\ plan[role].source \in Sources
        BY <1>7, <1>8
      <3>2. plan[role].offset \in Nat /\ plan[role].size \in Nat
        BY <1>5 DEF InRange
      <3>3. plan[role] = [offset |-> plan[role].offset, size |-> plan[role].size,
                          source |-> plan[role].source, body |-> plan[role].body]
        BY PayloadIs
      <3> HIDE DEF plan
      <3> QED
        BY <3>1, <3>2, <3>3 DEF PayloadType
    <2> HIDE DEF plan
    <2> QED
      BY <2>1, <2>2
  <1>10. ASSUME Has(o.layout, "overlay") PROVE SoundOverlay(E("overlay"), plan)
    <2>1. InRange(E("overlay"), FlashSize)
      BY <1>4, <1>10
    <2>2. ASSUME NEW role \in Roles PROVE Apart(E("overlay"), plan[role])
      <3>1. Apart(E("overlay"), E(role))
        BY <1>1, <1>2, <1>3, <1>10, EntriesApart DEF Roles
      <3> QED
        BY <3>1, PayloadIs DEF Apart
    <2> QED
      BY <2>1, <2>2 DEF SoundOverlay
  <1>11. plan # Nothing
    BY <1>9, NothingAssumption
  <1>12. \A role \in Roles : Len(plan[role].body) <= plan[role].size
    BY <1>5, <1>7, <1>8 DEF InRange
  <1> HIDE DEF plan, E
  <1>13. SoundPlan(plan)
    BY <1>5, <1>6, <1>7, <1>8, <1>9, <1>12 DEF SoundPlan
  <1> QED
    BY <1>10, <1>11, <1>13 DEF plan, E

(***************************************************************************)
(* Scripts as lists of commands.                                           *)
(***************************************************************************)
LEMMA OneInFront ==
    ASSUME NEW C, NEW a \in C, NEW rest \in Seq(C)
    PROVE  /\ <<a>> \o rest \in Seq(C) /\ <<a>> \o rest # <<>>
           /\ Head(<<a>> \o rest) = a /\ Tail(<<a>> \o rest) = rest
  <1> DEFINE s == <<a>> \o rest
  <1>1. <<a>> \in Seq(C) /\ Len(<<a>>) = 1 /\ <<a>>[1] = a
    OBVIOUS
  <1>2. /\ s \in Seq(C) /\ Len(s) = 1 + Len(rest)
        /\ \A i \in 1 .. Len(s) : s[i] = IF i <= 1 THEN <<a>>[i] ELSE rest[i - 1]
    BY <1>1, ConcatProperties
  <1>3. Len(rest) \in Nat
    OBVIOUS
  <1> HIDE DEF s
  <1>4. s # <<>> /\ s[1] = a
    BY <1>1, <1>2, <1>3
  <1>5. /\ Tail(s) \in Seq(C) /\ Len(Tail(s)) = Len(rest)
        /\ \A i \in 1 .. Len(Tail(s)) : Tail(s)[i] = s[i + 1]
        /\ Head(s) = s[1]
    BY <1>2, <1>3, <1>4, HeadTailProperties
  <1>6. \A i \in 1 .. Len(Tail(s)) : Tail(s)[i] = rest[i]
    BY <1>2, <1>3, <1>5
  <1>7. Tail(s) = rest
    BY <1>5, <1>6, SeqEqual
  <1> QED
    BY <1>2, <1>4, <1>5, <1>7 DEF s

LEMMA TailIsScript ==
    ASSUME NEW C, NEW s \in Seq(C), s # <<>>
    PROVE  Tail(s) \in Seq(C) /\ Head(s) \in C /\ DOMAIN s = 1 .. Len(s)
  BY HeadTailProperties

\* Every command of an installation is for one of its partitions.
LEMMA RestIsScript ==
    ASSUME PlanInv, payloads # Nothing
    PROVE  /\ \A role \in Roles : Rest(role) \in Seq(Commands)
           /\ InstallScript \in Seq(Commands)
           /\ \A role \in pending : {FetchOf(role), EraseOf(role), WriteOf(role)} \subseteq Commands
           /\ {Say("updated"), Reset} \subseteq Commands
           /\ overlay # Nothing => Erase(overlay.offset, overlay.size) \in Commands
  <1>1. Commands = InstallCommands
    BY DEF Commands
  <1>2. {Say("updated"), Reset} \subseteq Commands
    BY <1>1 DEF InstallCommands
  <1>3. overlay # Nothing => Erase(overlay.offset, overlay.size) \in Commands
    BY <1>1 DEF InstallCommands
  <1>4. \A role \in pending : {FetchOf(role), EraseOf(role), WriteOf(role)} \subseteq Commands
    BY <1>1 DEF InstallCommands, FetchOf, EraseOf, WriteOf
  <1> DEFINE C == Commands
  <1> HIDE DEF C
  <1>5. Ending \in Seq(C)
    <2>1. <<Say("updated"), Reset>> \in Seq(C)
      BY <1>2 DEF C
    <2>2. overlay # Nothing => Erase(overlay.offset, overlay.size) \in C
      BY <1>3 DEF C
    <2> QED
      BY <2>1, <2>2, OneInFront DEF Ending, EraseOverlay
  <1>6. ASSUME NEW role \in Roles, NEW rest \in Seq(C)
        PROVE  Update(role, rest) \in Seq(C)
    <2>1. role \in pending => {FetchOf(role), EraseOf(role), WriteOf(role)} \subseteq C
      BY <1>4 DEF C
    <2>2. CASE role \in pending
      <3>1. Update(role, rest) = <<FetchOf(role), EraseOf(role), WriteOf(role)>> \o rest
        BY <2>2 DEF Update, FetchOf, EraseOf, WriteOf
      <3>2. <<FetchOf(role), EraseOf(role), WriteOf(role)>> \in Seq(C)
        BY <2>1, <2>2
      <3> QED
        BY <3>1, <3>2, ConcatProperties
    <2>3. CASE role \notin pending
      BY <2>3 DEF Update
    <2> QED
      BY <2>2, <2>3
  <1>7. AfterKernel \in Seq(C)
    BY <1>5, <1>6 DEF AfterKernel, Roles
  <1>8. AfterEnv \in Seq(C)
    BY <1>6, <1>7 DEF AfterEnv, Roles
  <1>9. Update("env", AfterEnv) \in Seq(C)
    BY <1>6, <1>8 DEF Roles
  <1>10. InstallScript = Update("uboot", Update("env", AfterEnv))
    BY DEF InstallScript, AfterEnv, AfterKernel, Ending
  <1>11. InstallScript \in Seq(C)
    BY <1>6, <1>9, <1>10 DEF Roles
  <1>12. \A role \in Roles : Rest(role) \in {Update("env", AfterEnv), AfterEnv, AfterKernel, Ending}
    BY DEF Rest, Roles
  <1>13. \A role \in Roles : Rest(role) \in Seq(C)
    BY <1>5, <1>7, <1>8, <1>9, <1>12
  <1> QED
    BY <1>2, <1>3, <1>4, <1>11, <1>13 DEF C

\* The three commands of an update, one after the other.
LEMMA UpdateInFront ==
    ASSUME PlanInv, payloads # Nothing, NEW role \in pending
    PROVE  /\ FromFetch(role) = <<FetchOf(role)>> \o FromErase(role)
           /\ FromErase(role) = <<EraseOf(role)>> \o FromWrite(role)
           /\ FromWrite(role) = <<WriteOf(role)>> \o Rest(role)
           /\ {FromErase(role), FromWrite(role), Rest(role)} \subseteq Seq(Commands)
  <1> DEFINE f == FetchOf(role)
             e == EraseOf(role)
             w == WriteOf(role)
             rest == Rest(role)
             C == Commands
  <1>1. f \in C /\ e \in C /\ w \in C /\ rest \in Seq(C)
    BY RestIsScript DEF PlanInv
  <1> HIDE DEF f, e, w, rest, C
  <1>2. <<f>> \in Seq(C) /\ <<e>> \in Seq(C) /\ <<w>> \in Seq(C) /\ <<e, w>> \in Seq(C)
    BY <1>1
  <1>3. <<f, e, w>> = <<f>> \o <<e, w>>
    OBVIOUS
  <1>4. <<e, w>> = <<e>> \o <<w>>
    <2>1. <<e>> \o <<w>> \in Seq(C) /\ Len(<<e>> \o <<w>>) = 2 /\ Len(<<e, w>>) = 2
      BY <1>2
    <2>2. \A i \in 1 .. 2 : (<<e>> \o <<w>>)[i] = <<e, w>>[i]
      OBVIOUS
    <2> QED
      BY <1>2, <2>1, <2>2, SeqEqual
  <1>5. (<<f>> \o <<e, w>>) \o rest = <<f>> \o (<<e, w>> \o rest)
    BY <1>1, <1>2, ConcatAssociative
  <1>6. (<<e>> \o <<w>>) \o rest = <<e>> \o (<<w>> \o rest)
    BY <1>1, <1>2, ConcatAssociative
  <1>7. <<e, w>> \o rest \in Seq(C) /\ <<w>> \o rest \in Seq(C)
    BY <1>1, <1>2, ConcatProperties
  <1> QED
    BY <1>1, <1>3, <1>4, <1>5, <1>6, <1>7, Zenon
    DEF FromFetch, FromErase, FromWrite, f, e, w, rest, C

\* What a command erases or writes.
LEMMA CommandIs ==
    ASSUME PlanInv, NEW cmd \in Commands, cmd.do \in {"erase", "write"}
    PROVE  /\ cmd.offset \in Nat /\ cmd.size \in Nat /\ cmd.offset + cmd.size <= FlashSize
           /\ payloads # Nothing =>
                  \/ overlay # Nothing /\ cmd.offset = overlay.offset /\ cmd.size <= overlay.size
                  \/ \E role \in pending :
                         cmd.offset = payloads[role].offset /\ cmd.size <= payloads[role].size
  <1>1. FlashSize \in Nat /\ Limits \subseteq 1 .. FlashSize
    BY InstallAssumption
  <1>2. CASE payloads = Nothing
    <2>1. cmd \in RestoreCommands
      BY <1>2 DEF Commands
    <2>2. PICK max \in Limits : cmd = Erase(0, max) \/ cmd = Write(0, max)
      <3>1. \A n : Fetch("backup", n, TRUE).do = "fetch"
        BY DEF Fetch
      <3>2. \A what : Say(what).do = "say"
        BY DEF Say
      <3> QED
        BY <2>1, <3>1, <3>2 DEF RestoreCommands
    <2>3. cmd.offset = 0 /\ cmd.size = max
      BY <2>2 DEF Erase, Write
    <2>4. max \in 1 .. FlashSize
      BY <1>1
    <2> QED
      BY <1>1, <1>2, <2>3, <2>4
  <1>3. CASE payloads # Nothing
    <2>1. cmd \in InstallCommands
      BY <1>3 DEF Commands
    <2>2. \/ \E role \in pending : cmd = Erase(payloads[role].offset, payloads[role].size)
          \/ \E role \in pending : cmd = Write(payloads[role].offset, Len(payloads[role].body))
          \/ overlay # Nothing /\ cmd = Erase(overlay.offset, overlay.size)
      BY <2>1 DEF InstallCommands, Fetch, Say, Reset
    <2>3. CASE overlay # Nothing /\ cmd = Erase(overlay.offset, overlay.size)
      <3>1. InRange(overlay, FlashSize)
        BY <2>3 DEF PlanInv, SoundOverlay
      <3>2. cmd.offset = overlay.offset /\ cmd.size = overlay.size
        BY <2>3 DEF Erase
      <3> QED
        BY <2>3, <3>1, <3>2 DEF InRange, EndOf
    <2>4. ASSUME NEW role \in pending,
                 \/ cmd = Erase(payloads[role].offset, payloads[role].size)
                 \/ cmd = Write(payloads[role].offset, Len(payloads[role].body))
          PROVE  /\ cmd.offset \in Nat /\ cmd.size \in Nat /\ cmd.offset + cmd.size <= FlashSize
                 /\ cmd.offset = payloads[role].offset /\ cmd.size <= payloads[role].size
      <3>1. /\ InRange(payloads[role], FlashSize) /\ Len(payloads[role].body) <= payloads[role].size
            /\ payloads[role].body \in Seq(Contents)
        BY <1>3 DEF PlanInv, SoundPlan, PayloadType
      <3>2. Len(payloads[role].body) \in Nat
        BY <3>1
      <3>3. cmd.offset = payloads[role].offset
            /\ cmd.size \in {payloads[role].size, Len(payloads[role].body)}
        BY <2>4 DEF Erase, Write
      <3>4. /\ payloads[role].offset \in Nat /\ payloads[role].size \in Nat
            /\ payloads[role].offset + payloads[role].size <= FlashSize
        BY <3>1 DEF InRange, EndOf
      <3>5. cmd.size \in Nat /\ cmd.size <= payloads[role].size
        <4>1. Len(payloads[role].body) <= payloads[role].size
          BY <3>1
        <4> QED
          BY <3>2, <3>3, <3>4, <4>1
      <3> QED
        BY <1>1, <3>3, <3>4, <3>5
    <2> QED
      BY <2>2, <2>3, <2>4
  <1> QED
    BY <1>2, <1>3

(***************************************************************************)
(* What erasing, writing and booting do to the flash.                      *)
(***************************************************************************)
LEMMA AfterIs ==
    ASSUME Types, NEW cmd, cmd.offset \in Nat, NEW n \in Nat
    PROVE  /\ After(cmd, n) \in [Addresses -> Block]
           /\ \A b \in Addresses :
                  IF b < cmd.offset \/ b >= cmd.offset + n THEN After(cmd, n)[b] = flash[b]
                  ELSE IF cmd.do = "erase" THEN After(cmd, n)[b] = Erased
                  ELSE After(cmd, n)[b] = IF b - cmd.offset + 1 <= Len(ram)
                                          THEN ram[b - cmd.offset + 1] ELSE Junk
  <1> DEFINE f == After(cmd, n)
  <1>1. \A b \in Addresses : b \in Nat
    BY InstallAssumption DEF Addresses
  <1>2. ASSUME NEW b \in Addresses
        PROVE  IF b < cmd.offset \/ b >= cmd.offset + n THEN f[b] = flash[b]
               ELSE IF cmd.do = "erase" THEN f[b] = Erased
               ELSE f[b] = IF b - cmd.offset + 1 <= Len(ram)
                           THEN ram[b - cmd.offset + 1] ELSE Junk
    <2>1. b - cmd.offset + 1 > n <=> b >= cmd.offset + n
      BY <1>1
    <2> QED
      BY <2>1 DEF After
  <1>3. ASSUME NEW b \in Addresses PROVE f[b] \in Block
    <2>1. flash[b] \in Block /\ ram \in Seq(Block)
      BY DEF Types
    <2>2. Erased \in Block /\ Junk \in Block
      BY DEF Block
    <2>3. ASSUME ~(b < cmd.offset), b - cmd.offset + 1 <= Len(ram)
          PROVE  ram[b - cmd.offset + 1] \in Block
      <3>1. b - cmd.offset + 1 \in 1 .. Len(ram)
        BY <1>1, <2>3
      <3> QED
        BY <2>1, <3>1
    <2> HIDE DEF f
    <2> QED
      BY <1>2, <2>1, <2>2, <2>3
  <1>4. f = [b \in Addresses |-> f[b]]
    BY DEF After
  <1> HIDE DEF f
  <1>5. f \in [Addresses -> Block]
    BY <1>3, <1>4
  <1> QED
    BY <1>2, <1>5 DEF f

LEMMA BootIs ==
    ASSUME PlanInv, NEW f \in [Addresses -> Block], NEW g \in Booted(f)
    PROVE  /\ g \in [Addresses -> Block]
           /\ \/ g = f
              \/ /\ payloads # Nothing
                 /\ payloads["env"].offset \in Addresses
                 /\ f[payloads["env"].offset] \in EnvBlocks
                 /\ g = [f EXCEPT ![payloads["env"].offset] = Saved]
  <1>1. CASE g = f
    BY <1>1
  <1>2. CASE g # f
    <2> DEFINE p == payloads["env"]
    <2>1. /\ payloads # Nothing /\ g = [f EXCEPT ![p.offset] = Saved]
          /\ \A b \in Area(p) : f[b] = Image(p)[b]
      BY <1>2 DEF Booted
    <2>2. /\ InRange(p, FlashSize) /\ Len(p.body) > 0 /\ p.body[1] \in EnvBlocks
      BY <2>1 DEF PlanInv, SoundPlan, Roles
    <2>3. Len(p.body) \in Nat
      <3>1. p \in PayloadType
        BY <2>1 DEF PlanInv, SoundPlan, Roles
      <3>2. p.body \in Seq(Contents)
        BY <3>1 DEF PayloadType
      <3> QED
        BY <3>2
    <2> HIDE DEF p
    <2>4. p.offset \in Area(p) /\ p.offset \in Addresses
      BY <2>2, InstallAssumption DEF InRange, EndOf, Area, Addresses
    <2>5. p.offset - p.offset + 1 = 1
      BY <2>2 DEF InRange
    <2>6. Image(p)[p.offset] = p.body[1]
      BY <2>2, <2>3, <2>4, <2>5 DEF Image
    <2>7. f[p.offset] \in EnvBlocks
      BY <2>1, <2>2, <2>4, <2>6
    <2>8. g \in [Addresses -> Block]
      BY <2>1 DEF Block
    <2> QED
      BY <2>1, <2>4, <2>7, <2>8 DEF p
  <1> QED
    BY <1>1, <1>2

(***************************************************************************)
(* A sound plan, and the type of every variable.                           *)
(***************************************************************************)
LEMMA PlanStep ==
    ASSUME PlanInv, [Next]_vars
    PROVE  PlanInv'
  <1>1. ASSUME payloads' = Nothing, pending' = {}, overlay' = Nothing
        PROVE  PlanInv'
    BY <1>1 DEF PlanInv
  <1>2. ASSUME NEW o \in Offers, NEW wipe \in BOOLEAN, Install(o, wipe)
        PROVE  PlanInv'
    <2>1. /\ o.layout # <<>>
          /\ wipe => Has(o.layout, "overlay")
          /\ payloads' = Payloads(o)
          /\ pending' \subseteq Roles
          /\ overlay' = IF wipe THEN Entry(o.layout, "overlay") ELSE Nothing
      BY <1>2 DEF Install, Plan
    <2>2. /\ SoundPlan(payloads') /\ payloads' # Nothing
          /\ wipe => SoundOverlay(Entry(o.layout, "overlay"), payloads')
      <3>1. /\ SoundPlan(Payloads(o)) /\ Payloads(o) # Nothing
            /\ wipe => SoundOverlay(Entry(o.layout, "overlay"), Payloads(o))
        BY <2>1, PlanIsSound
      <3> QED
        BY <2>1, <3>1
    <2> QED
      BY <2>1, <2>2 DEF PlanInv
  <1>3. ASSUME UNCHANGED <<payloads, pending, overlay>>
        PROVE  PlanInv'
    BY <1>3 DEF PlanInv
  <1>4. CASE ServerStep
    <2>1. ASSUME NEW max \in Limits, SaveBackup(max) PROVE PlanInv'
      BY <2>1, <1>1 DEF SaveBackup
    <2>2. ASSUME NEW n \in DOMAIN backups, NEW max \in Limits,
                 ReplaceBackup(n, max) \/ StartRestore(n, max)
          PROVE  PlanInv'
      BY <2>2, <1>1 DEF ReplaceBackup, StartRestore
    <2>3. ASSUME NEW o \in Offers, NEW wipe \in BOOLEAN, Refuse(o, wipe) PROVE PlanInv'
      BY <2>3, <1>1 DEF Refuse
    <2>4. CASE BackUp \/ Stage
      BY <2>4, <1>3 DEF BackUp, Stage
    <2> QED
      BY <1>4, <2>1, <2>2, <2>3, <2>4, <1>2 DEF ServerStep
  <1>5. CASE BoardStep
    BY <1>5, <1>3 DEF BoardStep, RunFetch, FetchFails, RunErase, RunWrite, RunSay, RunReset, serverVars
  <1>6. CASE Environment \/ UNCHANGED vars
    BY <1>6, <1>3 DEF Environment, PowerLoss, OtherStages, serverVars, vars
  <1> QED
    BY <1>4, <1>5, <1>6 DEF Next

\* What the board may fetch is there.
LEMMA FetchIs ==
    ASSUME PlanInv, Types, ModeInv, Runs("fetch")
    PROVE  LET file == Head(script).file
           IN  /\ Served(file) \in Seq(Block)
               /\ PartitionsOf(file) \subseteq pending
  <1>1. Head(script) \in Commands /\ Head(script).do = "fetch" /\ mode = "script"
    BY TailIsScript DEF Runs, ModeInv
  <1> DEFINE cmd == Head(script)
  <1> HIDE DEF cmd
  <1>2. PartitionsOf(cmd.file) \subseteq pending
    BY DEF PartitionsOf, StagedAs
  <1>3. CASE payloads = Nothing
    <2>1. \E n \in DOMAIN backups : cmd = Fetch("backup", n, TRUE)
      <3>1. cmd \in RestoreCommands
        BY <1>1, <1>3 DEF Commands, cmd
      <3>2. /\ \A offset, size : Erase(offset, size).do = "erase" /\ Write(offset, size).do = "write"
            /\ \A what : Say(what).do = "say"
        BY DEF Erase, Write, Say
      <3> QED
        BY <3>1, <3>2, <1>1 DEF RestoreCommands, cmd
    <2>2. PICK n \in DOMAIN backups : cmd.file = [dir |-> "backup", name |-> n]
      BY <2>1 DEF Fetch
    <2>3. Served(cmd.file) = backups[n]
      BY <2>2 DEF Served
    <2> QED
      BY <1>2, <2>3 DEF Types, cmd
  <1>4. CASE payloads # Nothing
    <2>1. \E role \in pending : cmd = Fetch("install", payloads[role].source, FALSE)
      <3>1. cmd \in InstallCommands
        BY <1>1, <1>4 DEF Commands, cmd
      <3>2. /\ \A offset, size : Erase(offset, size).do = "erase" /\ Write(offset, size).do = "write"
            /\ \A what : Say(what).do = "say"
            /\ Reset.do = "reset"
        BY DEF Erase, Write, Say, Reset
      <3> QED
        BY <3>1, <3>2, <1>1 DEF InstallCommands, cmd
    <2>2. PICK role \in pending : cmd.file = [dir |-> "install", name |-> payloads[role].source]
      BY <2>1 DEF Fetch
    <2>3. Served(cmd.file) = files[payloads[role].source]
      BY <2>2 DEF Served
    <2>4. payloads[role].source \in Sources /\ files[payloads[role].source] # Nothing
      BY <1>1, <1>4 DEF PlanInv, SoundPlan, PayloadType, ModeInv
    <2>5. files[payloads[role].source] \in Seq(Contents)
      BY <2>4 DEF Types
    <2>6. files[payloads[role].source] \in Seq(Block)
      BY <2>5 DEF Block
    <2> QED
      BY <1>2, <2>3, <2>6 DEF cmd
  <1> QED
    BY <1>3, <1>4

\* A fetch that fails leaves a mixture in RAM.
LEMMA PartOfFetch ==
    ASSUME NEW S, NEW body \in Seq(S), NEW old \in Seq(S), NEW n \in Nat, n < Len(body)
    PROVE  SubSeq(body, 1, n) \o SubSeq(old, n + 1, Len(old)) \in Seq(S)
  <1>1. SubSeq(body, 1, n) \in Seq(S)
    <2>1. \A i \in 1 .. n : body[i] \in S
      OBVIOUS
    <2> QED
      BY <2>1, SubSeqProperties
  <1>2. SubSeq(old, n + 1, Len(old)) \in Seq(S)
    <2>1. CASE n <= Len(old)
      BY <2>1, SubSeqProperties
    <2>2. CASE n > Len(old)
      <3>1. SubSeq(old, n + 1, Len(old)) = <<>>
        BY <2>2, SubSeqEmpty
      <3> QED
        BY <3>1
    <2> QED
      BY <2>1, <2>2
  <1> QED
    BY <1>1, <1>2, ConcatProperties

\* An image of the flash is a list of its blocks.
LEMMA SavedIsTyped ==
    ASSUME Types, NEW m \in 1 .. FlashSize
    PROVE  /\ Append(backups, Snapshot(m)) \in Seq(Seq(Block))
           /\ \A n \in DOMAIN backups : [backups EXCEPT ![n] = Snapshot(m)] \in Seq(Seq(Block))
  <1> DEFINE image == Snapshot(m)
  <1>1. m \in Nat
    BY InstallAssumption
  <1>2. \A i \in 1 .. m : i - 1 \in Addresses
    BY InstallAssumption DEF Addresses
  <1>3. image \in [1 .. m -> Block]
    BY <1>2 DEF Types, Snapshot
  <1> HIDE DEF image
  <1>4. image \in Seq(Block)
    BY <1>1, <1>3, SeqDef
  <1>5. \A n \in DOMAIN backups : [backups EXCEPT ![n] = image] \in Seq(Seq(Block))
    BY <1>4 DEF Types
  <1>6. Append(backups, image) \in Seq(Seq(Block))
    BY <1>4, AppendProperties DEF Types
  <1> QED
    BY <1>5, <1>6 DEF image

LEMMA TypesStep ==
    ASSUME PlanInv, Types, ModeInv, [Next]_vars
    PROVE  Types'
  <1> USE DEF Types
  <1>1. ASSUME Begin PROVE runs' \in 0 .. MaxRuns
    BY <1>1, InstallAssumption DEF Begin
  <1>2. ASSUME NEW max \in Limits, SaveBackup(max) PROVE Types'
    <2>1. max \in 1 .. FlashSize
      BY InstallAssumption
    <2>2. backups' \in Seq(Seq(Block))
      BY <1>2, <2>1, SavedIsTyped DEF SaveBackup
    <2> QED
      BY <1>2, <2>2, <1>1 DEF SaveBackup, Begin
  <1>3. ASSUME NEW n \in DOMAIN backups, NEW max \in Limits, StartRestore(n, max) PROVE Types'
    BY <1>3, <1>1 DEF StartRestore, Begin
  <1>4. ASSUME NEW o \in Offers, NEW wipe \in BOOLEAN, Refuse(o, wipe) \/ Install(o, wipe)
        PROVE  Types'
    <2>1. Begin /\ UNCHANGED <<backups, dropped>> /\ mode' \in {"idle", "backup"}
      BY <1>4 DEF Refuse, Install, Begin
    <2> QED
      BY <2>1, <1>1 DEF Begin
  <1>5. CASE BackUp
    <2>1. FlashSize \in 1 .. FlashSize
      BY InstallAssumption
    <2>2. backups' \in Seq(Seq(Block))
      BY <1>5, <2>1, SavedIsTyped DEF BackUp
    <2> QED
      BY <1>5, <2>2 DEF BackUp, history
  <1>6. CASE Stage
    <2>1. files' \in [Sources -> Seq(Contents) \cup {Nothing}]
      <3>1. ASSUME NEW s \in Sources, StagedAs(s) # {}
            PROVE  payloads[CHOOSE role \in StagedAs(s) : TRUE].body \in Seq(Contents)
        <4>1. (CHOOSE role \in StagedAs(s) : TRUE) \in pending
          BY <3>1 DEF StagedAs
        <4>2. payloads # Nothing
          BY <1>6 DEF Stage, ModeInv
        <4> QED
          BY <4>1, <4>2 DEF PlanInv, SoundPlan, PayloadType
      <3>2. files' = [s \in Sources |-> IF StagedAs(s) = {} THEN files[s]
                          ELSE payloads[CHOOSE role \in StagedAs(s) : TRUE].body]
        BY <1>6 DEF Stage
      <3> QED
        BY <3>1, <3>2
    <2> QED
      BY <1>6, <2>1 DEF Stage
  <1>7. CASE RunFetch
    <2>1. Runs("fetch")
      BY <1>7 DEF RunFetch
    <2>2. ram' \in Seq(Block) /\ lost' \subseteq Roles
      BY <2>1, <1>7, FetchIs DEF RunFetch, Missed, PlanInv
    <2> QED
      BY <1>7, <2>2 DEF RunFetch, serverVars
  <1>8. ASSUME NEW n \in 0 .. FlashSize, FetchFails(n) PROVE Types'
    <2>1. Runs("fetch")
      BY <1>8 DEF FetchFails
    <2>2. lost' \subseteq Roles
      BY <2>1, <1>8, FetchIs DEF FetchFails, PlanInv
    <2>3. ram' \in Seq(Block)
      <3>1. n \in Nat
        BY InstallAssumption
      <3>2. /\ n < Len(Served(Head(script).file)) /\ Served(Head(script).file) \in Seq(Block)
            /\ ram' = SubSeq(Served(Head(script).file), 1, n) \o SubSeq(ram, n + 1, Len(ram))
        BY <2>1, <1>8, FetchIs DEF FetchFails
      <3> QED
        BY <3>1, <3>2, PartOfFetch
    <2> QED
      BY <1>8, <2>2, <2>3 DEF FetchFails, serverVars
  <1>9. CASE RunErase \/ RunWrite
    <2>1. /\ Runs("erase") \/ Runs("write")
          /\ flash' = After(Head(script), Head(script).size)
          /\ UNCHANGED <<ram, mode, runs, serverVars, history>>
      BY <1>9 DEF RunErase, RunWrite
    <2>2. Head(script) \in Commands /\ Head(script).do \in {"erase", "write"}
      BY <2>1, TailIsScript DEF Runs, ModeInv
    <2>3. flash' \in [Addresses -> Block]
      BY <2>1, <2>2, CommandIs, AfterIs
    <2> QED
      BY <2>1, <2>3 DEF serverVars, history
  <1>10. CASE RunSay
    BY <1>10 DEF RunSay, Runs, serverVars, history
  <1>11. CASE RunReset
    <2>1. flash' \in [Addresses -> Block]
      BY <1>11, BootIs DEF RunReset
    <2> QED
      BY <1>11, <2>1 DEF RunReset, serverVars
  <1>12. ASSUME NEW n \in 0 .. FlashSize, PowerLoss(n) PROVE Types'
    <2>1. n \in Nat
      BY InstallAssumption
    <2>2. flash' \in [Addresses -> Block]
      <3>1. CASE mode = "script" /\ script # <<>> /\ Head(script).do \in {"erase", "write"}
        <4>1. flash' \in Booted(After(Head(script), n))
          BY <1>12, <3>1 DEF PowerLoss, Interrupted
        <4>2. Head(script) \in Commands
          BY <3>1, TailIsScript DEF ModeInv
        <4>3. After(Head(script), n) \in [Addresses -> Block]
          BY <2>1, <3>1, <4>2, CommandIs, AfterIs
        <4> QED
          BY <4>1, <4>3, BootIs
      <3>2. CASE flash' \in Booted(flash)
        BY <3>2, BootIs
      <3> QED
        BY <1>12, <3>1, <3>2 DEF PowerLoss, Interrupted
    <2> QED
      BY <1>12, <2>2 DEF PowerLoss, serverVars, history
  <1>13. ASSUME NEW o \in Offers, NEW role \in {"uboot", "kernel", "rootfs"}, OtherStages(o, role)
         PROVE  Types'
    <2>1. o.layout # <<>>
      BY <1>13 DEF OtherStages
    <2>2. o.release.images[role] \in Seq(Contents)
      BY <2>1, OfferIs, FoundIsPublished
    <2>3. files' \in [Sources -> Seq(Contents) \cup {Nothing}]
      BY <1>13, <2>2 DEF OtherStages
    <2> QED
      BY <1>13, <2>3 DEF OtherStages, history
  <1>14. CASE UNCHANGED vars
    BY <1>14 DEF vars, serverVars, history
  <1>15. ASSUME NEW n \in DOMAIN backups, NEW max \in Limits, ReplaceBackup(n, max) PROVE Types'
    <2>1. max \in 1 .. FlashSize
      BY InstallAssumption
    <2>2. backups' \in Seq(Seq(Block))
      BY <1>15, <2>1, SavedIsTyped DEF ReplaceBackup
    <2>3. dropped' \subseteq Addresses
      BY <1>15 DEF ReplaceBackup, KeptBy
    <2> QED
      BY <1>15, <2>2, <2>3, <1>1 DEF ReplaceBackup, Begin
  <1> QED
    BY <1>2, <1>3, <1>4, <1>5, <1>6, <1>7, <1>8, <1>9, <1>10, <1>11, <1>12, <1>13, <1>14, <1>15
    DEF Next, ServerStep, BoardStep, Environment

(***************************************************************************)
(* The next command, and what is left behind it.                           *)
(***************************************************************************)
NextIs(cmd, rest) == script # <<>> /\ Head(script) = cmd /\ Tail(script) = rest

OverlayErase == Erase(overlay.offset, overlay.size)

LEMMA InstallPositions ==
    ASSUME PlanInv, Installing
    PROVE  \/ \E role \in pending :
                  /\ Ready(role)
                  /\ \/ NextIs(FetchOf(role), FromErase(role))
                     \/ NextIs(EraseOf(role), FromWrite(role)) /\ Fetched(role)
                     \/ /\ NextIs(WriteOf(role), Rest(role))
                        /\ Fetched(role) /\ IsErased(payloads[role])
           \/ /\ \A role \in Roles : Finished(role)
              /\ \/ overlay # Nothing /\ NextIs(OverlayErase, <<Say("updated"), Reset>>)
                 \/ NextIs(Say("updated"), <<Reset>>)
                 \/ NextIs(Reset, <<>>) /\ script = <<Reset>>
  <1>1. payloads # Nothing
    BY DEF Installing
  <1>2. ASSUME NEW role \in Roles, Updating(role)
        PROVE  /\ role \in pending /\ Ready(role)
               /\ \/ NextIs(FetchOf(role), FromErase(role))
                  \/ NextIs(EraseOf(role), FromWrite(role)) /\ Fetched(role)
                  \/ /\ NextIs(WriteOf(role), Rest(role))
                     /\ Fetched(role) /\ IsErased(payloads[role])
    <2>1. Ready(role) /\ role \in pending /\ (AtFetch(role) \/ AtErase(role) \/ AtWrite(role))
      BY <1>2 DEF Updating, Ready
    <2>2. /\ FetchOf(role) \in Commands /\ EraseOf(role) \in Commands /\ WriteOf(role) \in Commands
          /\ FromErase(role) \in Seq(Commands) /\ FromWrite(role) \in Seq(Commands)
          /\ Rest(role) \in Seq(Commands)
      BY <1>1, <2>1, RestIsScript, UpdateInFront
    <2>3. /\ FromFetch(role) = <<FetchOf(role)>> \o FromErase(role)
          /\ FromErase(role) = <<EraseOf(role)>> \o FromWrite(role)
          /\ FromWrite(role) = <<WriteOf(role)>> \o Rest(role)
      BY <1>1, <2>1, UpdateInFront
    <2>4. script = FromFetch(role) => NextIs(FetchOf(role), FromErase(role))
      BY <2>2, <2>3, OneInFront DEF NextIs
    <2>5. script = FromErase(role) => NextIs(EraseOf(role), FromWrite(role))
      BY <2>2, <2>3, OneInFront DEF NextIs
    <2>6. script = FromWrite(role) => NextIs(WriteOf(role), Rest(role))
      BY <2>2, <2>3, OneInFront DEF NextIs
    <2> QED
      BY <2>1, <2>4, <2>5, <2>6 DEF AtFetch, AtErase, AtWrite
  <1>3. ASSUME AllUpdated
        PROVE  /\ \A role \in Roles : Finished(role)
               /\ \/ overlay # Nothing /\ NextIs(OverlayErase, <<Say("updated"), Reset>>)
                  \/ NextIs(Say("updated"), <<Reset>>)
                  \/ NextIs(Reset, <<>>) /\ script = <<Reset>>
    <2> DEFINE e == OverlayErase
               s == Say("updated")
               r == Reset
    <2> HIDE DEF e, s, r
    <2>1. ASSUME script = <<e, s, r>> PROVE NextIs(e, <<s, r>>)
      BY <2>1 DEF NextIs
    <2>2. ASSUME script = <<s, r>> PROVE NextIs(s, <<r>>)
      BY <2>2 DEF NextIs
    <2>3. ASSUME script = <<r>> PROVE NextIs(r, <<>>)
      BY <2>3 DEF NextIs
    <2> QED
      BY <1>3, <2>1, <2>2, <2>3 DEF AllUpdated, e, s, r, OverlayErase
  <1> QED
    BY <1>2, <1>3 DEF Installing

LEMMA RestorePositions ==
    ASSUME NEW n, NEW max, RestoreAt(n, max)
    PROVE  \/ /\ NextIs(Fetch("backup", n, TRUE), <<Erase(0, max), Write(0, max), Say("restored")>>)
              /\ flash = before
           \/ /\ NextIs(Erase(0, max), <<Write(0, max), Say("restored")>>)
              /\ ram = backups[n] /\ flash = before
           \/ /\ NextIs(Write(0, max), <<Say("restored")>>)
              /\ ram = backups[n] /\ \A b \in Addresses : b >= max => flash[b] = before[b]
           \/ NextIs(Say("restored"), <<>>) /\ Restored(n)
           \/ NextIs(Say("not modified"), <<>>) /\ flash = before
  <1> DEFINE f == Fetch("backup", n, TRUE)
             e == Erase(0, max)
             w == Write(0, max)
             s == Say("restored")
             u == Say("not modified")
  <1>1. RestoreScript(n, max) = <<f, e, w, s>>
    BY DEF RestoreScript
  <1> HIDE DEF f, e, w, s, u
  <1>2. ASSUME script = <<f, e, w, s>> PROVE NextIs(f, <<e, w, s>>)
    BY <1>2 DEF NextIs
  <1>3. ASSUME script = <<e, w, s>> PROVE NextIs(e, <<w, s>>)
    BY <1>3 DEF NextIs
  <1>4. ASSUME script = <<w, s>> PROVE NextIs(w, <<s>>)
    BY <1>4 DEF NextIs
  <1>5. \A x : script = <<x>> => NextIs(x, <<>>)
    BY DEF NextIs
  <1> QED
    BY <1>1, <1>2, <1>3, <1>4, <1>5 DEF RestoreAt, f, e, w, s, u

\* What a command does tells which it is.
LEMMA Commanded ==
    /\ \A role : FetchOf(role).do = "fetch" /\ EraseOf(role).do = "erase" /\ WriteOf(role).do = "write"
    /\ \A dir, n, c : Fetch(dir, n, c).do = "fetch"
    /\ \A offset, size : Erase(offset, size).do = "erase" /\ Write(offset, size).do = "write"
    /\ \A what : Say(what).do = "say"
    /\ Reset.do = "reset" /\ OverlayErase.do = "erase"
  BY DEF FetchOf, EraseOf, WriteOf, Fetch, Erase, Write, Say, Reset, OverlayErase

\* While a script runs its plan stays.
LEMMA PlanKept ==
    ASSUME UNCHANGED <<payloads, pending, overlay>>
    PROVE  /\ Ending' = Ending /\ AfterKernel' = AfterKernel /\ AfterEnv' = AfterEnv
           /\ InstallScript' = InstallScript
           /\ \A role : Rest(role)' = Rest(role)
           /\ \A role : FetchOf(role)' = FetchOf(role) /\ EraseOf(role)' = EraseOf(role)
           /\ \A role : WriteOf(role)' = WriteOf(role)
           /\ \A role : FromFetch(role)' = FromFetch(role)
           /\ \A role : FromErase(role)' = FromErase(role) /\ FromWrite(role)' = FromWrite(role)
  <1>1. Ending' = Ending
    BY DEF Ending, EraseOverlay
  <1>2. \A role, rest : Update(role, rest)' = Update(role, rest)
    BY DEF Update
  <1>3. AfterKernel' = AfterKernel
    BY <1>1 DEF AfterKernel, Update
  <1>4. AfterEnv' = AfterEnv
    BY <1>3 DEF AfterEnv, Update
  <1>5. \A role : Rest(role)' = Rest(role)
    BY <1>1, <1>3, <1>4 DEF Rest, Update
  <1>6. InstallScript' = InstallScript
    BY DEF InstallScript, Update, EraseOverlay
  <1>7. \A role : /\ FetchOf(role)' = FetchOf(role) /\ EraseOf(role)' = EraseOf(role)
                  /\ WriteOf(role)' = WriteOf(role)
    BY DEF FetchOf, EraseOf, WriteOf
  <1>8. \A role : FromFetch(role)' = FromFetch(role)
    BY <1>5, <1>7 DEF FromFetch
  <1>9. \A role : FromErase(role)' = FromErase(role) /\ FromWrite(role)' = FromWrite(role)
    BY <1>5, <1>7 DEF FromErase, FromWrite
  <1> QED
    BY <1>1, <1>3, <1>4, <1>5, <1>6, <1>7, <1>8, <1>9

\* When a partition is done the script goes on with the next that is pending, or to its end.
LEMMA GoesOn ==
    ASSUME PlanInv, payloads # Nothing, UNCHANGED <<payloads, pending, overlay>>,
           \/ /\ script' = InstallScript
              /\ \A r \in Roles : r \notin pending => Finished(r)'
           \/ \E role \in Roles :
                  /\ script' = Rest(role)
                  /\ \A r \in Roles : r \notin pending \/ r \in Preceding(role) \cup {role} => Finished(r)'
    PROVE  Installing' /\ script' # <<>>
  <1> DEFINE Done(S) == \A r \in Roles : r \notin pending \/ r \in S => Finished(r)'
             Goal == Installing' /\ script' # <<>>
             C == Commands
  <1>1. /\ {Ending, AfterKernel, AfterEnv, Update("env", AfterEnv)} \subseteq Seq(C)
        /\ \A role \in pending : {FetchOf(role), EraseOf(role), WriteOf(role)} \subseteq C
    <2>1. {Rest("rootfs"), Rest("kernel"), Rest("env"), Rest("uboot")} \subseteq Seq(C)
      BY RestIsScript DEF Roles
    <2> QED
      BY <2>1, RestIsScript DEF Rest
  <1> HIDE DEF C
  <1>2. ASSUME script' = Ending, Done(Roles) PROVE Goal
    <2>1. \A r \in Roles : Finished(r)'
      BY <1>2
    <2>2. CASE overlay = Nothing
      <3>1. script' = <<Say("updated"), Reset>>
        BY <1>2, <2>2 DEF Ending, EraseOverlay
      <3> QED
        BY <2>1, <3>1 DEF Installing, AllUpdated
    <2>3. CASE overlay # Nothing
      <3> DEFINE e == Erase(overlay.offset, overlay.size)
                 s == Say("updated")
                 r == Reset
      <3>1. script' = <<e>> \o <<s, r>>
        BY <1>2, <2>3 DEF Ending, EraseOverlay
      <3>2. script' = <<e, s, r>>
        <4> HIDE DEF e, s, r
        <4>1. <<e, s, r>> = <<e>> \o <<s, r>>
          OBVIOUS
        <4> QED
          BY <3>1, <4>1
      <3> QED
        BY <2>1, <2>3, <3>2 DEF Installing, AllUpdated
    <2> QED
      BY <2>2, <2>3
  <1>3. ASSUME NEW role \in Roles, role \in pending, script' = Update(role, Rest(role)),
               Rest(role) \in Seq(C), Done(Preceding(role))
        PROVE  Goal
    <2>1. script' = FromFetch(role)
      BY <1>3 DEF Update, FromFetch, FetchOf, EraseOf, WriteOf
    <2>2. AtFetch(role)'
      BY <2>1, PlanKept DEF AtFetch
    <2>3. Ready(role)'
      BY <1>3 DEF Ready
    <2>4. Installing'
      BY <2>2, <2>3 DEF Installing, Updating
    <2>5. FetchOf(role) \in C /\ FromErase(role) \in Seq(C)
      BY <1>1, <1>3, UpdateInFront DEF C
    <2>6. script' # <<>>
      <3>1. script' = <<FetchOf(role)>> \o FromErase(role)
        BY <2>1, <1>3, UpdateInFront
      <3> QED
        BY <3>1, <2>5, OneInFront
    <2> QED
      BY <2>4, <2>6
  <1>4. ASSUME script' = AfterKernel, Done({"uboot", "env", "kernel"}) PROVE Goal
    <2>1. CASE "rootfs" \in pending
      <3>1. script' = Update("rootfs", Rest("rootfs")) /\ Rest("rootfs") \in Seq(C)
        BY <1>1, <1>4 DEF AfterKernel, Rest
      <3> QED
        BY <1>3, <1>4, <2>1, <3>1 DEF Preceding, Roles
    <2>2. CASE "rootfs" \notin pending
      <3>1. script' = Ending
        BY <1>4, <2>2 DEF AfterKernel, Update
      <3>2. Done(Roles)
        BY <1>4, <2>2 DEF Roles
      <3> QED
        BY <1>2, <3>1, <3>2
    <2> QED
      BY <2>1, <2>2
  <1>5. ASSUME script' = AfterEnv, Done({"uboot", "env"}) PROVE Goal
    <2>1. CASE "kernel" \in pending
      <3>1. script' = Update("kernel", Rest("kernel")) /\ Rest("kernel") \in Seq(C)
        BY <1>1, <1>5 DEF AfterEnv, Rest
      <3> QED
        BY <1>3, <1>5, <2>1, <3>1 DEF Preceding, Roles
    <2>2. CASE "kernel" \notin pending
      <3>1. script' = AfterKernel
        BY <1>5, <2>2 DEF AfterEnv, Update
      <3>2. Done({"uboot", "env", "kernel"})
        BY <1>5, <2>2 DEF Roles
      <3> QED
        BY <1>4, <3>1, <3>2
    <2> QED
      BY <2>1, <2>2
  <1>6. ASSUME script' = Update("env", AfterEnv), Done({"uboot"}) PROVE Goal
    <2>1. CASE "env" \in pending
      <3>1. script' = Update("env", Rest("env")) /\ Rest("env") \in Seq(C)
        BY <1>1, <1>6 DEF Rest
      <3> QED
        BY <1>3, <1>6, <2>1, <3>1 DEF Preceding, Roles
    <2>2. CASE "env" \notin pending
      <3>1. script' = AfterEnv
        BY <1>6, <2>2 DEF Update
      <3>2. Done({"uboot", "env"})
        BY <1>6, <2>2 DEF Roles
      <3> QED
        BY <1>5, <3>1, <3>2
    <2> QED
      BY <2>1, <2>2
  <1>7. ASSUME script' = InstallScript, Done({}) PROVE Goal
    <2>1. InstallScript = Update("uboot", Update("env", AfterEnv))
      BY DEF InstallScript, AfterEnv, AfterKernel, Ending
    <2>2. CASE "uboot" \in pending
      <3>1. script' = Update("uboot", Rest("uboot")) /\ Rest("uboot") \in Seq(C)
        BY <1>1, <1>7, <2>1 DEF Rest
      <3> QED
        BY <1>3, <1>7, <2>2, <3>1 DEF Preceding, Roles
    <2>3. CASE "uboot" \notin pending
      <3>1. script' = Update("env", AfterEnv)
        BY <1>7, <2>1, <2>3 DEF Update
      <3>2. Done({"uboot"})
        BY <1>7, <2>3 DEF Roles
      <3> QED
        BY <1>6, <3>1, <3>2
    <2> QED
      BY <2>2, <2>3
  <1>8. ASSUME NEW role \in Roles, script' = Rest(role), Done(Preceding(role) \cup {role})
        PROVE  Goal
    <2>1. CASE role = "uboot"
      BY <1>6, <1>8, <2>1 DEF Rest, Preceding
    <2>2. CASE role = "env"
      BY <1>5, <1>8, <2>2 DEF Rest, Preceding
    <2>3. CASE role = "kernel"
      BY <1>4, <1>8, <2>3 DEF Rest, Preceding
    <2>4. CASE role = "rootfs"
      BY <1>2, <1>8, <2>4 DEF Rest, Preceding, Roles
    <2> QED
      BY <2>1, <2>2, <2>3, <2>4 DEF Roles
  <1> QED
    BY <1>7, <1>8

\* What is written elsewhere leaves an image as it is.
LEMMA ElsewhereKeeps ==
    ASSUME NEW part, InRange(part, FlashSize), NEW p, InRange(p, FlashSize), Apart(part, p),
           \A b \in Addresses : b < part.offset \/ b >= EndOf(part) => flash'[b] = flash[b],
           Matches(p)
    PROVE  \A b \in Area(p) : flash'[b] = Image(p)[b]
  <1> SUFFICES ASSUME NEW b \in Area(p)
               PROVE  flash'[b] = Image(p)[b]
    OBVIOUS
  <1>1. b \in Addresses /\ b >= p.offset /\ b < EndOf(p)
    BY InstallAssumption DEF InRange, EndOf, Area, Addresses
  <1>2. b < part.offset \/ b >= EndOf(part)
    BY <1>1 DEF Apart, InRange, Addresses
  <1> QED
    BY <1>1, <1>2 DEF Matches

LEMMA PayloadsInRange ==
    ASSUME PlanInv, payloads # Nothing
    PROVE  /\ \A role \in Roles : /\ InRange(payloads[role], FlashSize)
                                  /\ payloads[role].body \in Seq(Contents)
                                  /\ Len(payloads[role].body) \in Nat
                                  /\ Len(payloads[role].body) <= payloads[role].size
                                  /\ payloads[role].source \in Sources
           /\ \A r, s \in Roles : r # s => Apart(payloads[r], payloads[s])
           /\ overlay # Nothing => /\ InRange(overlay, FlashSize)
                                   /\ \A role \in Roles : Apart(overlay, payloads[role])
           /\ pending \subseteq Roles
  <1>1. SoundPlan(payloads) /\ pending \subseteq Roles
    BY DEF PlanInv
  <1>2. ASSUME NEW role \in Roles
        PROVE  payloads[role].body \in Seq(Contents) /\ payloads[role].source \in Sources
    <2>1. payloads[role] \in PayloadType
      BY <1>1 DEF SoundPlan
    <2> QED
      BY <2>1 DEF PayloadType
  <1>3. \A role \in Roles : Len(payloads[role].body) \in Nat
    BY <1>2
  <1>4. overlay # Nothing => /\ InRange(overlay, FlashSize)
                             /\ \A role \in Roles : Apart(overlay, payloads[role])
    BY DEF PlanInv, SoundOverlay
  <1> QED
    BY <1>1, <1>2, <1>3, <1>4 DEF SoundPlan

(***************************************************************************)
(* The steps of a script.                                                  *)
(***************************************************************************)
\* Erasing, or writing, role's partition leaves the others, and what was finished stays so.
LEMMA OthersKept ==
    ASSUME PlanInv, payloads # Nothing, UNCHANGED <<payloads, lost>>, NEW role \in Roles,
           \A b \in Addresses : b < payloads[role].offset \/ b >= EndOf(payloads[role]) =>
               flash'[b] = flash[b],
           NEW r \in Roles, r # role, Finished(r)
    PROVE  Finished(r)'
  <1>1. CASE r \in lost
    BY <1>1 DEF Finished
  <1>2. CASE Matches(payloads[r])
    <2>1. \A b \in Area(payloads[r]) : flash'[b] = Image(payloads[r])[b]
      BY <1>2, PayloadsInRange, ElsewhereKeeps
    <2> QED
      BY <2>1 DEF Finished, Matches, Image, Area
  <1> QED
    BY <1>1, <1>2 DEF Finished

LEMMA FetchStep ==
    ASSUME PlanInv, Types, ModeInv, ScriptInv, RunFetch \/ \E n \in 0 .. FlashSize : FetchFails(n)
    PROVE  (Installing' \/ Restoring') /\ script' # <<>>
  <1>1. /\ Runs("fetch") /\ mode = "script" /\ script # <<>> /\ Head(script).do = "fetch"
        /\ UNCHANGED <<flash, payloads, pending, overlay, backups, before>>
        /\ lost \subseteq lost'
    BY DEF RunFetch, FetchFails, Runs, serverVars
  <1>2. \A r : Finished(r) => Finished(r)'
    BY <1>1 DEF Finished, Matches, Image, Area
  <1>3. CASE Installing
    <2>1. PICK role \in pending : Ready(role) /\ NextIs(FetchOf(role), FromErase(role))
      BY <1>1, <1>3, InstallPositions, Commanded DEF NextIs
    <2>2. payloads # Nothing /\ role \in Roles
      BY <1>3, <2>1 DEF Installing, PlanInv
    <2>3. Head(script).file = [dir |-> "install", name |-> payloads[role].source]
          /\ Head(script).checked = FALSE
      BY <2>1 DEF NextIs, FetchOf, Fetch
    <2>4. role \in PartitionsOf(Head(script).file)
      BY <2>1, <2>3 DEF PartitionsOf, StagedAs
    <2>5. script' = FromErase(role)
      BY <2>1, <2>3 DEF RunFetch, FetchFails, NextIs
    <2>6. Fetched(role)'
      BY <1>1, <2>4 DEF RunFetch, FetchFails, Missed, Fetched
    <2>7. AtErase(role)'
      BY <1>1, <2>5, <2>6, PlanKept DEF AtErase
    <2>8. Ready(role)'
      BY <1>1, <1>2, <2>1 DEF Ready
    <2>9. Installing'
      BY <1>1, <2>2, <2>7, <2>8 DEF Installing, Updating
    <2>10. script' # <<>>
      <3>1. EraseOf(role) \in Commands /\ FromWrite(role) \in Seq(Commands)
        BY <2>1, <2>2, RestIsScript, UpdateInFront
      <3>2. script' = <<EraseOf(role)>> \o FromWrite(role)
        BY <2>1, <2>2, <2>5, UpdateInFront
      <3> QED
        BY <3>1, <3>2, OneInFront
    <2> QED
      BY <2>9, <2>10
  <1>4. CASE Restoring
    <2>1. PICK n \in DOMAIN backups, max \in Limits : Len(backups[n]) = max /\ RestoreAt(n, max)
      BY <1>4 DEF Restoring
    <2>2. /\ NextIs(Fetch("backup", n, TRUE), <<Erase(0, max), Write(0, max), Say("restored")>>)
          /\ flash = before
      BY <1>1, <2>1, RestorePositions, Commanded DEF NextIs
    <2>3. Head(script).file = [dir |-> "backup", name |-> n] /\ Head(script).checked
      BY <2>2 DEF NextIs, Fetch
    <2>4. CASE RunFetch
      <3>1. ram' = backups[n] /\ script' = <<Erase(0, max), Write(0, max), Say("restored")>>
        BY <2>2, <2>3, <2>4 DEF RunFetch, Served, NextIs
      <3>2. RestoreAt(n, max)'
        BY <1>1, <2>2, <3>1 DEF RestoreAt
      <3>3. Restoring'
        BY <1>1, <1>4, <2>1, <3>2 DEF Restoring
      <3> QED
        BY <3>1, <3>3
    <2>5. CASE \E m \in 0 .. FlashSize : FetchFails(m)
      <3>1. script' = <<Say("not modified")>>
        BY <2>3, <2>5 DEF FetchFails
      <3>2. RestoreAt(n, max)'
        BY <1>1, <2>2, <3>1 DEF RestoreAt
      <3>3. Restoring'
        BY <1>1, <1>4, <2>1, <3>2 DEF Restoring
      <3> QED
        BY <3>1, <3>3
    <2> QED
      BY <2>4, <2>5
  <1> QED
    BY <1>1, <1>3, <1>4 DEF ScriptInv

LEMMA EraseStep ==
    ASSUME PlanInv, Types, ModeInv, ScriptInv, RunErase
    PROVE  (Installing' \/ Restoring') /\ script' # <<>>
  <1>1. /\ Runs("erase") /\ mode = "script" /\ script # <<>> /\ Head(script).do = "erase"
        /\ UNCHANGED <<ram, payloads, pending, overlay, backups, before, lost>>
        /\ flash' = After(Head(script), Head(script).size) /\ script' = Tail(script)
    BY DEF RunErase, Runs, serverVars, history
  <1>2. CASE Installing
    <2>1. payloads # Nothing
      BY <1>2 DEF Installing
    <2>2. ASSUME NEW role \in pending, Ready(role), NextIs(EraseOf(role), FromWrite(role)),
                 Fetched(role)
          PROVE  Installing' /\ script' # <<>>
      <3> DEFINE p == payloads[role]
      <3>1. role \in Roles /\ InRange(p, FlashSize)
        BY <2>1, PayloadsInRange
      <3>2. Head(script).offset = p.offset /\ Head(script).size = p.size
        BY <2>2 DEF NextIs, EraseOf, Erase
      <3>3. \A b \in Addresses : IF b < p.offset \/ b >= EndOf(p) THEN flash'[b] = flash[b]
                                 ELSE flash'[b] = Erased
        BY <1>1, <3>1, <3>2, AfterIs DEF InRange, EndOf
      <3>4. IsErased(p)'
        <4>1. \A b \in Area(p) : b \in Addresses /\ ~(b < p.offset \/ b >= EndOf(p))
          BY <3>1, InstallAssumption DEF Area, Addresses, InRange, EndOf
        <4>2. \A b \in Area(p) : flash'[b] = Erased
          BY <3>3, <4>1
        <4> QED
          BY <1>1, <4>2 DEF IsErased, Area
      <3>5. Ready(role)'
        <4>1. ASSUME NEW r \in Roles, r \notin pending \/ r \in Preceding(role)
              PROVE  Finished(r)'
          <5>1. Finished(r)
            BY <2>2, <4>1 DEF Ready
          <5>2. r # role
            BY <2>2, <3>1, <4>1 DEF Preceding, Roles
          <5> QED
            BY <1>1, <2>1, <3>1, <3>3, <5>1, <5>2, OthersKept
        <4> QED
          BY <1>1, <2>2, <4>1 DEF Ready
      <3>6. script' = FromWrite(role)
        BY <1>1, <2>2 DEF NextIs
      <3>7. AtWrite(role)'
        BY <1>1, <2>2, <3>4, <3>6, PlanKept DEF AtWrite, Fetched
      <3>8. Installing'
        BY <1>1, <2>1, <3>1, <3>5, <3>7 DEF Installing, Updating
      <3>9. script' # <<>>
        <4>1. WriteOf(role) \in Commands /\ Rest(role) \in Seq(Commands)
          BY <2>1, <3>1, RestIsScript
        <4>2. script' = <<WriteOf(role)>> \o Rest(role)
          BY <3>6 DEF FromWrite
        <4> QED
          BY <4>1, <4>2, OneInFront
      <3> QED
        BY <3>8, <3>9
    <2>3. ASSUME \A role \in Roles : Finished(role), overlay # Nothing,
                 NextIs(OverlayErase, <<Say("updated"), Reset>>)
          PROVE  Installing' /\ script' # <<>>
      <3>1. Head(script).offset = overlay.offset /\ Head(script).size = overlay.size
        BY <2>3 DEF NextIs, OverlayErase, Erase
      <3>2. InRange(overlay, FlashSize)
        BY <2>1, <2>3, PayloadsInRange
      <3>3. \A b \in Addresses : b < overlay.offset \/ b >= EndOf(overlay) => flash'[b] = flash[b]
        BY <1>1, <3>1, <3>2, AfterIs DEF InRange, EndOf
      <3>4. ASSUME NEW role \in Roles PROVE Finished(role)'
        <4>1. CASE role \in lost
          BY <1>1, <4>1 DEF Finished
        <4>2. CASE Matches(payloads[role])
          <5>1. \A b \in Area(payloads[role]) : flash'[b] = Image(payloads[role])[b]
            BY <2>1, <2>3, <3>2, <3>3, <4>2, PayloadsInRange, ElsewhereKeeps
          <5> QED
            BY <1>1, <5>1 DEF Finished, Matches, Image, Area
        <4> QED
          BY <2>3, <4>1, <4>2 DEF Finished
      <3>5. script' = <<Say("updated"), Reset>>
        BY <1>1, <2>3 DEF NextIs
      <3>6. AllUpdated'
        BY <1>1, <3>4, <3>5 DEF AllUpdated
      <3>7. script' # <<>>
        BY <3>5
      <3> QED
        BY <1>1, <2>1, <3>6, <3>7 DEF Installing
    <2> QED
      BY <1>1, <1>2, <2>2, <2>3, InstallPositions, Commanded DEF NextIs
  <1>3. CASE Restoring
    <2>1. PICK n \in DOMAIN backups, max \in Limits : Len(backups[n]) = max /\ RestoreAt(n, max)
      BY <1>3 DEF Restoring
    <2>2. /\ NextIs(Erase(0, max), <<Write(0, max), Say("restored")>>)
          /\ ram = backups[n] /\ flash = before
      BY <1>1, <2>1, RestorePositions, Commanded DEF NextIs
    <2>3. Head(script).offset = 0 /\ Head(script).size = max
      BY <2>2 DEF NextIs, Erase
    <2>4. max \in Nat
      BY InstallAssumption
    <2>5. \A b \in Addresses : b >= max => flash'[b] = flash[b]
      BY <1>1, <2>3, <2>4, AfterIs
    <2>6. script' = <<Write(0, max), Say("restored")>>
      BY <1>1, <2>2 DEF NextIs
    <2>7. RestoreAt(n, max)'
      BY <1>1, <2>2, <2>5, <2>6 DEF RestoreAt
    <2>8. Restoring'
      BY <1>1, <1>3, <2>1, <2>7 DEF Restoring
    <2> QED
      BY <2>6, <2>8
  <1> QED
    BY <1>1, <1>2, <1>3 DEF ScriptInv

LEMMA WriteStep ==
    ASSUME PlanInv, Types, ModeInv, ScriptInv, RunWrite
    PROVE  (Installing' \/ Restoring') /\ script' # <<>>
  <1>1. /\ Runs("write") /\ mode = "script" /\ script # <<>> /\ Head(script).do = "write"
        /\ UNCHANGED <<ram, payloads, pending, overlay, backups, before, lost>>
        /\ flash' = After(Head(script), Head(script).size) /\ script' = Tail(script)
    BY DEF RunWrite, Runs, serverVars, history
  <1>2. CASE Installing
    <2>1. payloads # Nothing
      BY <1>2 DEF Installing
    <2>2. PICK role \in pending :
              Ready(role) /\ NextIs(WriteOf(role), Rest(role)) /\ Fetched(role)
              /\ IsErased(payloads[role])
      BY <1>1, <1>2, InstallPositions, Commanded DEF NextIs
    <2> DEFINE p == payloads[role]
               n == Len(p.body)
    <2>3. role \in Roles /\ InRange(p, FlashSize) /\ n \in Nat /\ n <= p.size
      BY <2>1, PayloadsInRange
    <2>4. Head(script).offset = p.offset /\ Head(script).size = n
      BY <2>2 DEF NextIs, WriteOf, Write
    <2>5. p.offset \in Nat
      BY <2>3 DEF InRange
    <2>6. \A b \in Addresses :
              IF b < p.offset \/ b >= p.offset + n THEN flash'[b] = flash[b]
              ELSE flash'[b] = IF b - p.offset + 1 <= Len(ram) THEN ram[b - p.offset + 1] ELSE Junk
      BY <1>1, <2>3, <2>4, <2>5, AfterIs
    <2>7. \A b \in Addresses : b < p.offset \/ b >= EndOf(p) => flash'[b] = flash[b]
      <3>1. EndOf(p) >= p.offset + n /\ EndOf(p) \in Nat
        BY <2>3 DEF InRange, EndOf
      <3>2. \A b \in Addresses : b \in Nat
        BY InstallAssumption DEF Addresses
      <3> HIDE DEF p, n
      <3>3. \A b \in Addresses : b >= EndOf(p) => b >= p.offset + n
        BY <2>3, <2>5, <3>1, <3>2
      <3> QED
        BY <2>6, <3>3
    <2>8. Finished(role)'
      <3>1. CASE role \in lost
        BY <1>1, <3>1 DEF Finished
      <3>2. CASE ram = p.body
        <4>1. ASSUME NEW b \in Area(p) PROVE flash'[b] = Image(p)[b]
          <5>1. b \in Addresses /\ b \in Int /\ b >= p.offset
            BY <2>3, InstallAssumption DEF Area, Addresses, InRange, EndOf
          <5>2. Image(p)[b] = IF b - p.offset + 1 <= n THEN p.body[b - p.offset + 1] ELSE Erased
            BY <4>1 DEF Image
          <5>3. flash[b] = Erased
            BY <2>2, <4>1 DEF IsErased
          <5> HIDE DEF p, n
          <5>4. b >= p.offset + n <=> ~(b - p.offset + 1 <= n)
            BY <2>3, <2>5, <5>1
          <5>5. CASE b >= p.offset + n
            BY <2>6, <5>1, <5>2, <5>3, <5>4, <5>5
          <5>6. CASE ~(b >= p.offset + n)
            <6>1. ~(b < p.offset)
              BY <2>5, <5>1
            <6>2. flash'[b] = IF b - p.offset + 1 <= Len(ram) THEN ram[b - p.offset + 1] ELSE Junk
              BY <2>6, <5>1, <5>6, <6>1
            <6>3. Len(ram) = n
              BY <3>2 DEF n
            <6> QED
              BY <3>2, <5>2, <5>4, <5>6, <6>2, <6>3
          <5> QED
            BY <5>5, <5>6
        <4> QED
          BY <1>1, <4>1 DEF Finished, Matches, Image, Area
      <3> QED
        BY <2>2, <3>1, <3>2 DEF Fetched
    <2>9. ASSUME NEW r \in Roles, r \notin pending \/ r \in Preceding(role) \cup {role}
          PROVE  Finished(r)'
      <3>1. CASE r = role
        BY <2>8, <3>1
      <3>2. CASE r # role
        <4>1. Finished(r)
          BY <2>2, <2>9, <3>2 DEF Ready
        <4> QED
          BY <1>1, <2>1, <2>3, <2>7, <3>2, <4>1, OthersKept
      <3> QED
        BY <3>1, <3>2
    <2>10. script' = Rest(role)
      BY <1>1, <2>2 DEF NextIs
    <2> QED
      BY <1>1, <2>1, <2>3, <2>9, <2>10, GoesOn
  <1>3. CASE Restoring
    <2>1. PICK n \in DOMAIN backups, max \in Limits : Len(backups[n]) = max /\ RestoreAt(n, max)
      BY <1>3 DEF Restoring
    <2>2. /\ NextIs(Write(0, max), <<Say("restored")>>)
          /\ ram = backups[n] /\ \A b \in Addresses : b >= max => flash[b] = before[b]
      BY <1>1, <2>1, RestorePositions, Commanded DEF NextIs
    <2>3. Head(script).offset = 0 /\ Head(script).size = max /\ Head(script).do = "write"
      BY <1>1, <2>2 DEF NextIs, Write
    <2>4. max \in Nat /\ \A b \in Addresses : b \in Nat
      BY InstallAssumption DEF Addresses
    <2>5. \A b \in Addresses : flash'[b] = IF b < Len(backups[n]) THEN backups[n][b + 1] ELSE before[b]
      <3> TAKE b \in Addresses
      <3>1. b - 0 + 1 = b + 1 /\ (b >= 0 + max <=> ~(b < max)) /\ ~(b < 0) /\ (b < max <=> b + 1 <= max)
        BY <2>4
      <3>2. IF b < 0 \/ b >= 0 + max THEN flash'[b] = flash[b]
            ELSE flash'[b] = IF b - 0 + 1 <= Len(ram) THEN ram[b - 0 + 1] ELSE Junk
        <4> DEFINE cmd == Head(script)
        <4>1. flash' = After(cmd, max) /\ cmd.offset = 0 /\ cmd.offset \in Nat /\ cmd.do # "erase"
          BY <1>1, <2>3
        <4> HIDE DEF cmd
        <4>2. IF b < cmd.offset \/ b >= cmd.offset + max THEN After(cmd, max)[b] = flash[b]
              ELSE IF cmd.do = "erase" THEN After(cmd, max)[b] = Erased
              ELSE After(cmd, max)[b] = IF b - cmd.offset + 1 <= Len(ram)
                                        THEN ram[b - cmd.offset + 1] ELSE Junk
          BY <1>1, <2>4, <4>1, AfterIs
        <4> QED
          BY <4>1, <4>2
      <3>3. CASE b < max
        <4>1. flash'[b] = IF b + 1 <= Len(ram) THEN ram[b + 1] ELSE Junk
          BY <3>1, <3>2, <3>3
        <4>2. Len(ram) = max /\ ram = backups[n]
          BY <2>1, <2>2
        <4> QED
          BY <3>1, <3>3, <4>1, <4>2
      <3>4. CASE ~(b < max)
        BY <2>1, <2>2, <2>4, <3>1, <3>2, <3>4
      <3> QED
        BY <3>3, <3>4
    <2>6. flash' = [b \in Addresses |-> flash'[b]]
      BY <1>1 DEF After
    <2>7. script' = <<Say("restored")>>
      BY <1>1, <2>2 DEF NextIs
    <2>8. RestoreAt(n, max)'
      <3>1. Restored(n)'
        BY <1>1, <2>5, <2>6 DEF Restored
      <3> QED
        BY <2>7, <3>1 DEF RestoreAt
    <2>9. Restoring'
      BY <1>1, <1>3, <2>1, <2>8 DEF Restoring
    <2> QED
      BY <2>7, <2>9
  <1> QED
    BY <1>1, <1>2, <1>3 DEF ScriptInv

LEMMA SayStep ==
    ASSUME PlanInv, Types, ModeInv, ScriptInv, RunSay
    PROVE  /\ ScriptInv'
           /\ (mode' = "script") <=> (script' # <<>>)
           /\ mode' \in {"idle", "script"}
  <1>1. /\ Runs("say") /\ mode = "script" /\ script # <<>> /\ Head(script).do = "say"
        /\ UNCHANGED <<flash, ram, payloads, pending, overlay, backups, before, lost>>
        /\ said' = Head(script).what /\ script' = Tail(script)
        /\ mode' = IF Tail(script) = <<>> THEN "idle" ELSE mode
    BY DEF RunSay, Runs, serverVars, history
  <1>2. ((mode' = "script") <=> (script' # <<>>)) /\ mode' \in {"idle", "script"}
    BY <1>1
  <1>3. \A what : Say(what).what = what
    BY DEF Say
  <1>4. CASE Installing
    <2>1. /\ \A role \in Roles : Finished(role)
          /\ NextIs(Say("updated"), <<Reset>>)
      BY <1>1, <1>4, InstallPositions, Commanded DEF NextIs
    <2>2. said' = "updated" /\ script' = <<Reset>> /\ <<Reset>> # <<>>
      BY <1>1, <1>3, <2>1 DEF NextIs
    <2>3. \A role \in Roles : Finished(role)'
      BY <1>1, <2>1 DEF Finished, Matches, Image, Area
    <2>4. payloads' # Nothing /\ AllUpdated'
      BY <1>1, <1>4, <2>2, <2>3 DEF Installing, AllUpdated
    <2>5. mode' = "script"
      BY <1>1, <2>2
    <2>6. ScriptInv'
      BY <2>2, <2>3, <2>4, <2>5 DEF ScriptInv, Installing
    <2> QED
      BY <1>2, <2>6
  <1>5. CASE Restoring
    <2>1. PICK n \in DOMAIN backups, max \in Limits : Len(backups[n]) = max /\ RestoreAt(n, max)
      BY <1>5 DEF Restoring
    <2>2. \/ NextIs(Say("restored"), <<>>) /\ Restored(n)
          \/ NextIs(Say("not modified"), <<>>) /\ flash = before
      BY <1>1, <2>1, RestorePositions, Commanded DEF NextIs
    <2>3. script' = <<>> /\ mode' = "idle"
      BY <1>1, <2>2 DEF NextIs
    <2>4. \/ said' = "restored" /\ Restored(n)
          \/ said' = "not modified" /\ flash = before
      BY <1>1, <1>3, <2>2 DEF NextIs
    <2>5. Restored(n)' <=> Restored(n)
      BY <1>1 DEF Restored
    <2>6. ScriptInv'
      BY <1>1, <2>3, <2>4, <2>5 DEF ScriptInv
    <2> QED
      BY <1>2, <2>6
  <1> QED
    BY <1>1, <1>4, <1>5 DEF ScriptInv

\* Where nothing is changed that a script depends on.
LEMMA ScriptKept ==
    ASSUME ScriptInv,
           UNCHANGED <<flash, ram, mode, script, said, payloads, pending, overlay, backups, before, lost>>
    PROVE  ScriptInv'
  <1>1. \A r : Matches(payloads[r])' <=> Matches(payloads[r])
    BY DEF Matches, Image, Area
  <1>2. \A r : Finished(r)' <=> Finished(r)
    BY <1>1 DEF Finished
  <1>3. \A r : Ready(r)' <=> Ready(r)
    BY <1>2 DEF Ready
  <1>4. \A r : Updating(r)' <=> Updating(r)
    <2>1. \A r : /\ AtFetch(r)' <=> AtFetch(r)
                 /\ AtErase(r)' <=> AtErase(r)
      BY PlanKept DEF AtFetch, AtErase, Fetched
    <2>2. \A r : AtWrite(r)' <=> AtWrite(r)
      BY PlanKept DEF AtWrite, Fetched, IsErased, Area
    <2> QED
      BY <1>3, <2>1, <2>2 DEF Updating
  <1>5. AllUpdated' <=> AllUpdated
    BY <1>2 DEF AllUpdated
  <1>6. Installing' <=> Installing
    BY <1>4, <1>5 DEF Installing
  <1>7. \A n : Restored(n)' <=> Restored(n)
    BY DEF Restored
  <1>8. Restoring' <=> Restoring
    <2>1. \A n, max : RestoreAt(n, max)' <=> RestoreAt(n, max)
      BY <1>7 DEF RestoreAt
    <2> QED
      BY <2>1 DEF Restoring
  <1> QED
    BY <1>1, <1>2, <1>6, <1>7, <1>8 DEF ScriptInv

\* Nothing is said in a script before its end.
LEMMA SaidBefore ==
    ASSUME ModeInv, ScriptInv, mode # "idle", script = <<>> \/ Head(script).do \in {"fetch", "erase", "write"}
    PROVE  said \notin {"updated", "restored", "not modified"}
  <1>1. script # <<Reset>>
    <2>1. <<Reset>> # <<>> /\ Head(<<Reset>>) = Reset
      OBVIOUS
    <2> QED
      BY <2>1, Commanded
  <1> QED
    BY <1>1 DEF ScriptInv

LEMMA ScriptStep ==
    ASSUME PlanInv, Types, ModeInv, ScriptInv, [Next]_vars
    PROVE  ModeInv' /\ ScriptInv'
  <1> DEFINE Quiet == {"updated", "restored", "not modified"}
  <1>1. mode # "script" => script = <<>>
    BY DEF ModeInv
  <1>2. ASSUME mode = "idle", mode' \in {"idle", "backup"}, UNCHANGED script, said' \notin Quiet,
               mode' = "backup" => payloads' # Nothing /\
                   \A role \in Roles \ pending' : Matches(payloads[role])'
        PROVE  ModeInv' /\ ScriptInv'
    <2>1. script' = <<>> /\ <<>> \in Seq(Commands')
      <3>1. \A S : <<>> \in Seq(S)
        OBVIOUS
      <3> QED
        BY <1>1, <1>2, <3>1
    <2>2. ModeInv'
      BY <1>2, <2>1 DEF ModeInv
    <2>3. ScriptInv'
      BY <1>2, <2>1 DEF ScriptInv
    <2> QED
      BY <2>2, <2>3
  <1>3. ASSUME NEW max \in Limits,
               SaveBackup(max) \/ \E n \in DOMAIN backups : ReplaceBackup(n, max)
        PROVE  ModeInv' /\ ScriptInv'
    BY <1>3, <1>2 DEF SaveBackup, ReplaceBackup, Begin
  <1>4. ASSUME NEW o \in Offers, NEW wipe \in BOOLEAN, Refuse(o, wipe) PROVE ModeInv' /\ ScriptInv'
    BY <1>4, <1>2 DEF Refuse, Begin
  <1>5. ASSUME NEW o \in Offers, NEW wipe \in BOOLEAN, Install(o, wipe) PROVE ModeInv' /\ ScriptInv'
    <2>1. /\ o.layout # <<>> /\ payloads' = Payloads(o) /\ mode = "idle"
          /\ mode' \in {"idle", "backup"} /\ UNCHANGED <<script, flash>>
          /\ said' \notin Quiet
          /\ pending' = {role \in Roles : ~Matches(payloads'[role])}
      BY <1>5 DEF Install, Plan, Begin
    <2>2. payloads' # Nothing
      <3>1. Payloads(o) # Nothing
        BY <2>1, PlanIsSound
      <3> QED
        BY <2>1, <3>1
    <2>3. \A role \in Roles \ pending' : Matches(payloads[role])'
      BY <2>1 DEF Matches
    <2> QED
      BY <2>1, <2>2, <2>3, <1>2
  <1>6. ASSUME NEW n \in DOMAIN backups, NEW max \in Limits, StartRestore(n, max)
        PROVE  ModeInv' /\ ScriptInv'
    <2>1. /\ Len(backups[n]) = max /\ mode' = "script" /\ script' = RestoreScript(n, max)
          /\ payloads' = Nothing /\ pending' = {} /\ said' = "nothing"
          /\ before' = flash /\ UNCHANGED <<flash, backups>>
      BY <1>6 DEF StartRestore, Begin
    <2> DEFINE f == Fetch("backup", n, TRUE)
               e == Erase(0, max)
               w == Write(0, max)
               s == Say("restored")
               C == Commands'
    <2>2. f \in C /\ e \in C /\ w \in C /\ s \in C
      BY <2>1 DEF Commands, RestoreCommands
    <2>3. script' = <<f, e, w, s>>
      BY <2>1 DEF RestoreScript
    <2>4. script' \in Seq(C) /\ script' # <<>>
      <3> HIDE DEF f, e, w, s, C
      <3> QED
        BY <2>2, <2>3
    <2>5. ModeInv'
      BY <2>1, <2>4 DEF ModeInv
    <2>6. RestoreAt(n, max)'
      BY <2>1 DEF RestoreAt
    <2>7. Restoring'
      BY <2>1, <2>6 DEF Restoring
    <2>8. ScriptInv'
      BY <2>1, <2>7 DEF ScriptInv
    <2> QED
      BY <2>5, <2>8
  <1>7. CASE BackUp
    <2>1. /\ mode = "backup" /\ mode' = "stage" /\ script = <<>> /\ script' = <<>>
          /\ UNCHANGED <<flash, payloads, pending, said>>
      BY <1>7, <1>1 DEF BackUp
    <2>2. ModeInv'
      BY <2>1 DEF ModeInv
    <2>3. said \notin Quiet
      BY <2>1, SaidBefore
    <2>4. \A role \in Roles \ pending' : Matches(payloads[role])'
      <3>1. \A role \in Roles \ pending : Matches(payloads[role])
        BY <2>1 DEF ScriptInv
      <3>2. \A role \in Roles : Matches(payloads[role])' <=> Matches(payloads[role])
        BY <2>1 DEF Matches, Image, Area
      <3> QED
        BY <2>1, <3>1, <3>2
    <2>5. mode' # "script" /\ said' \notin Quiet
      BY <2>1, <2>3
    <2>6. ScriptInv'
      BY <2>4, <2>5 DEF ScriptInv, Quiet
    <2> QED
      BY <2>2, <2>6
  <1>8. CASE Stage
    <2>1. /\ mode = "stage" /\ mode' = "script" /\ script = <<>> /\ script' = InstallScript
          /\ UNCHANGED <<flash, payloads, pending, overlay, said>>
          /\ payloads # Nothing
          /\ files' = [x \in Sources |-> IF StagedAs(x) = {} THEN files[x]
                          ELSE payloads[CHOOSE role \in StagedAs(x) : TRUE].body]
      BY <1>8, <1>1 DEF Stage, ModeInv
    <2>2. said \notin Quiet
      BY <2>1, SaidBefore
    <2>3. \A r \in Roles : r \notin pending => Finished(r)'
      BY <2>1 DEF ScriptInv, Finished, Matches, Image, Area
    <2>4. Installing' /\ script' # <<>>
      BY <2>1, <2>3, GoesOn
    <2>5. script' \in Seq(Commands')
      <3>1. Commands' = Commands
        BY <2>1 DEF Commands, InstallCommands
      <3> QED
        BY <2>1, <3>1, RestIsScript
    <2>6. ASSUME NEW role \in pending PROVE files'[payloads[role].source] # Nothing
      <3> DEFINE x == payloads[role].source
                 r == CHOOSE q \in StagedAs(x) : TRUE
      <3>1. x \in Sources
        BY <2>1, PayloadsInRange
      <3>2. role \in StagedAs(x)
        BY DEF StagedAs
      <3>3. r \in pending
        BY <3>2 DEF StagedAs
      <3>4. files'[x] = payloads[r].body
        <4> HIDE DEF x
        <4> QED
          BY <2>1, <3>1, <3>2
      <3> HIDE DEF r, x
      <3>5. payloads[r].body \in Seq(Contents)
        BY <2>1, <3>3, PayloadsInRange
      <3>6. payloads[r].body # Nothing
        BY <3>5, InstallAssumption
      <3> QED
        BY <3>4, <3>6 DEF x
    <2>7. ModeInv'
      BY <2>1, <2>4, <2>5, <2>6 DEF ModeInv
    <2>8. ScriptInv'
      BY <2>1, <2>2, <2>4 DEF ScriptInv
    <2> QED
      BY <2>7, <2>8
  <1>9. ASSUME RunFetch \/ (\E n \in 0 .. FlashSize : FetchFails(n)) \/ RunErase \/ RunWrite \/ RunSay,
               (mode' = "script") <=> (script' # <<>>), mode' \in {"idle", "script"}
        PROVE  ModeInv'
    <2>1. /\ UNCHANGED <<files, payloads, pending, overlay, backups>> /\ mode = "script" /\ script # <<>>
          /\ script' = Tail(script) \/
                 (script' = <<Say("not modified")>> /\ Head(script).checked /\ Head(script).do = "fetch")
      BY <1>9 DEF RunFetch, FetchFails, RunErase, RunWrite, RunSay, Runs, serverVars
    <2>2. script \in Seq(Commands) /\ Commands' = Commands
      BY <2>1 DEF ModeInv, Commands, InstallCommands, RestoreCommands
    <2>3. script' \in Seq(Commands)
      <3>1. CASE script' = Tail(script)
        BY <2>1, <2>2, <3>1, TailIsScript
      <3>2. CASE script' = <<Say("not modified")>> /\ Head(script).checked /\ Head(script).do = "fetch"
        <4> DEFINE cmd == Head(script)
        <4>1. cmd \in Commands
          BY <2>1, <2>2, TailIsScript
        <4> HIDE DEF cmd
        <4>2. cmd.checked /\ cmd.do = "fetch"
          BY <3>2 DEF cmd
        <4>3. ASSUME payloads # Nothing PROVE FALSE
          <5>1. cmd \in InstallCommands
            BY <4>1, <4>3 DEF Commands
          <5>2. \E role \in pending : cmd = Fetch("install", payloads[role].source, FALSE)
            BY <5>1, <4>2, Commanded DEF InstallCommands
          <5>3. \A role : Fetch("install", payloads[role].source, FALSE).checked = FALSE
            BY DEF Fetch
          <5> QED
            BY <5>2, <5>3, <4>2
        <4>4. Say("not modified") \in Commands
          BY <4>3 DEF Commands, RestoreCommands
        <4>5. \A S : \A x \in S : <<x>> \in Seq(S)
          OBVIOUS
        <4> QED
          BY <3>2, <4>4, <4>5
      <3> QED
        BY <2>1, <3>1, <3>2
    <2> QED
      BY <1>9, <2>1, <2>2, <2>3 DEF ModeInv
  <1>10. ASSUME RunFetch \/ (\E n \in 0 .. FlashSize : FetchFails(n)) \/ RunErase \/ RunWrite
         PROVE  ModeInv' /\ ScriptInv'
    <2>1. /\ UNCHANGED <<mode, said>> /\ mode = "script" /\ script # <<>>
          /\ Head(script).do \in {"fetch", "erase", "write"}
      BY <1>10 DEF RunFetch, FetchFails, RunErase, RunWrite, Runs, serverVars
    <2>2. (Installing' \/ Restoring') /\ script' # <<>>
      BY <1>10, FetchStep, EraseStep, WriteStep
    <2>3. said \notin Quiet
      BY <2>1, SaidBefore
    <2>4. ScriptInv'
      BY <2>1, <2>2, <2>3 DEF ScriptInv
    <2> QED
      BY <1>9, <1>10, <2>1, <2>2, <2>4
  <1>11. CASE RunSay
    BY <1>11, <1>9, SayStep
  <1>12. ASSUME mode' = "idle", script' = <<>>, said' = "nothing"
         PROVE  ModeInv' /\ ScriptInv'
    <2>1. <<>> \in Seq(Commands')
      OBVIOUS
    <2> QED
      BY <1>12, <2>1 DEF ModeInv, ScriptInv
  <1>13. ASSUME NEW o \in Offers, NEW role \in {"uboot", "kernel", "rootfs"}, OtherStages(o, role)
         PROVE  ModeInv' /\ ScriptInv'
    <2>1. /\ UNCHANGED <<flash, ram, mode, script, said, payloads, pending, overlay, backups,
                         before, lost>>
          /\ o.layout # <<>>
          /\ files' = [files EXCEPT ![o.release.sources[role]] = o.release.images[role]]
      BY <1>13 DEF OtherStages, history
    <2>2. ScriptInv'
      BY <2>1, ScriptKept
    <2>3. Commands' = Commands
      BY <2>1 DEF Commands, InstallCommands, RestoreCommands
    <2>4. o.release.images[role] # Nothing
      <3>1. o.release.images[role] \in Seq(Contents)
        BY <2>1, OfferIs, FoundIsPublished
      <3> QED
        BY <3>1, InstallAssumption
    <2>5. \A x \in Sources : files[x] # Nothing => files'[x] # Nothing
      BY <2>1, <2>4 DEF Types
    <2>6. mode = "script" => \A r \in pending : files'[payloads[r].source] # Nothing
      BY <2>5, PayloadsInRange DEF ModeInv, PlanInv
    <2> QED
      BY <2>1, <2>2, <2>3, <2>6 DEF ModeInv
  <1>14. CASE UNCHANGED vars
    <2>1. UNCHANGED <<flash, ram, mode, script, said, payloads, pending, overlay, backups,
                      before, lost, files>>
      BY <1>14 DEF vars, serverVars, history
    <2>2. ScriptInv'
      BY <2>1, ScriptKept
    <2>3. Commands' = Commands
      BY <2>1 DEF Commands, InstallCommands, RestoreCommands
    <2> QED
      BY <2>1, <2>2, <2>3 DEF ModeInv
  <1>15. CASE RunReset \/ \E n \in 0 .. FlashSize : PowerLoss(n)
    BY <1>15, <1>12 DEF RunReset, PowerLoss
  <1> QED
    BY <1>3, <1>4, <1>5, <1>6, <1>7, <1>8, <1>10, <1>11, <1>13, <1>14, <1>15
    DEF Next, ServerStep, BoardStep, Environment

\* Nothing is installed, saved or under way.
LEMMA InstallStarts == Init => PlanInv /\ Types /\ ModeInv /\ ScriptInv /\ CurrentInv
  <1> SUFFICES ASSUME Init
               PROVE  PlanInv /\ Types /\ ModeInv /\ ScriptInv /\ CurrentInv
    OBVIOUS
  <1>1. PlanInv
    BY DEF Init, PlanInv
  <1>2. Types
    <2>1. [b \in Addresses |-> Old] \in [Addresses -> Block]
      BY DEF Block
    <2>2. \A S : <<>> \in Seq(S)
      OBVIOUS
    <2> QED
      BY <2>1, <2>2, InstallAssumption DEF Init, Types
  <1>3. ModeInv
    <2>1. \A S : <<>> \in Seq(S)
      OBVIOUS
    <2> QED
      BY <2>1 DEF Init, ModeInv
  <1>4. ScriptInv /\ CurrentInv
    BY DEF Init, ScriptInv, CurrentInv
  <1> QED
    BY <1>1, <1>2, <1>3, <1>4

(***************************************************************************)
(* What every state of an installation, a backup or a restore satisfies.   *)
(***************************************************************************)
InstallInv == PlanInv /\ Types /\ ModeInv /\ ScriptInv

THEOREM InstallInvariant == Spec => []InstallInv
  <1>1. Init => InstallInv
    BY InstallStarts DEF InstallInv
  <1>2. InstallInv /\ [Next]_vars => InstallInv'
    BY PlanStep, TypesStep, ScriptStep DEF InstallInv
  <1> QED
    BY <1>1, <1>2, PTL DEF Spec

(* Every variable has its type: the board never fetches a file that is not there, nor erases or  *)
(* writes beyond its flash, and a session that waits for a script has one (openipc.py:853).      *)
THEOREM TypesHold == Spec => []TypeOK
  <1>1. InstallInv => TypeOK
    <2> SUFFICES ASSUME InstallInv
                 PROVE  TypeOK
      OBVIOUS
    <2> USE DEF InstallInv
    <2>1. \A s \in Sources : files[s] \in Seq(Block) \cup {Nothing}
      <3>1. \A x \in Seq(Contents) : x \in Seq(Block)
        BY DEF Block
      <3> QED
        BY <3>1 DEF Types
    <2>2. \A n \in DOMAIN backups : backups[n] \in Seq(Block)
      BY DEF Types
    <2>3. \A i \in DOMAIN script : script[i].do \in {"erase", "write"} =>
              script[i].offset + script[i].size <= FlashSize
      <3>1. \A i \in DOMAIN script : script[i] \in Commands
        BY DEF ModeInv
      <3> QED
        BY <3>1, CommandIs
    <2>4. /\ (mode = "script") <=> (script # <<>>)
          /\ pending \subseteq Roles
          /\ payloads = Nothing => pending = {} /\ overlay = Nothing
      BY DEF ModeInv, PlanInv
    <2> QED
      BY <2>1, <2>2, <2>3, <2>4 DEF TypeOK, Types
  <1> QED
    BY <1>1, InstallInvariant, PTL

(* When the board says which partitions were updated, every partition of the release holds its   *)
(* image, unless the board did not get the file that was put in place for it: whatever else was  *)
(* fetched before, erased and written after it (openipc.py:925).                                 *)
THEOREM UpdatesAreWhole == Spec => []UpdatedUnlessLost
  <1>1. InstallInv => UpdatedUnlessLost
    BY DEF InstallInv, ScriptInv, UpdatedUnlessLost, Finished
  <1> QED
    BY <1>1, InstallInvariant, PTL

(* A restore that says so has written exactly an image of the backup directory; one that says    *)
(* that nothing was modified has left the flash as it was (tools.py:295).                        *)
THEOREM RestoresAreWhole == Spec => []RestoreAllOrNothing
  <1>1. InstallInv => RestoreAllOrNothing
    BY DEF InstallInv, ScriptInv, RestoreAllOrNothing, Restored
  <1> QED
    BY <1>1, InstallInvariant, PTL

(***************************************************************************)
(* What an installation leaves alone.                                      *)
(***************************************************************************)
PlannedArea ==
    (IF overlay = Nothing THEN {} ELSE Area(overlay))
        \cup UNION {Area(payloads[role]) : role \in pending \cup {"env"}}

OnlyPlanned ==
    payloads # Nothing => \A b \in Addresses : flash[b] # before[b] => b \in PlannedArea

LEMMA CommandInPlan ==
    ASSUME InstallInv, payloads # Nothing, mode = "script", script # <<>>,
           Head(script).do \in {"erase", "write"},
           NEW n \in Nat, n <= Head(script).size,
           NEW b \in Addresses, After(Head(script), n)[b] # flash[b]
    PROVE  b \in PlannedArea
  <1> DEFINE cmd == Head(script)
  <1>1. cmd \in Commands
    BY TailIsScript DEF InstallInv, ModeInv
  <1>2. /\ cmd.offset \in Nat /\ cmd.size \in Nat
        /\ \/ overlay # Nothing /\ cmd.offset = overlay.offset /\ cmd.size <= overlay.size
           \/ \E role \in pending :
                  cmd.offset = payloads[role].offset /\ cmd.size <= payloads[role].size
    BY <1>1, CommandIs DEF InstallInv
  <1>3. ~(b < cmd.offset \/ b >= cmd.offset + n)
    BY <1>2, AfterIs DEF InstallInv
  <1>4. b \in Nat
    BY InstallAssumption DEF Addresses
  <1>5. ASSUME NEW part, InRange(part, FlashSize), cmd.offset = part.offset, cmd.size <= part.size
        PROVE  b \in Area(part)
    <2>1. part.size \in Nat /\ part.offset \in Nat
      BY <1>5 DEF InRange
    <2> HIDE DEF cmd
    <2>2. b >= part.offset /\ b <= part.offset + part.size - 1
      BY <1>2, <1>3, <1>4, <1>5, <2>1 DEF cmd
    <2> QED
      BY <1>4, <2>1, <2>2 DEF Area
  <1> HIDE DEF cmd
  <1>6. CASE overlay # Nothing /\ cmd.offset = overlay.offset /\ cmd.size <= overlay.size
    <2>1. b \in Area(overlay)
      BY <1>5, <1>6, PayloadsInRange DEF InstallInv
    <2> QED
      BY <1>6, <2>1 DEF PlannedArea
  <1>7. ASSUME NEW role \in pending, cmd.offset = payloads[role].offset, cmd.size <= payloads[role].size
        PROVE  b \in PlannedArea
    <2>1. b \in Area(payloads[role])
      BY <1>5, <1>7, PayloadsInRange DEF InstallInv
    <2> QED
      BY <2>1 DEF PlannedArea
  <1> QED
    BY <1>2, <1>6, <1>7

\* The first boot writes to the environment, which belongs to the plan.
LEMMA BootInPlan ==
    ASSUME InstallInv, payloads # Nothing, NEW f \in [Addresses -> Block], NEW g \in Booted(f),
           NEW b \in Addresses, g[b] # f[b]
    PROVE  b \in PlannedArea
  <1>1. b = payloads["env"].offset
    BY BootIs DEF InstallInv
  <1>2. InRange(payloads["env"], FlashSize)
    BY PayloadsInRange DEF InstallInv, Roles
  <1>3. b \in Area(payloads["env"])
    BY <1>1, <1>2 DEF InRange, Area
  <1> QED
    BY <1>3 DEF PlannedArea

LEMMA OnlyPlannedStep ==
    ASSUME InstallInv, OnlyPlanned, [Next]_vars
    PROVE  OnlyPlanned'
  <1>1. ASSUME before' = flash, UNCHANGED flash PROVE OnlyPlanned'
    BY <1>1 DEF OnlyPlanned
  <1>2. CASE ServerStep
    <2>1. ASSUME Begin PROVE OnlyPlanned'
      BY <2>1, <1>1 DEF Begin
    <2>2. CASE BackUp \/ Stage
      BY <2>2 DEF BackUp, Stage, OnlyPlanned, PlannedArea, Area, history
    <2> QED
      BY <1>2, <2>1, <2>2 DEF ServerStep, SaveBackup, ReplaceBackup, StartRestore, Refuse, Install
  <1>3. ASSUME UNCHANGED <<payloads, pending, overlay, before>>,
               payloads # Nothing => \A b \in Addresses : flash'[b] # flash[b] => b \in PlannedArea
        PROVE  OnlyPlanned'
    <2>1. PlannedArea' = PlannedArea
      BY <1>3 DEF PlannedArea, Area
    <2> QED
      BY <1>3, <2>1 DEF OnlyPlanned
  <1>4. CASE BoardStep
    <2>1. UNCHANGED <<payloads, pending, overlay, before>>
      BY <1>4 DEF BoardStep, RunFetch, FetchFails, RunErase, RunWrite, RunSay, RunReset,
                  serverVars, history
    <2>2. ASSUME payloads # Nothing, NEW b \in Addresses, flash'[b] # flash[b] PROVE b \in PlannedArea
      <3>1. CASE RunErase \/ RunWrite
        <4>1. /\ mode = "script" /\ script # <<>> /\ Head(script).do \in {"erase", "write"}
              /\ flash' = After(Head(script), Head(script).size)
          BY <3>1 DEF RunErase, RunWrite, Runs
        <4>2. Head(script).size \in Nat
          BY <4>1, TailIsScript, CommandIs DEF InstallInv, ModeInv
        <4> QED
          BY <2>2, <4>1, <4>2, CommandInPlan
      <3>2. CASE RunReset
        BY <2>2, <3>2, BootInPlan DEF RunReset, InstallInv, Types
      <3> QED
        BY <1>4, <2>2, <3>1, <3>2 DEF BoardStep, RunFetch, FetchFails, RunSay
    <2> QED
      BY <1>3, <2>1, <2>2
  <1>5. ASSUME NEW n \in 0 .. FlashSize, PowerLoss(n) PROVE OnlyPlanned'
    <2>1. UNCHANGED <<payloads, pending, overlay, before>>
      BY <1>5 DEF PowerLoss, serverVars, history
    <2>2. ASSUME payloads # Nothing, NEW b \in Addresses, flash'[b] # flash[b] PROVE b \in PlannedArea
      <3>1. CASE mode = "script" /\ script # <<>> /\ Head(script).do \in {"erase", "write"}
        <4> DEFINE f == After(Head(script), n)
        <4>1. n \in Nat /\ n <= Head(script).size /\ flash' \in Booted(f)
          BY <1>5, <3>1, InstallAssumption DEF PowerLoss, Interrupted
        <4>2. f \in [Addresses -> Block]
          BY <3>1, <4>1, TailIsScript, CommandIs, AfterIs DEF InstallInv, ModeInv
        <4> HIDE DEF f
        <4>3. CASE flash'[b] # f[b]
          BY <2>2, <4>1, <4>2, <4>3, BootInPlan
        <4>4. CASE flash'[b] = f[b]
          BY <2>2, <3>1, <4>1, <4>4, CommandInPlan DEF f
        <4> QED
          BY <4>3, <4>4
      <3>2. CASE flash' \in Booted(flash)
        BY <2>2, <3>2, BootInPlan DEF InstallInv, Types
      <3> QED
        BY <1>5, <3>1, <3>2 DEF PowerLoss, Interrupted
    <2> QED
      BY <1>3, <2>1, <2>2
  <1>6. CASE (\E o \in Offers, role \in {"uboot", "kernel", "rootfs"} : OtherStages(o, role))
             \/ UNCHANGED vars
    <2>1. UNCHANGED <<payloads, pending, overlay, before, flash>>
      BY <1>6 DEF OtherStages, vars, serverVars, history
    <2> QED
      BY <1>3, <2>1
  <1> QED
    BY <1>2, <1>4, <1>5, <1>6 DEF Next, Environment

(* An installation changes nothing but the partitions of its plan, the overlay it was told to    *)
(* erase and, at the first boot, the environment (openipc.py:769).                               *)
THEOREM OthersAreLeftAlone == Spec => []OnlyPlannedAreasChange
  <1>1. Init => OnlyPlanned
    BY DEF Init, OnlyPlanned
  <1>2. InstallInv /\ OnlyPlanned /\ [Next]_vars => OnlyPlanned'
    BY OnlyPlannedStep
  <1>3. OnlyPlanned => OnlyPlannedAreasChange
    BY DEF OnlyPlanned, OnlyPlannedAreasChange, PlannedArea
  <1> QED
    BY <1>1, <1>2, <1>3, InstallInvariant, PTL DEF Spec

(***************************************************************************)
(* The flash as an installation found it.                                  *)
(***************************************************************************)
HasBefore == \E n \in DOMAIN backups : backups[n] = [i \in 1 .. FlashSize |-> before[i - 1]]

\* There is an image of it before the commands are, and until then only a boot changes a block.
BeforeInv ==
    payloads # Nothing =>
        \/ HasBefore
        \/ /\ mode \in {"idle", "backup"}
           /\ mode = "backup" => flash = before
           /\ \A b \in Addresses : flash[b] \in {before[b], Saved}

LEMMA BeforeStep ==
    ASSUME InstallInv, BeforeInv, [Next]_vars
    PROVE  BeforeInv'
  <1>1. ASSUME payloads' = Nothing PROVE BeforeInv'
    BY <1>1 DEF BeforeInv
  <1>2. ASSUME UNCHANGED <<payloads, backups, before, flash, mode>> PROVE BeforeInv'
    BY <1>2 DEF BeforeInv, HasBefore
  <1>3. ASSUME UNCHANGED <<payloads, backups, before>>, mode \in {"stage", "script"} PROVE BeforeInv'
    BY <1>3 DEF BeforeInv, HasBefore
  <1>4. CASE ServerStep
    <2>1. ASSUME NEW max \in Limits,
                 SaveBackup(max) \/ \E n \in DOMAIN backups :
                                       ReplaceBackup(n, max) \/ StartRestore(n, max)
          PROVE  BeforeInv'
      BY <2>1, <1>1 DEF SaveBackup, ReplaceBackup, StartRestore
    <2>2. ASSUME NEW o \in Offers, NEW wipe \in BOOLEAN, Refuse(o, wipe) PROVE BeforeInv'
      BY <2>2, <1>1 DEF Refuse
    <2>3. ASSUME NEW o \in Offers, NEW wipe \in BOOLEAN, Install(o, wipe) PROVE BeforeInv'
      <3>1. /\ before' = flash /\ flash' = flash
            /\ mode' \in {"idle", "backup"}
        BY <2>3 DEF Install, Begin
      <3> QED
        BY <3>1 DEF BeforeInv
    <2>4. CASE BackUp
      <3> DEFINE image == Snapshot(FlashSize)
                 S == Seq(Block) \cup {image}
                 last == Len(backups) + 1
      <3>1. /\ mode = "backup" /\ backups' = Append(backups, image)
            /\ UNCHANGED <<flash, payloads, before>>
        BY <2>4 DEF BackUp, history
      <3>2. backups \in Seq(S)
        BY DEF InstallInv, Types
      <3>3. /\ \A n \in DOMAIN backups : n \in DOMAIN backups' /\ backups'[n] = backups[n]
            /\ last \in DOMAIN backups' /\ backups'[last] = image
        <4> HIDE DEF image, S
        <4>1. image \in S
          BY DEF S
        <4> QED
          BY <3>1, <3>2, <4>1
      <3>4. CASE HasBefore
        BY <3>1, <3>3, <3>4 DEF BeforeInv, HasBefore
      <3>5. CASE flash = before
        <4>1. image = [i \in 1 .. FlashSize |-> before'[i - 1]]
          BY <3>1, <3>5 DEF Snapshot
        <4> QED
          BY <3>3, <4>1 DEF BeforeInv, HasBefore
      <3>6. CASE payloads = Nothing
        BY <3>1, <3>6 DEF BeforeInv
      <3> QED
        BY <3>1, <3>4, <3>5, <3>6 DEF BeforeInv
    <2>5. CASE Stage
      BY <2>5, <1>3 DEF Stage
    <2> QED
      BY <1>4, <2>1, <2>2, <2>3, <2>4, <2>5 DEF ServerStep
  <1>5. CASE BoardStep
    BY <1>5, <1>3 DEF BoardStep, RunFetch, FetchFails, RunErase, RunWrite, RunSay, RunReset, Runs,
                      serverVars, history
  <1>6. ASSUME NEW n \in 0 .. FlashSize, PowerLoss(n) PROVE BeforeInv'
    <2>1. /\ UNCHANGED <<payloads, backups, before>> /\ Interrupted(n)
          /\ mode # "idle" /\ mode' = "idle"
      BY <1>6 DEF PowerLoss, serverVars, history
    <2>2. CASE mode = "backup"
      <3>1. flash' \in Booted(flash)
        BY <2>1, <2>2 DEF Interrupted
      <3>2. \A b \in Addresses : flash'[b] \in {flash[b], Saved}
        <4>1. flash \in [Addresses -> Block]
          BY DEF InstallInv, Types
        <4>2. flash' = flash \/ \E a : flash' = [flash EXCEPT ![a] = Saved]
          BY <3>1 DEF Booted
        <4> QED
          BY <4>1, <4>2
      <3> QED
        BY <2>1, <2>2, <3>2 DEF BeforeInv, HasBefore
    <2> QED
      BY <2>1, <2>2, <1>3 DEF InstallInv, Types
  <1>7. CASE (\E o \in Offers, role \in {"uboot", "kernel", "rootfs"} : OtherStages(o, role))
             \/ UNCHANGED vars
    BY <1>7, <1>2 DEF OtherStages, vars, serverVars, history
  <1> QED
    BY <1>4, <1>5, <1>6, <1>7 DEF Next, Environment

(* Once an installation has changed a block, the backup directory has the whole flash as it was  *)
(* when the installation began, whatever images were there before and wherever power is lost     *)
(* (openipc.py:913).                                                                             *)
THEOREM BeforeKept == Spec => []BeforeIsSaved
  <1>1. Init => BeforeInv
    BY DEF Init, BeforeInv
  <1>2. InstallInv /\ BeforeInv /\ [Next]_vars => BeforeInv'
    BY BeforeStep
  <1>3. BeforeInv => BeforeIsSaved
    BY DEF BeforeInv, HasBefore, BeforeIsSaved
  <1> QED
    BY <1>1, <1>2, <1>3, InstallInvariant, PTL DEF Spec

(***************************************************************************)
(* A board that installs at every boot.                                    *)
(***************************************************************************)
\* The image of a partition that is not the environment's has no block of an environment.
LEMMA NoEnvBlock ==
    ASSUME NEW plan, SoundPlan(plan), NEW role \in Roles \ {"env"}, NEW b \in Area(plan[role])
    PROVE  b \in Addresses /\ Image(plan[role])[b] \notin EnvBlocks
  <1> DEFINE p == plan[role]
             i == b - p.offset + 1
  <1>1. InRange(p, FlashSize) /\ Range(p.body) \cap EnvBlocks = {} /\ p \in PayloadType
    BY DEF SoundPlan
  <1>2. p.offset \in Nat /\ p.size \in Nat /\ p.offset + p.size <= FlashSize /\ p.body \in Seq(Contents)
    BY <1>1 DEF InRange, EndOf, PayloadType
  <1>3. b \in Int /\ b >= p.offset /\ b \in Addresses
    BY <1>2, InstallAssumption DEF Area, Addresses
  <1>4. Image(p)[b] = IF i <= Len(p.body) THEN p.body[i] ELSE Erased
    BY DEF Image
  <1>5. Erased \notin EnvBlocks
    BY EnvAssumption DEF EnvBlocks
  <1> HIDE DEF p
  <1>6. i \in Nat /\ i >= 1
    BY <1>2, <1>3
  <1> HIDE DEF i
  <1>7. ASSUME i <= Len(p.body) PROVE p.body[i] \in Range(p.body)
    <2>1. i \in DOMAIN p.body
      BY <1>2, <1>6, <1>7
    <2> QED
      BY <2>1 DEF Range
  <1> QED
    BY <1>1, <1>3, <1>4, <1>5, <1>7 DEF p

LEMMA CurrentStep ==
    ASSUME InstallInv, CurrentInv, [Next]_vars
    PROVE  CurrentInv'
  <1>1. ASSUME UNCHANGED <<current, flash>>, mode' # "script" PROVE CurrentInv'
    BY <1>1 DEF CurrentInv, Matches, Image, Area
  <1>2. ASSUME current' = Nothing PROVE CurrentInv'
    BY <1>2 DEF CurrentInv
  <1>3. CASE ServerStep
    <2>1. ASSUME NEW max \in Limits,
                 SaveBackup(max) \/ \E n \in DOMAIN backups : ReplaceBackup(n, max)
          PROVE  CurrentInv'
      BY <2>1, <1>1 DEF SaveBackup, ReplaceBackup, Begin
    <2>2. ASSUME NEW n \in DOMAIN backups, NEW max \in Limits, StartRestore(n, max) PROVE CurrentInv'
      BY <2>2, <1>2 DEF StartRestore
    <2>3. ASSUME NEW o \in Offers, NEW wipe \in BOOLEAN, Refuse(o, wipe) \/ Install(o, wipe)
          PROVE  CurrentInv'
      BY <2>3, <1>1 DEF Refuse, Install, Begin
    <2>4. CASE BackUp
      BY <2>4, <1>1 DEF BackUp, history
    <2>5. CASE Stage
      BY <2>5, <1>2 DEF Stage
    <2> QED
      BY <1>3, <2>1, <2>2, <2>3, <2>4, <2>5 DEF ServerStep
  <1>4. CASE RunReset
    <2>1. /\ mode = "script" /\ script # <<>> /\ Head(script).do = "reset"
          /\ flash' \in Booted(flash) /\ mode' = "idle"
          /\ current' = IF lost = {} THEN payloads ELSE Nothing
      BY <1>4 DEF RunReset, Runs
    <2>2. CASE lost = {} /\ payloads # Nothing
      <3>1. Installing
        BY <2>1, <2>2 DEF InstallInv, ScriptInv, Restoring
      <3>2. \A role \in Roles : Matches(payloads[role])
        BY <2>1, <2>2, <3>1, InstallPositions, Commanded DEF InstallInv, NextIs, Finished
      <3>3. SoundPlan(payloads) /\ current' = payloads
        BY <2>1, <2>2 DEF InstallInv, PlanInv
      <3>4. flash \in [Addresses -> Block]
        BY DEF InstallInv, Types
      <3>5. InRange(payloads["env"], FlashSize)
        BY <2>2, PayloadsInRange DEF InstallInv, Roles
      <3>6. \A b \in Addresses :
                b < payloads["env"].offset \/ b >= EndOf(payloads["env"]) => flash'[b] = flash[b]
        <4>1. EndOf(payloads["env"]) > payloads["env"].offset
          BY <3>5 DEF InRange, EndOf
        <4>2. payloads["env"].offset \in Nat /\ EndOf(payloads["env"]) \in Nat
          BY <3>5 DEF InRange
        <4>3. \A b \in Addresses : b # payloads["env"].offset => flash'[b] = flash[b]
          BY <2>1, <3>4, BootIs DEF InstallInv
        <4> QED
          BY <4>1, <4>2, <4>3
      <3>7. ASSUME NEW role \in Roles \ {"env"} PROVE Matches(current[role])'
        <4>1. /\ InRange(payloads[role], FlashSize)
              /\ Apart(payloads["env"], payloads[role])
          BY <2>2, PayloadsInRange DEF InstallInv, Roles
        <4>2. Matches(payloads[role])
          BY <3>2
        <4>3. \A b \in Area(payloads[role]) : flash'[b] = Image(payloads[role])[b]
          BY <3>5, <3>6, <4>1, <4>2, ElsewhereKeeps
        <4> QED
          BY <3>3, <4>3 DEF Matches, Image, Area
      <3> QED
        BY <2>1, <3>3, <3>7 DEF CurrentInv
    <2> QED
      BY <2>1, <2>2, <1>2
  <1>5. ASSUME mode = "script", UNCHANGED current PROVE CurrentInv'
    BY <1>5, <1>2 DEF CurrentInv
  <1>6. CASE BoardStep
    BY <1>6, <1>4, <1>5 DEF BoardStep, RunFetch, FetchFails, RunErase, RunWrite, RunSay, Runs, history
  <1>7. ASSUME NEW n \in 0 .. FlashSize, PowerLoss(n) PROVE CurrentInv'
    <2>1. mode' = "idle" /\ UNCHANGED current /\ Interrupted(n)
      BY <1>7 DEF PowerLoss, history
    <2>2. CASE mode # "script" /\ current # Nothing
      <3>1. SoundPlan(current) /\ \A role \in Roles \ {"env"} : Matches(current[role])
        BY <2>2 DEF CurrentInv
      <3>2. flash' \in Booted(flash) /\ flash \in [Addresses -> Block]
        BY <2>1, <2>2 DEF Interrupted, InstallInv, Types
      <3>3. ASSUME NEW b \in Addresses, flash[b] \notin EnvBlocks PROVE flash'[b] = flash[b]
        BY <3>2, <3>3, BootIs DEF InstallInv
      <3>4. ASSUME NEW role \in Roles \ {"env"} PROVE Matches(current[role])'
        <4>1. ASSUME NEW b \in Area(current[role]) PROVE flash'[b] = Image(current[role])[b]
          <5>1. flash[b] = Image(current[role])[b]
            BY <3>1, <4>1 DEF Matches
          <5>2. b \in Addresses /\ flash[b] \notin EnvBlocks
            BY <3>1, <5>1, NoEnvBlock
          <5> QED
            BY <3>3, <5>1, <5>2
        <4> QED
          BY <2>1, <4>1 DEF Matches, Image, Area
      <3> QED
        BY <2>1, <3>1, <3>4 DEF CurrentInv
    <2> QED
      BY <2>1, <2>2, <1>2, <1>5
  <1>8. ASSUME UNCHANGED <<current, flash, mode>> PROVE CurrentInv'
    BY <1>8, <1>1 DEF CurrentInv
  <1>9. CASE (\E o \in Offers, role \in {"uboot", "kernel", "rootfs"} : OtherStages(o, role))
             \/ UNCHANGED vars
    BY <1>9, <1>8 DEF OtherStages, vars, history
  <1> QED
    BY <1>3, <1>6, <1>7, <1>9 DEF Next, Environment

(* A board that updates at every boot does not flash, and reset, again and again: once nothing   *)
(* was lost, an installation of the same plan finds nothing pending but the environment, also    *)
(* after boots that were cut short, unless another script ran in between (openipc.py:882).       *)
THEOREM InstallsOnce == Spec => NoFlashLoop
  <1>1. Init => CurrentInv
    BY InstallStarts
  <1>2. InstallInv /\ CurrentInv /\ [Next]_vars => CurrentInv'
    BY CurrentStep
  <1>3. ASSUME CurrentInv, [Next]_vars, mode = "idle", mode' = "backup", overlay' = Nothing,
               payloads' = current
        PROVE  FALSE
    <2>1. PICK o \in Offers, wipe \in BOOLEAN : Install(o, wipe)
      BY <1>3 DEF Next, ServerStep, BoardStep, Environment, SaveBackup, ReplaceBackup, StartRestore,
                  Refuse, BackUp, Stage, RunFetch, FetchFails, RunErase, RunWrite, RunSay, RunReset, Runs, PowerLoss,
                  OtherStages, vars, Begin
    <2>2. o.layout # <<>> /\ payloads' = Payloads(o)
      BY <2>1 DEF Install, Plan
    <2>3. current # Nothing
      BY <1>3, <2>2, PlanIsSound
    <2>4. pending' = {role \in Roles : ~Matches(payloads'[role])}
      BY <2>1 DEF Install, Plan
    <2>5. pending' \subseteq {"env"}
      BY <1>3, <2>3, <2>4 DEF CurrentInv
    <2>6. ~OnlyEnv(pending') /\ pending' # {}
      BY <1>3, <2>1 DEF Install, Begin
    <2>7. pending' = {"env"}
      BY <2>5, <2>6
    <2> QED
      BY <2>6, <2>7 DEF OnlyEnv
  <1>4. CurrentInv /\ [Next]_vars =>
            [mode = "idle" /\ mode' = "backup" /\ overlay' = Nothing => payloads' # current]_vars
    BY <1>3
  <1> QED
    BY <1>1, <1>2, <1>4, InstallInvariant, PTL DEF Spec, NoFlashLoop
====
