----------------------------- MODULE ModelStore -----------------------------
(***************************************************************************)
(* The cache of speech models: `cassini models install` and `import` stage *)
(* the files of a model and of the voice detector it needs, and move each  *)
(* whole directory into place. Downloads are resumed across retries, kills *)
(* and restarts, over a server that may replace the object, lose the       *)
(* connection, or not honour ranges. The two components have one file      *)
(* each. Left out: files shared with another installed model, disk space,  *)
(* and a cache with downloads disabled.                                    *)
(***************************************************************************)
EXTENDS Naturals, Sequences

CONSTANTS
  Process,      \* installs and imports, of the operator and of the command line
  Size,         \* length of a file, in chunks
  MaxTries,     \* downloadAttempts
  MaxKills,     \* bound: processes killed
  MaxChanges    \* bound: replacements of the remote object, and changes to the files by hand

Nobody == "nobody"
ASSUME ModelStoreAssumption == Nobody \notin Process

Component == {"model", "vad"}
Version == {1, 2}              \* objects the server may hold; the catalogue lists the first
Good == [i \in 1..Size |-> 1]  \* the bytes the catalogue's checksum belongs to
Empty == << >>

VARIABLES
  lock,      \* holder of .models.lock
  installPc, \* where each process is
  component, \* the component it is at
  offset,    \* where its download resumes
  body,      \* the object its response carries
  tries,     \* its calls of downloadOnce for this file
  partFile,  \* <artifact>.part of each component
  etag,      \* the checkpoint's validator; 0: none, or a weak one
  staged,    \* the file in the download's staging directory
  dest,      \* the installed file, and whether it changed since its receipt
  remote,    \* the object the server holds
  kills, changes

downloads == <<partFile, etag, staged>>
locals == <<component, offset, body, tries>>
storeVars == <<lock, installPc, locals, downloads, dest, remote, kills, changes>>

None == [bytes |-> Empty, touched |-> FALSE]

StoreInit ==
  /\ lock = Nobody
  /\ installPc = [p \in Process |-> "idle"]
  /\ component = [p \in Process |-> "model"]
  /\ offset = [p \in Process |-> 0] /\ body = [p \in Process |-> 1] /\ tries = [p \in Process |-> 0]
  /\ partFile = [c \in Component |-> Empty] /\ etag = [c \in Component |-> 0]
  /\ staged = [c \in Component |-> Empty] /\ dest = [c \in Component |-> None]
  /\ remote = 1 /\ kills = 0 /\ changes = 0

\* Mutant of verifyFile: the size is right.
SizeIsRight(bytes) == Len(bytes) = Size

\* Size and checksum of the catalogue.
verifyFile(bytes) == bytes = Good

\* The receipt is there and the file is as it was when it was written.
Installed(c) == dest[c].bytes # Empty /\ ~dest[c].touched

Go(p, step) == installPc' = [installPc EXCEPT ![p] = step]
Fresh(p, c) ==
  /\ component' = [component EXCEPT ![p] = c]
  /\ offset' = [offset EXCEPT ![p] = 0] /\ body' = [body EXCEPT ![p] = 1]
  /\ tries' = [tries EXCEPT ![p] = 0]
\* The process is over and its lock is gone, also when it is killed.
Leave(p) == Go(p, "idle") /\ lock' = Nobody /\ Fresh(p, "model")
Fail(p) == Leave(p) /\ UNCHANGED <<dest, remote, kills, changes>>

NextComponent(p) ==
  IF component[p] = "model"
  THEN Fresh(p, "vad") /\ Go(p, "component") /\ UNCHANGED lock
  ELSE Leave(p)

-----------------------------------------------------------------------------
(* Acquire.                                                                *)

locked(p) ==
  /\ installPc[p] = "idle" /\ lock = Nobody
  /\ lock' = p
  /\ \E step \in {"component", "import"} : Go(p, step)
  /\ UNCHANGED <<locals, downloads, dest, remote, kills, changes>>

\* A component that is installed, or staged and right, is not fetched again.
Acquire(p) ==
  LET c == component[p] IN
  /\ installPc[p] = "component"
  /\ \/ Installed(c) /\ NextComponent(p)
     \/ /\ ~Installed(c)
        /\ Go(p, IF verifyFile(staged[c]) THEN "publish" ELSE "request")
        /\ UNCHANGED <<lock, locals>>
  /\ UNCHANGED <<downloads, dest, remote, kills, changes>>

\* A part with a validator is resumed; anything else starts over.
ResumeAt(c) == IF etag[c] # 0 /\ Len(partFile[c]) < Size THEN Len(partFile[c]) ELSE 0

downloadOnce(p) ==
  LET c == component[p] IN
  /\ installPc[p] = "request"
  /\ \/ /\ verifyFile(partFile[c])
        /\ Go(p, "verify") /\ UNCHANGED <<offset, tries, partFile>>
     \/ /\ ~verifyFile(partFile[c])
        /\ offset' = [offset EXCEPT ![p] = ResumeAt(c)]
        /\ tries' = [tries EXCEPT ![p] = @ + 1]
        /\ partFile' = IF ResumeAt(c) = 0 THEN [partFile EXCEPT ![c] = Empty] ELSE partFile
        /\ Go(p, "response")
  /\ UNCHANGED <<lock, component, body, etag, staged, dest, remote, kills, changes>>

\* No answer, a server error, or a connection that breaks: a few more tries.
Retry(p) ==
  /\ installPc[p] \in {"response", "copy"}
  /\ \/ tries[p] < MaxTries /\ Go(p, "request") /\ UNCHANGED <<lock, locals>>
     \/ tries[p] = MaxTries /\ Leave(p)
  /\ UNCHANGED <<downloads, dest, remote, kills, changes>>

\* 206: the rest of the very object the part belongs to.
Resumes(p) ==
  LET c == component[p] IN
  /\ installPc[p] = "response" /\ offset[p] > 0 /\ etag[c] = remote
  /\ body' = [body EXCEPT ![p] = remote]
  /\ Go(p, "copy")
  /\ UNCHANGED <<lock, component, offset, tries, downloads, dest, remote, kills, changes>>

\* 416, and the second request without a range.
RangeRefused(p) ==
  /\ installPc[p] = "response" /\ offset[p] > 0
  /\ offset' = [offset EXCEPT ![p] = 0]
  /\ UNCHANGED <<lock, installPc, component, body, tries, downloads, dest, remote, kills, changes>>

\* 200: the object from its start. The new validator is saved before the part is
\* emptied.
StartsOver(p) ==
  /\ installPc[p] = "response"
  /\ offset' = [offset EXCEPT ![p] = 0]
  /\ body' = [body EXCEPT ![p] = remote]
  /\ \E validator \in {remote, 0} : etag' = [etag EXCEPT ![component[p]] = validator]
  /\ Go(p, "open")
  /\ UNCHANGED <<lock, component, tries, partFile, staged, dest, remote, kills, changes>>

\* Another status, a range of another object, or an unexpected length.
ResponseRefused(p) ==
  /\ installPc[p] = "response"
  /\ Fail(p) /\ UNCHANGED downloads

Truncate(p) ==
  /\ installPc[p] = "open"
  /\ partFile' = [partFile EXCEPT ![component[p]] = Empty]
  /\ Go(p, "copy")
  /\ UNCHANGED <<lock, locals, etag, staged, dest, remote, kills, changes>>

Copy(p) ==
  LET c == component[p] IN
  /\ installPc[p] = "copy" /\ Len(partFile[c]) < Size
  /\ partFile' = [partFile EXCEPT ![c] = Append(@, body[p])]
  /\ Go(p, IF Len(partFile[c]) + 1 = Size THEN "verify" ELSE "copy")
  /\ UNCHANGED <<lock, locals, etag, staged, dest, remote, kills, changes>>

\* A wrong download is thrown away and the install fails.
RejectDownload(p) ==
  LET c == component[p] IN
  /\ installPc[p] = "verify" /\ ~verifyFile(partFile[c])
  /\ partFile' = [partFile EXCEPT ![c] = Empty] /\ etag' = [etag EXCEPT ![c] = 0]
  /\ Fail(p) /\ UNCHANGED staged

\* writeVerified: the file appears in the staging directory by a rename.
decompress(p) ==
  LET c == component[p] IN
  /\ installPc[p] = "verify" /\ verifyFile(partFile[c])
  /\ staged' = [staged EXCEPT ![c] = partFile[c]]
  /\ Go(p, "unpacked")
  /\ UNCHANGED <<lock, locals, partFile, etag, dest, remote, kills, changes>>

RemovePart(p) ==
  LET c == component[p] IN
  /\ installPc[p] = "unpacked"
  /\ partFile' = [partFile EXCEPT ![c] = Empty] /\ etag' = [etag EXCEPT ![c] = 0]
  /\ Go(p, "publish")
  /\ UNCHANGED <<lock, locals, staged, dest, remote, kills, changes>>

\* The staged files are verified again, get their receipt and are renamed into
\* place; an existing directory that is damaged is left for somebody to move.
publish(p) ==
  LET c == component[p] IN
  /\ installPc[p] = "publish"
  /\ IF verifyFile(staged[c]) /\ (dest[c] = None \/ Installed(c))
     THEN /\ dest' = [dest EXCEPT ![c] =
                        IF dest[c] = None THEN [bytes |-> staged[c], touched |-> FALSE] ELSE @]
          /\ staged' = [staged EXCEPT ![c] = Empty]
          /\ NextComponent(p)
     ELSE Leave(p) /\ UNCHANGED <<dest, staged>>
  /\ UNCHANGED <<partFile, etag, remote, kills, changes>>

-----------------------------------------------------------------------------
(* Import, and everybody else.                                             *)

\* Local files are copied to a directory of their own, verified, and published:
\* the voice detector first.
Import(p) ==
  /\ installPc[p] = "import"
  /\ \E bytes \in [1..Size -> Version] :
       IF verifyFile(bytes) /\ \A c \in Component : dest[c] = None \/ Installed(c)
       THEN dest' = [c \in Component |->
                       IF dest[c] = None THEN [bytes |-> bytes, touched |-> FALSE] ELSE dest[c]]
       ELSE \/ UNCHANGED dest
            \/ /\ verifyFile(bytes) /\ dest["vad"] = None
               /\ dest' = [dest EXCEPT !["vad"] = [bytes |-> bytes, touched |-> FALSE]]
  /\ Leave(p)
  /\ UNCHANGED <<downloads, remote, kills, changes>>

\* A cancelled install, or a machine that goes down: the process is gone and its
\* files stay as they are.
Kill(p) ==
  /\ installPc[p] # "idle" /\ kills < MaxKills
  /\ kills' = kills + 1
  /\ Leave(p)
  /\ UNCHANGED <<downloads, dest, remote, changes>>

Change ==
  /\ changes < MaxChanges
  /\ changes' = changes + 1
  /\ \/ remote' \in Version \ {remote} /\ UNCHANGED dest
     \/ /\ UNCHANGED remote
        /\ \E c \in Component :
             /\ dest[c] # None
             /\ dest' \in {[dest EXCEPT ![c] = None], [dest EXCEPT ![c].touched = TRUE]}
  /\ UNCHANGED <<lock, installPc, locals, downloads, kills>>

StoreNext ==
  \/ \E p \in Process :
       \/ locked(p) \/ Acquire(p) \/ downloadOnce(p) \/ Retry(p)
       \/ Resumes(p) \/ RangeRefused(p) \/ StartsOver(p) \/ ResponseRefused(p)
       \/ Truncate(p) \/ Copy(p) \/ RejectDownload(p) \/ decompress(p) \/ RemovePart(p)
       \/ publish(p) \/ Import(p) \/ Kill(p)
  \/ Change

StoreSpec == StoreInit /\ [][StoreNext]_storeVars

-----------------------------------------------------------------------------
\* What counts as installed has the catalogue's bytes, whatever was resumed over
\* a replaced object or a lost validator, and wherever a process was killed; and
\* two processes never work on the files at once.
InstalledIsGenuine ==
  /\ \A c \in Component : Installed(c) => dest[c].bytes = Good
  /\ \A p, q \in Process : installPc[p] # "idle" /\ installPc[q] # "idle" => p = q
=============================================================================
