--------------------------- MODULE ArchiveExtract ---------------------------
(***************************************************************************)
(* prepareArchive (job_repo.go): the artifact is looked up, downloaded,    *)
(* decrypted and unpacked entry by entry into an empty directory. Like     *)
(* ExecCommand this module has no Next: JobExecution takes its steps, and  *)
(* adds the directory's life.                                              *)
(*                                                                         *)
(* A path is the sequence of its names. The contents of a file are the     *)
(* number of the entry they came from; a directory is 0.                   *)
(***************************************************************************)
EXTENDS Naturals, Sequences, SequencesExt

CONSTANT
    Artifacts   \* what may be stored, as records:
                \*   entries     the tar's entries: [path, type], type in Types
                \*   intact      how many of them can be read, the rest is cut off
                \*   sealed      the tar.gz is encrypted
                \*   algorithm   what GetArtifactDownload says of it: "none", "aes", "other"
                \*   key         the key it sends: "right", "wrong" or "none"

VARIABLES
    ctxDone,    \* the context of the job is cancelled
    artifact,   \* the artifact of the job
    fetch,      \* where prepareArchive is
    unpacked,   \* how many entries the loop has passed
    tree        \* the directory: tree[path], for every path that exists

Types == {"dir", "reg", "link"}
Artifact == [entries : Seq([path : Seq(STRING), type : Types]), intact : Nat, sealed : BOOLEAN,
             algorithm : {"none", "aes", "other"}, key : {"right", "wrong", "none"}]
Dir   == 0
Empty == [p \in {<<>>} |-> Dir]
Unknown == [entries |-> <<>>, intact |-> 0, sealed |-> FALSE, algorithm |-> "none", key |-> "none"]

TypeOK ==
    /\ artifact \in Artifacts \cup {Unknown}
    /\ fetch \in {"idle", "url", "unpacking", "done", "failed"}
    /\ unpacked \in 0..Len(artifact.entries)
    /\ \A p \in DOMAIN tree : tree[p] \in 0..unpacked

Init ==
    /\ artifact = Unknown
    /\ fetch = "idle"
    /\ unpacked = 0
    /\ tree = Empty

-----------------------------------------------------------------------------
(* filepath.Clean("/" + name), name by name: ".." never leads out of the    *)
(* root, so that the check for an entry that escapes can never fail.        *)
Enter(p, name) == IF name # ".." THEN Append(p, name) ELSE IF p = <<>> THEN p ELSE Front(p)

Clean(path) ==
    LET upto[k \in 0..Len(path)] == IF k = 0 THEN <<>> ELSE Enter(upto[k - 1], path[k])
    IN  upto[Len(path)]

(* The directories from the root to p, p included. *)
Upto(p) == {SubSeq(p, 1, k) : k \in 0..Len(p)}

IsFile(t, p) == p \in DOMAIN t /\ t[p] # Dir
IsDir(t, p)  == p \in DOMAIN t /\ t[p] = Dir

(* os.MkdirAll, which fails at a file in the way. *)
CanMkdirAll(t, p) == \A q \in Upto(p) : ~IsFile(t, q)
MkdirAll(t, p)    == [q \in DOMAIN t \cup Upto(p) |-> IF q \in DOMAIN t THEN t[q] ELSE Dir]

(* The file p with the contents of entry i, which replace any earlier ones. *)
WriteFile(t, p, i) == [q \in DOMAIN t \cup {p} |-> IF q = p THEN i ELSE t[q]]

(* decryptArtifactIfNeeded, and the gzip header: what is not encrypted does *)
(* not pass as AES-GCM, what is encrypted not as gzip.                      *)
Opens(a) == IF a.algorithm = "none" THEN ~a.sealed
            ELSE a.algorithm = "aes" /\ a.sealed /\ a.key = "right"

(* GetArtifactDownload: a presigned URL, with the algorithm and the key.    *)
(* It fails, or answers without a URL, or os.MkdirTemp fails.               *)
RequestURL ==
    /\ fetch = "idle"
    /\ artifact' \in Artifacts
    /\ \/ ~ctxDone /\ fetch' = "url"
       \/ fetch' = "failed"
    /\ UNCHANGED <<unpacked, tree>>

(* The GET, decryption and gzip.NewReader. The body is read to its end: the *)
(* context plays no part afterwards.                                        *)
Download ==
    /\ fetch = "url"
    /\ \/ ~ctxDone /\ Opens(artifact) /\ fetch' = "unpacking"
       \/ fetch' = "failed"
    /\ UNCHANGED <<artifact, unpacked, tree>>

Entry == artifact.entries[unpacked + 1]
More  == unpacked < Len(artifact.entries)

(* One turn of the loop. A link, like any other type, is passed over. *)
ExtractDir(p) ==
    /\ Entry.type = "dir"
    /\ CanMkdirAll(tree, p)
    /\ tree' = MkdirAll(tree, p)

(* O_CREATE | O_TRUNC *)
ExtractFile(p) ==
    /\ Entry.type = "reg"
    /\ p # <<>> /\ CanMkdirAll(tree, Front(p)) /\ ~IsDir(tree, p)
    /\ tree' = WriteFile(MkdirAll(tree, Front(p)), p, unpacked + 1)

SkipEntry == Entry.type = "link" /\ UNCHANGED tree

Extract ==
    /\ fetch = "unpacking" /\ More /\ unpacked < artifact.intact
    /\ LET p == Clean(Entry.path) IN ExtractDir(p) \/ ExtractFile(p) \/ SkipEntry
    /\ unpacked' = unpacked + 1
    /\ UNCHANGED <<artifact, fetch>>

(* A torn archive, a file where a directory is needed or the reverse, or    *)
(* any error of the disk.                                                   *)
ExtractFails ==
    /\ fetch = "unpacking"
    /\ fetch' = "failed"
    /\ UNCHANGED <<artifact, unpacked, tree>>

FinishAtAnyError ==         \* mutant: the loop ends at any error of tr.Next
    /\ fetch = "unpacking" /\ unpacked = artifact.intact
    /\ fetch' = "done"
    /\ UNCHANGED <<artifact, unpacked, tree>>

(* tr.Next returns io.EOF. *)
Finish ==
    /\ fetch = "unpacking" /\ ~More
    /\ fetch' = "done"
    /\ UNCHANGED <<artifact, unpacked, tree>>

DownloadAndExtract ==
    Download \/ Extract \/ ExtractFails \/ Finish

-----------------------------------------------------------------------------
(* What the first n entries hold, said without the loop: of those with one  *)
(* path the last file counts, and a directory exists if an entry names it   *)
(* or lies in it.                                                           *)
Files(a, n, p) == {i \in 1..n : a.entries[i].type = "reg" /\ Clean(a.entries[i].path) = p}

Paths(a, n) ==
    {<<>>} \cup UNION {Upto(Clean(a.entries[i].path)) :
                           i \in {k \in 1..n : a.entries[k].type # "link"}}

Contents(a, n) ==
    [p \in Paths(a, n) |->
        IF Files(a, n, p) = {} THEN Dir ELSE Max(Files(a, n, p))]

Whole(a) == Contents(a, Len(a.entries))

(* A directory tree: what lies in a directory has directories above it, and *)
(* no name leads out of the directory extracted to.                         *)
IsTree(t) ==
    \A p \in DOMAIN t :
        /\ \A q \in Upto(p) \ {p} : IsDir(t, q)
        /\ \A k \in 1..Len(p) : p[k] # ".."
=============================================================================
