------------------------------ MODULE NfsProcs ------------------------------
(****************************************************************************)
(* The procedures of the NFS, MOUNT and portmap programs (nfs_handlers.rs,  *)
(* mount_handlers.rs, portmap_handlers.rs): for one call and one outcome of *)
(* each file-system call it makes, which file-system operations are invoked *)
(* and which XDR items the reply is made of, in order.                      *)
(*                                                                          *)
(* An outcome o says what the world answers: o.rw (capabilities), o.vers    *)
(* (the program version matches), o.args (the arguments decode), o.sound    *)
(* (the arguments agree with each other), o.fh and o.fh2 (fh_to_id),        *)
(* o.attr, o.attr2 and o.op (getattr before, getattr of the second          *)
(* directory, the operation itself), o.post (getattr after it), o.exists    *)
(* (the guarded name exists) and o.mode (createmode3).                      *)
(****************************************************************************)
EXTENDS Sequences, FiniteSets

CONSTANT Outcomes   \* the outcomes to consider

VARIABLES call, outcome, reply, calls

pvars == <<call, outcome, reply, calls>>

Reads == {"getattr", "lookup", "read", "fsinfo", "readdir", "readlink"}
Writes == {"setattr", "write", "create", "create_exclusive", "mkdir", "remove", "rename", "symlink"}

(****************************************************************************)
(* What a handler returns: the operations it invoked and the items written. *)
(* A handler that cannot decode its arguments fails, which ends the         *)
(* connection without a reply.                                              *)
(****************************************************************************)
Done(ops, items) == [calls |-> ops, items |-> items]
Hangup == Done(<<>>, <<"hangup">>)

Ok == <<"reply", "ok">>
Fail == <<"reply", "err">>

Status(ok, good, bad) == IF ok THEN Ok \o good ELSE Fail \o bad

\* The prologue of the procedures that read: arguments, then the handle, whose
\* error is answered with the items bad.
Reading(o, bad, body) ==
    IF ~o.args THEN Hangup ELSE IF ~o.fh THEN Done(<<>>, Fail \o bad) ELSE body

nfsproc3_null(o) == Done(<<>>, <<"reply">>)

nfsproc3_getattr(o) ==
    Reading(o, <<>>, Done(<<"getattr">>, Status(o.attr, <<"fattr">>, <<>>)))

nfsproc3_lookup(o) ==
    Reading(o, <<"attr">>,
        Done(<<"getattr", "lookup">> \o (IF o.op THEN <<"getattr">> ELSE <<>>),
             Status(o.op, <<"fh", "attr", "attr">>, <<"attr">>)))

nfsproc3_read(o) ==
    Reading(o, <<"attr">>, Done(<<"getattr", "read">>, Status(o.op, <<"attr", "data">>, <<"attr">>)))

\* The file system's fsinfo swallows a failed getattr and never fails itself.
nfsproc3_fsinfo(o) ==
    Reading(o, <<"attr">>, Done(<<"fsinfo", "getattr">>, Ok \o <<"attr", "limits">>))

nfsproc3_access(o) ==
    Reading(o, <<"attr">>, Done(<<"getattr">>, Ok \o <<"attr", IF o.rw THEN "access" ELSE "readaccess">>))

nfsproc3_pathconf(o) == Reading(o, <<"attr">>, Done(<<"getattr">>, Ok \o <<"attr", "limits">>))

nfsproc3_fsstat(o) == Reading(o, <<"attr">>, Done(<<"getattr">>, Ok \o <<"attr", "limits">>))

nfsproc3_readdirplus(o) ==
    Reading(o, <<"attr">>,
        Done(<<"getattr", "readdir">>, Status(o.op, <<"attr", "verf", "list">>, <<"attr">>)))

nfsproc3_readdir(o) ==
    Reading(o, <<"attr">>,
        Done(<<"getattr", "readdir">>, Status(o.op, <<"attr", "verf", "list">>, <<"attr">>)))

\* The error of the handle is written without the attributes.
nfsproc3_readlink(o) ==
    Reading(o, <<>>,
        IF ~o.attr THEN Done(<<"getattr">>, Fail \o <<"attr">>)
        ELSE Done(<<"getattr", "readlink">>, Status(o.op, <<"attr", "path">>, <<"attr">>)))

(****************************************************************************)
(* The procedures that write are refused before anything is decoded.        *)
(****************************************************************************)
\* Mutant: the capability is looked at only after the operation.
WritingAnyway(o, body) == IF ~o.args THEN Hangup ELSE body

Writing(o, body) ==
    IF ~o.rw THEN Done(<<>>, Fail \o <<"wcc">>) ELSE IF ~o.args THEN Hangup ELSE body

nfsproc3_write(o) ==
    Writing(o, IF ~o.sound THEN Done(<<>>, <<"garbage">>)
               ELSE IF ~o.fh THEN Done(<<>>, Fail \o <<"wcc">>)
               ELSE Done(<<"getattr", "write">>, Status(o.op, <<"wcc", "count", "verf">>, <<"wcc">>)))

\* Mutant: the error of the handle leaves the attributes out.
InDirectoryBare(o, body) ==
    IF ~o.fh THEN Done(<<>>, Fail)
    ELSE IF ~o.attr THEN Done(<<"getattr">>, Fail \o <<"wcc">>)
    ELSE body

\* A handle that does not decode and a directory that cannot be read are errors.
InDirectory(o, body) ==
    IF ~o.fh THEN Done(<<>>, Fail \o <<"wcc">>)
    ELSE IF ~o.attr THEN Done(<<"getattr">>, Fail \o <<"wcc">>)
    ELSE body

nfsproc3_create(o) ==
    Writing(o, InDirectory(o,
        IF o.mode = "guarded" /\ o.exists THEN Done(<<"getattr", "lookup", "getattr">>, Fail \o <<"wcc">>)
        ELSE Done(<<"getattr">> \o (IF o.mode = "guarded" THEN <<"lookup">> ELSE <<>>)
                    \o <<IF o.mode = "exclusive" THEN "create_exclusive" ELSE "create", "getattr">>,
                  Status(o.op, <<"fh", "attr", "wcc">>, <<"wcc">>))))

\* The error of the handle is written without the attributes, and a guard that
\* does not match is answered and then ignored.
nfsproc3_setattr(o) ==
    Writing(o,
        IF ~o.fh THEN Done(<<>>, Fail)
        ELSE IF ~o.attr THEN Done(<<"getattr">>, Fail \o <<"wcc">>)
        ELSE Done(<<"getattr", "setattr">>,
                  (IF o.sound THEN <<>> ELSE Fail \o <<"wcc">>) \o Status(o.op, <<"wcc">>, <<"wcc">>)))

nfsproc3_remove(o) ==
    Writing(o, InDirectory(o,
        Done(<<"getattr", "remove", "getattr">>, Status(o.op, <<"wcc">>, <<"wcc">>))))

nfsproc3_rename(o) ==
    Writing(o,
        IF ~o.fh \/ ~o.fh2 THEN Done(<<>>, Fail \o <<"wcc">>)
        ELSE IF ~o.attr THEN Done(<<"getattr">>, Fail \o <<"wcc">>)
        ELSE IF ~o.attr2 THEN Done(<<"getattr", "getattr">>, Fail \o <<"wcc">>)
        ELSE Done(<<"getattr", "getattr", "rename", "getattr", "getattr">>,
                  Status(o.op, <<"wcc", "wcc">>, <<"wcc", "wcc">>)))

nfsproc3_mkdir(o) ==
    Writing(o, InDirectory(o,
        Done(<<"getattr", "mkdir", "getattr">>, Status(o.op, <<"fh", "attr", "wcc">>, <<"wcc">>))))

nfsproc3_symlink(o) ==
    Writing(o, InDirectory(o,
        Done(<<"getattr", "symlink", "getattr">>, Status(o.op, <<"fh", "attr", "wcc">>, <<"wcc">>))))

\* MKNOD, LINK, COMMIT and numbers beyond the table; RMDIR is REMOVE.
Unimplemented(o) == Done(<<>>, <<"unavailable">>)

NfsProgram ==
    {"null", "getattr", "lookup", "read", "fsinfo", "access", "pathconf", "fsstat", "readdir", "readdirplus",
     "write", "create", "setattr", "remove", "rename", "mkdir", "symlink", "readlink", "other"}

handle_nfs(p, o) ==
    IF ~o.vers THEN Done(<<>>, <<"mismatch">>)
    ELSE CASE p = "null" -> nfsproc3_null(o)
           [] p = "getattr" -> nfsproc3_getattr(o)
           [] p = "lookup" -> nfsproc3_lookup(o)
           [] p = "read" -> nfsproc3_read(o)
           [] p = "fsinfo" -> nfsproc3_fsinfo(o)
           [] p = "access" -> nfsproc3_access(o)
           [] p = "pathconf" -> nfsproc3_pathconf(o)
           [] p = "fsstat" -> nfsproc3_fsstat(o)
           [] p = "readdir" -> nfsproc3_readdir(o)
           [] p = "readdirplus" -> nfsproc3_readdirplus(o)
           [] p = "write" -> nfsproc3_write(o)
           [] p = "create" -> nfsproc3_create(o)
           [] p = "setattr" -> nfsproc3_setattr(o)
           [] p = "remove" -> nfsproc3_remove(o)
           [] p = "rename" -> nfsproc3_rename(o)
           [] p = "mkdir" -> nfsproc3_mkdir(o)
           [] p = "symlink" -> nfsproc3_symlink(o)
           [] p = "readlink" -> nfsproc3_readlink(o)
           [] OTHER -> Unimplemented(o)

(****************************************************************************)
(* MOUNT and the portmapper.                                                *)
(****************************************************************************)
\* o.fh: the path lies under the export's name; o.op: path_to_id finds it.
mountproc3_mnt(o) ==
    IF ~o.args THEN Hangup
    ELSE IF ~o.fh THEN Done(<<>>, Fail)
    ELSE Done(<<"lookup">>, Status(o.op, <<"mount">>, <<>>))

mountproc3_umnt(o) == IF ~o.args THEN Hangup ELSE Done(<<>>, Ok)

mountproc3_umnt_all(o) == Done(<<>>, Ok)

mountproc3_export(o) == Done(<<>>, <<"reply", "exports">>)

handle_mount(p, o) ==
    CASE p = "mnt" -> mountproc3_mnt(o)
      [] p = "umnt" -> mountproc3_umnt(o)
      [] p = "umntall" -> mountproc3_umnt_all(o)
      [] p = "export" -> mountproc3_export(o)
      [] p = "mnull" -> Done(<<>>, <<"reply">>)
      [] OTHER -> Unimplemented(o)

pmapproc_getport(o) == IF ~o.args THEN Hangup ELSE Done(<<>>, <<"reply", "port">>)

handle_portmap(p, o) ==
    IF ~o.vers THEN Done(<<>>, <<"mismatch">>)
    ELSE CASE p = "getport" -> pmapproc_getport(o)
           [] p = "pnull" -> Done(<<>>, <<"reply">>)
           [] OTHER -> Unimplemented(o)

MountProgram == {"mnull", "mnt", "umnt", "umntall", "export", "mother"}
PortmapProgram == {"pnull", "getport", "pother"}

\* handle_rpc's dispatch on the program number.
Handle(p, o) ==
    IF p \in NfsProgram THEN handle_nfs(p, o)
    ELSE IF p \in MountProgram THEN handle_mount(p, o)
    ELSE IF p \in PortmapProgram THEN handle_portmap(p, o)
    ELSE Done(<<>>, <<"unavailable">>)

PInit ==
    /\ call \in NfsProgram \cup MountProgram \cup PortmapProgram \cup {"acl"}
    /\ outcome \in Outcomes
    /\ reply = <<>> /\ calls = <<>>

Serve ==
    /\ reply = <<>>
    /\ LET h == Handle(call, outcome) IN reply' = h.items /\ calls' = h.calls
    /\ UNCHANGED <<call, outcome>>

PNext == Serve

PSpec == PInit /\ [][PNext]_pvars

(****************************************************************************)
(* Properties.                                                              *)
(****************************************************************************)
\* The XDR unions the source quotes above each procedure, as item sequences.
Union(p) ==
    LET two(good, bad) == {Ok \o good, Fail \o bad} IN
    CASE p = "getattr" -> two(<<"fattr">>, <<>>)
      [] p = "lookup" -> two(<<"fh", "attr", "attr">>, <<"attr">>)
      [] p = "read" -> two(<<"attr", "data">>, <<"attr">>)
      [] p \in {"fsinfo", "pathconf", "fsstat"} -> two(<<"attr", "limits">>, <<"attr">>)
      [] p = "access" -> two(<<"attr", "access">>, <<"attr">>) \cup {Ok \o <<"attr", "readaccess">>}
      [] p \in {"readdir", "readdirplus"} -> two(<<"attr", "verf", "list">>, <<"attr">>)
      [] p = "write" -> two(<<"wcc", "count", "verf">>, <<"wcc">>)
      [] p \in {"create", "mkdir", "symlink"} -> two(<<"fh", "attr", "wcc">>, <<"wcc">>)
      [] p \in {"setattr", "remove"} -> two(<<"wcc">>, <<"wcc">>)
      [] p = "rename" -> two(<<"wcc", "wcc">>, <<"wcc", "wcc">>)
      [] p = "readlink" -> two(<<"attr", "path">>, <<"attr">>)
      [] p = "mnt" -> two(<<"mount">>, <<>>)
      [] p \in {"umnt", "umntall"} -> {Ok}
      [] p = "export" -> {<<"reply", "exports">>}
      [] p = "getport" -> {<<"reply", "port">>}
      [] OTHER -> {<<"reply">>}

WellFormed ==
    reply = <<>> \/ reply \in Union(call) \cup {<<it>> : it \in {"hangup", "garbage", "mismatch", "unavailable"}}

\* Whatever fails underneath, a reply decodes as the union its procedure
\* declares, so one answer is never taken for the start of the next: except
\* where a source line leaves an item out (RENAME, SETATTR and READLINK).
RepliesDecode == call \in {"rename", "setattr", "readlink"} \/ WellFormed

\* "No write capabilities": an export that is read-only has no operation that
\* writes invoked, by any call and whatever fails on the way.
ReadOnlyHolds == outcome.rw \/ \A i \in DOMAIN calls : calls[i] \notin Writes

\* The union quoted above nfsproc3_rename and nfsproc3_readlink: the same
\* without the exceptions.
EveryReplyDecodes == call = "setattr" \/ WellFormed
=============================================================================
