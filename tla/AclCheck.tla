------------------------------ MODULE AclCheck ------------------------------
(***************************************************************************)
(* The two access decisions mvfs_chkaccess makes, as operators:           *)
(* tbs_sid_acl_check_permission_creds (src/tbs_acl_kernel.c), which walks *)
(* the cooked entries of an EACL and ORs together the permissions of the *)
(* entries that apply to the caller, stopping as soon as the requested   *)
(* ones are covered; and mvfs_chkaccess_modebits with mvfs_groupmember    *)
(* (src/mvfs_acl.c), which pick the owner, group or other bits of the    *)
(* file mode.  Each is checked against a reference definition over every *)
(* input of a small domain.                                                *)
(***************************************************************************)
EXTENDS Integers, Sequences, FiniteSets, Bitwise

\* Small domains: two ids, three rights, every ACE kind the switch tells
\* apart (TBS_ACL_ID_DOMAIN_ALL, _ROLE and the rest share the default).
Ids    == {0, 1}
NoId   == -1                      \* a NULL owner_usid_p / owner_gsid_p
Kinds  == {"user", "group", "all", "owner_user", "owner_group", "role"}
Aces   == [kind : Kinds, id : Ids, perms : SUBSET {"read_info", "write_dir"}]
Acls   == {<<>>} \cup {<<a>> : a \in Aces} \cup {<<a, b>> : a, b \in Aces}
Creds  == [uid : Ids, gid : Ids, groups : SUBSET Ids]

-----------------------------------------------------------------------------
(* tbs_sid_acl_check_permission_creds.                                    *)

\* mvfs_groupmember: the group is on the credential's group list.
GroupMember(g, cred) == g \in cred.groups

\* The switch on the entry's kind: does this ACE apply to the caller?
Applies(ace, cred, ou, og) ==
  CASE ace.kind = "all"         -> TRUE
    [] ace.kind = "user"        -> cred.uid = ace.id
    [] ace.kind = "group"       -> GroupMember(ace.id, cred)
    [] ace.kind = "owner_user"  -> ou # NoId /\ cred.uid = ou
    [] ace.kind = "owner_group" -> og # NoId /\ GroupMember(og, cred)
    [] OTHER                    -> FALSE

\* Mutant: the current entry's permissions replace the accumulated ones.
AddAndCheckNoAccum(req, cur, acc) == [granted |-> req \subseteq cur, acc |-> cur]
\* tbs_acl_add_and_check_perms: OR in the entry's permissions, and report
\* whether every requested one is now present.
AddAndCheck(req, cur, acc) ==
  [granted |-> req \subseteq (acc \cup cur), acc |-> acc \cup cur]

\* The loop over cip->cooked_ents_p from entry i with allowed_perms acc.
RECURSIVE CheckLoop(_, _, _, _, _, _, _)
CheckLoop(acl, i, acc, req, cred, ou, og) ==
  IF i > Len(acl) THEN FALSE
  ELSE IF ~Applies(acl[i], cred, ou, og)
       THEN CheckLoop(acl, i + 1, acc, req, cred, ou, og)
       ELSE LET r == AddAndCheck(req, acl[i].perms, acc) IN
            r.granted \/ CheckLoop(acl, i + 1, r.acc, req, cred, ou, og)

CheckPermission(acl, req, cred, ou, og) == CheckLoop(acl, 1, {}, req, cred, ou, og)

\* Reference: the rights the EACL grants the caller are the union of the
\* permissions of every entry that applies to it.
GrantedRights(acl, cred, ou, og) ==
  UNION {acl[i].perms : i \in {j \in 1..Len(acl) : Applies(acl[j], cred, ou, og)}}

-----------------------------------------------------------------------------
(* mvfs_chkaccess_modebits, mode and vmode as in the code (0400 = read).   *)

\* Mutant: the group test is made for the owner too.
ModebitsFlat(mode, vuid, vgid, vmode, cred) ==
  LET m1 == IF cred.uid # vuid THEN shiftR(mode, 3) ELSE mode
      m2 == IF cred.gid # vgid /\ ~GroupMember(vgid, cred) THEN shiftR(m1, 3) ELSE m1
  IN (vmode & m2) = m2
\* Not the owner: shift to the group bits; not in the group either: shift
\* to the other bits.  Granted when all the shifted bits are in vmode.
Modebits(mode, vuid, vgid, vmode, cred) ==
  LET m1 == IF cred.uid # vuid THEN shiftR(mode, 3) ELSE mode
      m2 == IF cred.uid # vuid /\ cred.gid # vgid /\ ~GroupMember(vgid, cred)
            THEN shiftR(m1, 3) ELSE m1
  IN (vmode & m2) = m2

\* Reference: the permission class of the caller (owner, group by primary
\* or supplementary gid, other), and its three bits of the mode.
ClassShift(vuid, vgid, cred) ==
  IF cred.uid = vuid THEN 6
  ELSE IF cred.gid = vgid \/ vgid \in cred.groups THEN 3 ELSE 0
RwxOf(x, s) == {b \in 0..2 : (shiftR(x, s + b) % 2) = 1}

-----------------------------------------------------------------------------
(* Properties.                                                             *)

\* tbs_sid_acl_check_permission_creds grants a non-empty request exactly
\* when the request is within the union of the permissions of the entries
\* that apply to the caller: the early exit and the accumulation across
\* entries (a right from a user entry, another from a group entry) lose
\* nothing.  (An empty request is only granted when some entry applies.)
PermissionMatchesReference ==
  \A acl \in Acls, req \in (SUBSET {"read_info", "write_dir"}) \ {{}},
     cred \in Creds, ou \in Ids \cup {NoId}, og \in Ids \cup {NoId} :
    CheckPermission(acl, req, cred, ou, og) = (req \subseteq GrantedRights(acl, cred, ou, og))

\* mvfs_chkaccess_modebits grants exactly the rwx bits of the caller's
\* class: the owner's bits even if the owner is outside the file's group,
\* the group's for a member by primary or supplementary gid, else the
\* other bits.
ModebitsMatchesReference ==
  \A rq \in 0..7, vmode \in 0..511, vuid, vgid \in Ids, cred \in Creds :
    Modebits(rq * 64, vuid, vgid, vmode, cred) =
      (RwxOf(rq, 0) \subseteq RwxOf(vmode, ClassShift(vuid, vgid, cred)))
====
