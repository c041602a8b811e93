---------------------------- MODULE MCMountStack ----------------------------
(* /v is the app's storage, /s the source plane of the same file system    *)
(* and /d the deny anchor.                                                 *)
EXTENDS MountStack

Dir(fs, dir) == [fs |-> fs, dir |-> dir]
Mount(obj, parent, point, on, root) ==
    [obj |-> obj, id |-> obj, parent |-> parent, on |-> on, root |-> root,
     point |-> point, by |-> 0, late |-> FALSE]

Plain == <<Mount(1, 0, <<>>, <<>>, Dir("root", <<>>)),
           Mount(2, 1, <<"v">>, <<"v">>, Dir("media", <<>>)),
           Mount(3, 1, <<"s">>, <<"s">>, Dir("media", <<>>))>>
(* Android/data style: a directory of the storage is a mount of its own. *)
WithMountPoint == Append(Plain, Mount(4, 2, <<"v", "z">>, <<"z">>, Dir("media", <<"z">>)))

MCTables == {Plain, WithMountPoint}
MCObjects == {Dir("root", p) : p \in {<<>>, <<"v">>, <<"s">>, <<"d">>}}
    \cup {Dir("media", p) : p \in {<<>>, <<"x">>, <<"x", "y">>, <<"z">>, <<"b">>,
                                   <<"b", "y">>, <<"c">>, <<"f">>}}

To(t, s) == [action |-> Redirect, target |-> t, source |-> s]
Deny(t) == [action |-> DenyAnchor, target |-> t, source |-> <<"d">>]
X == <<"v", "x">>
XY == <<"v", "x", "y">>
Z == <<"v", "z">>
MCPlans == {<<To(X, <<"s", "b">>), To(Z, <<"s", "c">>)>>,
            <<To(X, <<"s", "b">>), Deny(Z)>>,
            <<To(X, <<"s", "b">>), Deny(XY)>>,
            <<To(X, <<"s", "b">>), To(Z, <<"s", "b">>)>>}

MCForeignSpots == {<<"v">>, X, XY}
MCForeignRoots == {Dir("media", <<>>), Dir("media", <<"b">>)}
AllFailures == {"snapshot", "umount"}
=============================================================================
