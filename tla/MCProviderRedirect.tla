------------------------- MODULE MCProviderRedirect -------------------------
(* Two applications that redirect the same directory, a chain of targets,  *)
(* a target that three sources share ("a/f" and "a-" tie) next to a        *)
(* package for which no rule is left, and two packages with one uid that   *)
(* contradict each other.                                                  *)
EXTENDS ProviderRedirect

a == <<10>>
b == <<11>>
x == <<20>>
y == <<21>>
z == <<22>>
f == 30

Redirect(from, to) == [action |-> "redirect", visible |-> from, backing |-> to]
Deny(path) == [action |-> "deny", visible |-> path, backing |-> path]
Package(uid, mounts) ==
    [provider_compat |-> TRUE, any_user |-> FALSE, users |-> <<0>>,
     uid |-> [u \in {0} |-> uid], mounts |-> mounts]

Chained == <<Package("A", <<Redirect(a, x), Redirect(x, z), Deny(b), Redirect(b, <<DotDot>>)>>),
             Package("B", <<Redirect(a, y)>>)>>
Shared == <<Package("A", <<Redirect(a \o <<f>>, x), Redirect(b, x), Redirect(y, x \o <<f>>)>>),
            Package("B", <<Redirect(b, x)>>)>>
Contradictory == <<Package("A", <<Redirect(a, x)>>), Package("A", <<Redirect(a, y)>>)>>
NotEnabled == <<[Package("A", <<Redirect(a, x)>>) EXCEPT !.provider_compat = FALSE],
                [Package("B", <<Redirect(a, x)>>) EXCEPT !.any_user = TRUE]>>
SomePolicies == {Chained, Shared, Contradictory, NotEnabled}
OnePolicy == {Chained}

Storage(comps) == [root |-> "/storage/emulated", user |-> 0, comps |-> comps]
Absolute(comps) == [dir |-> Storage(<< >>), comps |-> comps]
SomeArgs == {Absolute(a \o <<f>>), Absolute(x \o <<f>>), Absolute(a \o <<DotDot>>),
             [dir |-> Storage(a), comps |-> <<f>>], [dir |-> NoPath, comps |-> <<f>>]}
OneArg == {Absolute(a \o <<f>>)}
Links == {Storage(x \o <<f>>), Storage(y \o <<f>>)}

FileOps == {"open", "stat64", "access", "opendir", "mkdir", "remove", "rename"}
AttributeOps == {"realpath", "readlink", "chmod", "chown", "statvfs", "inotify_add_watch"}
Loader == {"android_dlopen_ext"}
SomeImports == {{FileOps, AttributeOps, Loader}, {FileOps, Loader}, {}}
FullImports == {{FileOps, AttributeOps, Loader}}

(* Libraries that fetch the session's data through a hook whenever they    *)
(* use another one.                                                        *)
SomeFuseImports == {{}, {"fuse_reply"}, {"fuse_req_userdata", "fuse_reply"}, FuseSymbols}
ContextOnly == {{"fuse_req_ctx"}}
=============================================================================
