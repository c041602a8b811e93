--------------------------- MODULE MCPolicyLaunch ---------------------------
(* Packages 1, 2 and 3, the first two with the same hash; 10 is the main   *)
(* process of package 1 and 11 another one.                                *)
EXTENDS PolicyLaunch, TLC

Hashes == (1 :> 7) @@ (2 :> 7) @@ (3 :> 4)

To(v, b) == [action |-> Redirect, visible |-> v, backing |-> b]
No(v) == [action |-> Deny, visible |-> v, backing |-> << >>]
App(p, users, processes, mounts) ==
    [package |-> p, users |-> users, processes |-> processes, provider |-> FALSE,
     mounts |-> mounts]
Doc(legacy, apps) == [legacy |-> legacy, apps |-> apps]

Few == App(1, Star, Star, <<No(<<5>>), To(<<6>>, <<Package, User>>)>>)
Scoped == App(2, <<10, 0>>, <<20>>, <<To(<<5, 6>>, <<3>>), To(<<6>>, <<3>>)>>)
Many == App(2, Star, <<21, 20>>, <<No(<<5>>), No(<<6>>), No(<<7>>)>>)
Other == App(3, Star, Star, <<No(<<5>>)>>)

MCGens == {"all", "many", "other"}
MCDocuments ==
    [g \in MCGens |->
        CASE g = "all" -> Doc(FALSE, <<Other, Scoped, Few>>)
          [] g = "many" -> Doc(TRUE, <<Many, Few>>)
          [] g = "other" -> Doc(FALSE, <<Other>>)]

Plane(device, root) == [device |-> device, root |-> root]
View(visible, user, runtime, pass) ==
    [r \in Roots |-> CASE r = "visible" -> visible [] r = "user" -> user
                       [] r = "runtime" -> runtime [] r = "pass_through" -> pass]
Fuse == Plane(1, 0)
Media == Plane(2, 0)
MCStorages == {View(Fuse, Media, Fuse, Media), View(Media, NoPlane, Fuse, Media),
               View(NoPlane, Fuse, Fuse, NoPlane)}
AllFaults == FaultPoints
SomeFaults == {"rename", "dir_sync"}
=============================================================================
