---------------------------- MODULE MCJenkinsJobs ----------------------------
(* JenkinsJobs with two jobs of the same name in two folders, and two       *)
(* requests at a time.                                                      *)
EXTENDS JenkinsJobs

MCNameOf(j) == "web"

=============================================================================
