---------------------------- MODULE MCBuildConfig ----------------------------
(* Instances of BuildConfig for TLC.  A MiB of 1024 bytes keeps the default *)
(* size within TLC's integers.                                              *)
EXTENDS BuildConfig

SmallMiB == 1024

(* What the code knows, one unknown name of each sort, and distributions *)
AllNames == KnownNames \cup {"linux/386", "lilo", "xfs", "x", "img"}
            \cup Supported \cup {"rhel"}

(* Sizes below, at and above a boot partition of 100 MiB, and unset *)
Sizes == {0, 99 * SmallMiB, 100 * SmallMiB, 101 * SmallMiB}

Asked(platforms, bootloaders, bootFSs, bootSizes, sizes, nms) ==
    [entry : {"cli", "library"}, platform : platforms, bootloader : bootloaders,
     split : BOOLEAN, bootFS : bootFSs, bootSize : bootSizes, size : sizes, luks : BOOLEAN,
     raw : BOOLEAN, nm : nms, format : {"qcow2"}]

(* Every combination of what chooses and checks a bootloader *)
Boots == Asked({"linux/amd64", "linux/arm64", "linux/aarch64", "linux/386"},
             {"", "syslinux", "grub", "grub-bios", "grub-efi", "lilo"},
             {"", "ext4", "fat32", "xfs"}, {100}, {1024 * SmallMiB}, {""})

(* Every combination of sizes, network managers and formats *)
Disks == [q : Asked({"linux/amd64"}, {""}, {""}, {49, 50, 100}, Sizes, {"", "netplan", "ifupdown", "x"}),
           f : {"qcow2", "img"}]

DiskRequests == {[d.q EXCEPT !.format = d.f] : d \in Disks}

AllReleases ==
    [id : {"ubuntu"}, version : {16, 18, 20}] \cup [id : {"debian"}, version : {9, 10}]
    \cup [id : {"centos", "rocky", "almalinux", "alpine", "kali", "rhel"}, version : {9}]
==============================================================================
