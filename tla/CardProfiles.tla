---------------------------- MODULE CardProfiles ----------------------------
(***************************************************************************)
(* The file lists of pySim: what the constructor of every directory,       *)
(* application, card profile, add-on and card model hands to add_files.    *)
(* An entry has the identifier, short identifier (0: none), name and       *)
(* service of the file; a directory's entry also has its class, which      *)
(* names the list of its children.  How the contents of a file are coded   *)
(* is left out: nothing here depends on it.                                *)
(***************************************************************************)
EXTENDS Integers, Sequences

No      == [rule |-> "none", of |-> {}]
One(n)  == [rule |-> "any",  of |-> {n}]
AnyOf(S) == [rule |-> "any",  of |-> S]
AllOf(S) == [rule |-> "all",  of |-> S]
E(fid, sfid, name, service)  == [fid |-> fid, sfid |-> sfid, name |-> name, service |-> service, class |-> "EF"]
D(fid, name, class, service) == [fid |-> fid, sfid |-> 0, name |-> name, service |-> service, class |-> class]

(* TS 51.011, TS 31.102 4.4.2 and 4.6: the directories below the MF of a SIM *)
DF_GSM ==
  << E("6f05", 0, "EF.LP", No), E("6f07", 0, "EF.IMSI", No), E("6f20", 0, "EF.Kc", No),
     E("6f30", 0, "EF.PLMNsel", No), E("6f31", 0, "EF.HPPLMN", No), E("6f37", 0, "EF.ACMmax", No),
     E("6f38", 0, "EF.SST", No), E("6f39", 0, "EF.ACM", No), E("6f3e", 0, "EF.GID1", No),
     E("6f3f", 0, "EF.GID2", No), E("6f46", 0, "EF.SPN", No), E("6f41", 0, "EF.PUCT", No),
     E("6f45", 0, "EF.CBMI", No), E("6f74", 0, "EF.BCCH", No), E("6f78", 0, "EF.ACC", No),
     E("6f7b", 0, "EF.FPLMN", No), E("6f7e", 0, "EF.LOCI", No), E("6fad", 0, "EF.AD", No),
     E("6fae", 0, "EF.Phase", No), E("6fb1", 0, "EF.VGCS", No), E("6fb2", 0, "EF.VGCSS", No),
     E("6fb3", 0, "EF.VBS", No), E("6fb4", 0, "EF.VBSS", No), E("6fb5", 0, "EF.eMLPP", No),
     E("6fb6", 0, "EF.AAeM", No), E("6f48", 0, "EF.CBMID", No), E("6fb7", 0, "EF.ECC", No),
     E("6f50", 0, "EF.CBMIR", No), E("6f2c", 0, "EF.DCK", No), E("6f32", 0, "EF.CNL", No),
     E("6f51", 0, "EF.NIA", No), E("6f52", 0, "EF.KcGPRS", No), E("6f53", 0, "EF.LOCIGPRS", No),
     E("6f54", 0, "EF.SUME", No), E("6f60", 0, "EF.PLMNwAcT", No), E("6f61", 0, "EF.OPLMNwAcT", No),
     E("6f62", 0, "EF.HPLMNwAcT", No), E("6f63", 0, "EF.CPBCCH", No), E("6f64", 0, "EF.InvScan", No),
     E("6fc5", 0, "EF.PNN", No), E("6fc6", 0, "EF.OPL", No), E("6fc7", 0, "EF.MBDN", No),
     E("6fc9", 0, "EF.MBI", No), E("6fca", 0, "EF.MWIS", No), E("6fcb", 0, "EF.CFIS", No),
     E("6fc8", 0, "EF.EXT6", No), E("6fcc", 0, "EF.EXT7", No), E("6fcd", 0, "EF.SPDI", No),
     E("6fce", 0, "EF.MMSN", No), E("6fcf", 0, "EF.EXT8", No), E("6fd0", 0, "EF.MMSICP", No),
     E("6fd1", 0, "EF.MMSUP", No), E("6fd2", 0, "EF.MMSUCP", No) >>
DF_TELECOM ==
  << E("6f3a", 0, "EF.ADN", No), E("6f3b", 0, "EF.FDN", No), E("6f3c", 0, "EF.SMS", No),
     E("6f3d", 0, "EF.CCP", No), E("6f4f", 0, "EF.ECCP", No), E("6f40", 0, "EF.MSISDN", No),
     E("6f42", 0, "EF.SMSP", No), E("6f43", 0, "EF.SMSS", No), E("6f44", 0, "EF.LND", No),
     E("6f49", 0, "EF.SDN", No), E("6f4a", 0, "EF.EXT1", No), E("6f4b", 0, "EF.EXT2", No),
     E("6f4c", 0, "EF.EXT3", No), E("6f4d", 0, "EF.BDN", No), E("6f4e", 0, "EF.EXT4", No),
     E("6f47", 0, "EF.SMSR", No), E("6f58", 0, "EF.CMI", No), D("5f3a", "DF.PHONEBOOK", "DF_PHONEBOOK", No),
     D("5f3b", "DF.MULTIMEDIA", "DF_MULTIMEDIA", No), D("5f3d", "DF.MCS", "DF_MCS", No),
     D("5f3e", "DF.V2X", "DF_V2X", No) >>
DF_PHONEBOOK ==
  << E("4f30", 0, "EF.PBR", No), E("4f22", 0, "EF.PSC", No), E("4f23", 0, "EF.CC", No),
     E("4f24", 0, "EF.PUID", No) >>
DF_MULTIMEDIA ==
  << E("4f47", 0, "EF.MML", No), E("4f48", 0, "EF.MMDF", No) >>
DF_MCS ==
  << E("4f01", 1, "EF.MST", No), E("4f02", 2, "EF.MCS_CONFIG", No) >>
DF_V2X ==
  << E("4f01", 1, "EF.VST", No), E("4f02", 2, "EF.V2X_CONFIG", No) >>

(* add-ons and card models *)
DF_CDMA ==
  << E("6f32", 0, "EF.CST", No), E("6f41", 0, "EF.SPN", No), E("6f43", 0, "EF.AD", No), E("6f3c", 0, "EF.SMS", No) >>
DF_EIRENE ==
  << E("6ff1", 0, "EF.FN", No), E("6ff2", 0, "EF.CallconfC", No), E("6ff3", 0, "EF.CallconfI", No),
     E("6ff4", 0, "EF.Shunting", No), E("6ff5", 0, "EF.GsmrPLMN", No), E("6f8d", 0, "EF.IC", No),
     E("6f80", 0, "EF.NW", No), E("6f8e", 0, "EF.CT", No), E("6f8f", 0, "EF.SC", No), E("6f88", 0, "EF.FC", No),
     E("6f89", 0, "EF.Service", No), E("6f8a", 0, "EF.Call", No), E("6f8b", 0, "EF.FctTeam", No),
     E("6f92", 0, "EF.Controller", No), E("6f8c", 0, "EF.Gateway", No), E("6f81", 0, "EF.5to8digits", No),
     E("6f82", 0, "EF.2digits", No), E("6f83", 0, "EF.8digits", No), E("6f84", 0, "EF.9digits", No),
     E("6f85", 0, "EF.SSSSS", No), E("6f86", 0, "EF.LLLLL", No), E("6f91", 0, "EF.Location", No),
     E("6f87", 0, "EF.FreeNumber", No) >>
DF_SYSTEM ==
  << E("6f01", 0, "EF.CHV1", No), E("6f81", 0, "EF.CHV2", No), E("6f0a", 0, "EF.ADM1", No),
     E("6f0b", 0, "EF.ADM2", No), E("6f0c", 0, "EF.ADM3", No), E("6f0d", 0, "EF.ADM4", No),
     E("6f21", 0, "EF.MILENAGE_CFG", No), E("6f22", 0, "EF.0348_KEY", No),
     E("af24", 0, "EF.SIM_AUTH_COUNTER", No), E("6f20", 0, "EF.SIM_AUTH_KEY", No),
     E("6f23", 0, "EF.0348_COUNT", No), E("6f26", 0, "EF.GP_COUNT", No), E("6f27", 0, "EF.GP_DIV_DATA", No) >>

(* TS 31.102: the USIM *)
ADF_USIM ==
  << E("6f05", 2, "EF.LI", No), E("6f08", 8, "EF.Keys", No), E("6f09", 9, "EF.KeysPS", No),
     E("6f60", 10, "EF.PLMNwAcT", One(20)), E("6f31", 18, "EF.HPPLMN", No), E("6f37", 0, "EF.ACMmax", One(13)),
     E("6f38", 4, "EF.UST", No), E("6f39", 0, "EF.ACM", One(13)), E("6f3e", 0, "EF.GID1", One(17)),
     E("6f3f", 0, "EF.GID2", One(18)), E("6f46", 0, "EF.SPN", One(19)), E("6f41", 0, "EF.PUCT", One(13)),
     E("6f45", 0, "EF.CBMI", One(15)), E("6f78", 6, "EF.ACC", No), E("6f7b", 13, "EF.FPLMN", No),
     E("6f7e", 11, "EF.LOCI", No), E("6fad", 3, "EF.AD", No), E("6f48", 14, "EF.CBMID", One(29)),
     E("6fb7", 1, "EF.ECC", No), E("6f50", 0, "EF.CBMIR", One(16)), E("6f73", 12, "EF.PSLOCI", No),
     E("6f3b", 0, "EF.FDN", AnyOf({2, 89})), E("6f3c", 0, "EF.SMS", One(10)), E("6f40", 0, "EF.MSISDN", One(21)),
     E("6f42", 0, "EF.SMSP", One(12)), E("6f43", 0, "EF.SMSS", One(10)), E("6f49", 0, "EF.SDN", AnyOf({4, 89})),
     E("6f4b", 0, "EF.EXT2", One(3)), E("6f4c", 0, "EF.EXT3", One(5)), E("6f47", 0, "EF.SMSR", One(11)),
     E("6f80", 20, "EF.ICI", One(9)), E("6f81", 21, "EF.OCI", One(8)), E("6f82", 0, "EF.ICT", One(9)),
     E("6f83", 0, "EF.OCT", One(8)), E("6f4e", 0, "EF.EXT5", One(44)), E("6f4f", 22, "EF.CCP2", One(14)),
     E("6fb5", 0, "EF.eMLPP", One(24)), E("6fb6", 0, "EF.AAeM", One(25)), E("6f4d", 0, "EF.BDN", One(6)),
     E("6f55", 0, "EF.EXT4", One(7)), E("6f58", 0, "EF.CMI", One(6)),
     E("6f56", 5, "EF.EST", AnyOf({2, 6, 34, 35})), E("6f57", 0, "EF.ACL", One(35)),
     E("6f2c", 0, "EF.DCK", One(36)), E("6f32", 0, "EF.CNL", One(37)), E("6f5b", 15, "EF.START-HFN", No),
     E("6f5c", 16, "EF.THRESHOLD", No), E("6f61", 17, "EF.OPLMNwAcT", One(42)),
     E("6f62", 19, "EF.HPLMNwAcT", One(43)), E("6f06", 23, "EF.ARR", No), E("6f65", 0, "EF.RPLMNAcTD", No),
     E("6fc4", 0, "EF.NETPAR", No), E("6fc5", 25, "EF.PNN", One(45)), E("6fc6", 0, "EF.OPL", One(46)),
     E("6fc7", 0, "EF.MBDN", One(47)), E("6fc8", 0, "EF.EXT6", No), E("6fc9", 0, "EF.MBI", One(47)),
     E("6fca", 0, "EF.MWIS", One(48)), E("6fcb", 0, "EF.CFIS", One(49)), E("6fcc", 0, "EF.EXT7", No),
     E("6fcd", 0, "EF.SPDI", One(51)), E("6fce", 0, "EF.MMSN", One(52)), E("6fcf", 0, "EF.EXT8", One(53)),
     E("6fd0", 0, "EF.MMSICP", One(52)), E("6fd1", 0, "EF.MMSUP", One(52)),
     E("6fd2", 0, "EF.MMSUCP", AllOf({52, 55})), E("6fd3", 0, "EF.NIA", One(56)),
     E("6fb1", 0, "EF.VGCS", One(57)), E("6fb2", 0, "EF.VGCSS", One(57)), E("6fb3", 0, "EF.VBS", One(58)),
     E("6fb4", 0, "EF.VBSS", One(58)), E("6fd4", 0, "EF.VGCSCA", One(64)), E("6fd5", 0, "EF.VBSCA", One(65)),
     E("6fd6", 0, "EF.GBABP", One(68)), E("6fd7", 0, "EF.MSK", One(69)), E("6fd8", 0, "EF.MUK", One(69)),
     E("6fda", 0, "EF.GBANL", One(68)), E("6fd9", 29, "EF.EHPLMN", One(71)),
     E("6fdb", 0, "EF.EHPLMNPI", AllOf({71, 73})), E("6fdd", 0, "EF.NAFKCA", AllOf({68, 76})),
     E("6fde", 0, "EF.SPNI", One(78)), E("6fdf", 0, "EF.PNNI", One(79)), E("6fe2", 0, "EF.NCP-IP", One(80)),
     E("6fe3", 30, "EF.EPSLOCI", One(85)), E("6fe4", 24, "EF.EPSNSC", One(85)), E("6fe6", 0, "EF.UFC", No),
     E("6fe8", 0, "EF.NASCONFIG", One(96)), E("6fec", 0, "EF.PWS", One(97)),
     E("6fed", 0, "EF.FDNURI", AllOf({2, 99})), E("6fee", 0, "EF.BDNURI", AllOf({6, 99})),
     E("6fef", 0, "EF.SDNURI", AllOf({4, 99})), E("6ff1", 0, "EF.IPS", No),
     E("6ff3", 0, "EF.ePDGId", AllOf({106, 107})), E("6ff4", 0, "EF.ePDGSelection", AllOf({106, 107})),
     E("6ff5", 0, "EF.ePDGIdEm", AllOf({110, 111})), E("6ff6", 0, "EF.ePDGSelectionEm", AllOf({110, 111})),
     E("6ff7", 0, "EF.FromPreferred", One(114)), E("6ff8", 0, "EF.IMSConfigData", One(115)),
     E("6ffc", 0, "EF.XCAPConfigData", One(120)), E("6ffd", 0, "EF.EARFCNList", One(121)),
     E("6ffe", 0, "EF.MuDMiDConfigData", One(134)), E("6f01", 0, "EF.eAKA", No),
     E("6f02", 0, "EF.OCST", One(148)), E("6f0a", 0, "EF.GBAUAPI", One(68)), E("6f0b", 0, "EF.IMSDCI", One(150)),
     D("5f3a", "DF.PHONEBOOK", "DF_PHONEBOOK", No), D("5f3b", "DF.GSM-ACCESS", "DF_GSM_ACCESS", One(27)),
     D("5f40", "DF.WLAN", "DF_WLAN", AnyOf({59, 60, 61, 62, 63, 66, 81, 82, 83, 84, 88})),
     D("5f50", "DF.HNB", "DF_HNB", AnyOf({86, 90})), D("5f90", "DF.ProSe", "DF_ProSe", One(101)),
     D("5fc0", "DF.5GS", "DF_USIM_5GS", AnyOf({122, 123, 124, 125, 126, 127, 129, 130})),
     D("5fe0", "DF.SNPN", "DF_SNPN", AnyOf({143, 146})), D("5ff0", "DF.5G_ProSe", "DF_5G_ProSe", One(139)),
     D("5fd0", "DF.SAIP", "DF_SAIP", No), D("5ff1", "DF.5MBSUECONFIG", "DF_5MBSUECONFIG", One(147)) >>
DF_GSM_ACCESS ==
  << E("4f20", 1, "EF.Kc", One(27)), E("4f52", 2, "EF.KcGPRS", One(27)), E("4f63", 0, "EF.CPBCCH", One(39)),
     E("4f64", 0, "EF.InvScan", One(40)) >>
DF_WLAN ==
  << E("4f41", 1, "EF.Pseudo", One(59)), E("4f42", 2, "EF.UPLMNWLAN", One(60)),
     E("4f43", 3, "EF.OPLMNWLAN", One(61)), E("4f44", 4, "EF.UWSIDL", One(62)),
     E("4f45", 5, "EF.OWSIDL", One(63)), E("4f46", 6, "EF.WRI", One(66)), E("4f47", 7, "EF.HWSIDL", One(81)),
     E("4f48", 8, "EF.WEHPLMNPI", One(82)), E("4f49", 9, "EF.WHPI", One(83)),
     E("4f4a", 10, "EF.WLRPLMN", One(84)), E("4f4b", 11, "EF.HPLMNDAI", One(88)) >>
DF_HNB ==
  << E("4f81", 1, "EF.ACSGL", One(86)), E("4f82", 2, "EF.CSGT", One(86)), E("4f83", 3, "EF.HNBN", One(86)),
     E("4f84", 4, "EF.OCSGL", One(90)), E("4f85", 5, "EF.OCSGT", One(90)), E("4f86", 6, "EF.OHNBN", One(90)) >>
DF_ProSe ==
  << E("4f01", 1, "EF.PROSE_MON", No), E("4f02", 2, "EF.PROSE_ANN", No), E("4f03", 3, "EF.PROSEFUNC", No),
     E("4f04", 4, "EF.PROSE_RADIO_COM", No), E("4f05", 5, "EF.PROSE_RADIO_MON", No),
     E("4f06", 6, "EF.PROSE_RADIO_ANN", No), E("4f07", 7, "EF.PROSE_POLICY", No),
     E("4f08", 8, "EF.PROSE_PLMN", No), E("4f09", 9, "EF.PROSE_GC", No), E("4f10", 16, "EF.PST", No),
     E("4f11", 17, "EF.UIRC", No), E("4f12", 18, "EF.PROSE_GM_DISCOVERY", No),
     E("4f13", 19, "EF.PROSE_RELAY", No), E("4f14", 20, "EF.PROSE_RELAY_DISCOVERY", No) >>
DF_USIM_5GS ==
  << E("4f01", 1, "EF.5GS3GPPLOCI", One(122)), E("4f02", 2, "EF.5GSN3GPPLOCI", One(122)),
     E("4f03", 3, "EF.5GS3GPPNSC", One(122)), E("4f04", 4, "EF.5GSN3GPPNSC", One(122)),
     E("4f05", 5, "EF.5GAUTHKEYS", One(123)), E("4f06", 6, "EF.UAC_AIC", One(126)),
     E("4f07", 7, "EF.SUCI_Calc_Info", One(124)), E("4f08", 8, "EF.OPL5G", One(129)),
     E("4f09", 9, "EF.SUPI_NAI", One(130)), E("4f0a", 10, "EF.Routing_Indicator", One(124)),
     E("4f0b", 11, "EF.URSP", One(132)), E("4f0c", 12, "EF.TN3GPPSNN", One(133)),
     E("4f0d", 13, "EF.CAG", One(137)), E("4f0e", 14, "EF.SOR-CMCI", One(138)), E("4f0f", 15, "EF.DRI", One(140)),
     E("4f10", 16, "EF.5GSEDRX", One(141)), E("4f11", 17, "EF.5GNSWO_CONF", One(142)),
     E("4f15", 21, "EF.MCHPPLMN", One(144)), E("4f16", 22, "EF.KAUSF_DERIVATION", One(145)) >>
DF_SAIP ==
  << E("4f01", 7, "EF.SUCI_Calc_Info", No) >>
DF_SNPN ==
  << E("4f01", 1, "EF.PWS_SNPN", One(143)), E("4f02", 2, "EF.NID", One(146)) >>
DF_5G_ProSe ==
  << E("4f01", 1, "EF.5G_PROSE_ST", No), E("4f02", 2, "EF.5G_PROSE_DD", One(1)),
     E("4f03", 3, "EF.5G_PROSE_DC", One(2)), E("4f04", 4, "EF.5G_PROSE_U2NRU", One(3)),
     E("4f05", 5, "EF.5G_PROSE_RU", One(4)), E("4f06", 6, "EF.5G_PROSE_UIR", One(5)),
     E("4f07", 7, "EF.5G_PROSE_U2URU", One(6)), E("4f08", 8, "EF.5G_PROSE_EU", One(7)) >>
DF_5MBSUECONFIG ==
  << E("4f01", 0, "EF.5MBSUECONFIG", No) >>

(* TS 31.103, TS 31.104 *)
ADF_ISIM ==
  << E("6f02", 2, "EF.IMPI", No), E("6f03", 5, "EF.DOMAIN", No), E("6f04", 4, "EF.IMPU", No),
     E("6fad", 0, "EF.AD", No), E("6f06", 6, "EF.ARR", No), E("6f07", 7, "EF.IST", No),
     E("6f09", 0, "EF.P-CSCF", One(5)), E("6fd5", 0, "EF.GBABP", One(2)), E("6fd7", 0, "EF.GBANL", One(2)),
     E("6fdd", 0, "EF.NAFKCA", One(2)), E("6f3c", 0, "EF.SMS", AllOf({6, 8})),
     E("6f43", 0, "EF.SMSS", AllOf({6, 8})), E("6f47", 0, "EF.SMSR", AllOf({7, 8})),
     E("6f42", 0, "EF.SMSP", One(8)), E("6fe7", 0, "EF.UICCIARI", One(10)),
     E("6ff7", 0, "EF.FromPreferred", One(17)), E("6ff8", 0, "EF.IMSConfigData", One(18)),
     E("6ffc", 0, "EF.XCAPConfigData", One(19)), E("6ffa", 0, "EF.WebRTCURI", One(20)),
     E("6ffe", 0, "EF.MuDMiDConfigData", One(21)), E("6f0a", 0, "EF.GBAUAPI", One(2)),
     E("6f0b", 0, "EF.IMSDCI", One(22)) >>
ADF_HPSIM ==
  << E("6f06", 6, "EF.ARR", No), E("6f07", 7, "EF.IMSI", No), E("6fad", 3, "EF.AD", No) >>

(* what the profiles, add-ons and models add *)
UiccFiles ==
  << E("2f00", 30, "EF.DIR", No), E("2fe2", 2, "EF.ICCID", No), E("2f05", 5, "EF.PL", No),
     E("2f06", 6, "EF.ARR", No), E("2f08", 8, "EF.UMPC", No) >>
SimFiles ==
  << E("2fe2", 2, "EF.ICCID", No), E("2f05", 5, "EF.PL", No), D("7f10", "DF.TELECOM", "DF_TELECOM", No),
     D("7f20", "DF.GSM", "DF_GSM", No) >>
AddonSimFiles ==
  << D("7f20", "DF.GSM", "DF_GSM", No), D("7f10", "DF.TELECOM", "DF_TELECOM", No) >>
AddonRuimFiles ==
  << D("7f25", "DF.CDMA", "DF_CDMA", No) >>
SjaUsimFiles ==
  << E("af20", 0, "EF.USIM_AUTH_KEY", No), E("af22", 0, "EF.USIM_AUTH_KEY_2G", No), E("af31", 0, "EF.GBA_SK", No),
     E("af32", 0, "EF.GBA_REC_LIST", No), E("af33", 0, "EF.GBA_INT_KEY", No), E("af30", 0, "EF.USIM_SQN", No) >>
SjaIsimFiles ==
  << E("af20", 0, "EF.ISIM_AUTH_KEY", No), E("af22", 0, "EF.ISIM_AUTH_KEY_2G", No),
     E("af30", 0, "EF.ISIM_SQN", No) >>

RuimFiles == << D("7f10", "DF.TELECOM", "DF_TELECOM", No), D("7f20", "DF.GSM", "DF_GSM", No), D("7f25", "DF.CDMA", "DF_CDMA", No) >>
AddonGsmrFiles == << D("7fe0", "DF.EIRENE", "DF_EIRENE", No) >>
SjaFiles == << D("a515", "DF.SYSTEM", "DF_SYSTEM", No) >>

(* The USIM with an IMSI appends one file to its list. *)
ImsiFile == << E("6f07", 7, "EF.IMSI", No) >>

(* The children a directory's constructor adds; security domains have none. *)
Contents(class) ==
  CASE class = "DF_GSM" -> DF_GSM
    [] class = "DF_TELECOM" -> DF_TELECOM
    [] class = "DF_PHONEBOOK" -> DF_PHONEBOOK
    [] class = "DF_MULTIMEDIA" -> DF_MULTIMEDIA
    [] class = "DF_MCS" -> DF_MCS
    [] class = "DF_V2X" -> DF_V2X
    [] class = "DF_CDMA" -> DF_CDMA
    [] class = "DF_EIRENE" -> DF_EIRENE
    [] class = "DF_SYSTEM" -> DF_SYSTEM
    [] class = "ADF_USIM" -> ADF_USIM \o ImsiFile
    [] class = "ADF_USIM_nonIMSI" -> ADF_USIM
    [] class = "DF_GSM_ACCESS" -> DF_GSM_ACCESS
    [] class = "DF_WLAN" -> DF_WLAN
    [] class = "DF_HNB" -> DF_HNB
    [] class = "DF_ProSe" -> DF_ProSe
    [] class = "DF_USIM_5GS" -> DF_USIM_5GS
    [] class = "DF_SAIP" -> DF_SAIP
    [] class = "DF_SNPN" -> DF_SNPN
    [] class = "DF_5G_ProSe" -> DF_5G_ProSe
    [] class = "DF_5MBSUECONFIG" -> DF_5MBSUECONFIG
    [] class = "ADF_ISIM" -> ADF_ISIM
    [] class = "ADF_HPSIM" -> ADF_HPSIM
    [] OTHER -> << >>
=============================================================================
